------------------------ MODULE LruBufferPool_proofs ------------------------
(***************************************************************************)
(* LruBufferPool for every number of threads, frames and pages: who holds  *)
(* which frame is in order whatever fails, and as long as no read fails    *)
(* the pool implements PageMemory.                                         *)
(***************************************************************************)
EXTENDS LruHistory, FiniteSetTheorems, WellFoundedInduction, TLAPS

LEMMA Values ==
  /\ NumFrames \in Nat /\ NumFrames > 0 /\ MaxPages \in Nat
  /\ NoPage \notin Pages /\ NoFrame \notin Frames
  /\ Frames \subseteq Nat /\ Pages \subseteq Nat
  BY PoolAssumption DEF Frames, Pages

-----------------------------------------------------------------------------
(* Sets *)

(* A set of numbers has a least one: an instance of well-foundedness. *)
LEMMA NatMin ==
  ASSUME NEW T \in SUBSET Nat, T # {}
  PROVE \E x \in T : \A y \in T : x <= y
<1> DEFINE R == {ss \in Nat \X Nat : ss[1] < ss[2]}
<1>1. IsWellFoundedOn(R, Nat)
  BY NatLessThanWellFounded, Zenon DEF OpToRel
<1>2. \E x \in T : \A y \in T : ~ (<<y, x>> \in R)
  <2> HIDE DEF R
  <2> QED BY <1>1, WFMin, Zenon
<1>3. PICK x \in T : \A y \in T : ~ (<<y, x>> \in R)
  BY <1>2
<1>4. \A y \in T : x <= y
  <2> TAKE y \in T
  <2>1. <<y, x>> \in Nat \X Nat /\ x \in Nat /\ y \in Nat
    OBVIOUS
  <2>2. ~(y < x)
    BY <2>1, <1>3
  <2> QED BY <2>1, <2>2
<1> QED BY <1>4

(* A set of frames has a greatest one. *)
LEMMA LastFrameExists ==
  ASSUME NEW S \in SUBSET Frames, S # {}
  PROVE  \E x \in S : \A y \in S : y <= x
<1> DEFINE T == {NumFrames - s : s \in S}
<1>1. T \in SUBSET Nat /\ T # {}
  <2>1. \A s \in S : NumFrames - s \in Nat
    BY Values DEF Frames
  <2>2. PICK s \in S : TRUE
    OBVIOUS
  <2>3. NumFrames - s \in T
    BY <2>2
  <2> QED BY <2>1, <2>3
<1>2. PICK m \in T : \A y \in T : m <= y
  <2> HIDE DEF T
  <2> QED BY <1>1, NatMin
<1>3. PICK x \in S : m = NumFrames - x
  OBVIOUS
<1>4. \A y \in S : y <= x
  <2> TAKE y \in S
  <2>1. NumFrames - x <= NumFrames - y
    BY <1>2, <1>3
  <2> QED BY <2>1, Values
<1> QED BY <1>4

(* A pin more and a pin less, for a thread that gets or drops a handle. *)
LEMMA OneMore ==
  ASSUME NEW S \in SUBSET Threads, NEW t \in Threads, t \notin S
  PROVE  /\ Cardinality(S \union {t}) = Cardinality(S) + 1
         /\ Cardinality(S) \in Nat
  BY ThreadsFinite, FS_Subset, FS_AddElement, FS_CardinalityType

LEMMA OneLess ==
  ASSUME NEW S \in SUBSET Threads, NEW t \in S
  PROVE  /\ Cardinality(S \ {t}) = Cardinality(S) - 1
         /\ Cardinality(S) \in Nat /\ Cardinality(S) > 0
<1>1. IsFiniteSet(S)
  BY ThreadsFinite, FS_Subset
<1>2. Cardinality(S \ {t}) = Cardinality(S) - 1 /\ Cardinality(S) \in Nat
  BY <1>1, FS_RemoveElement, FS_CardinalityType
<1>3. Cardinality(S) # 0
  BY <1>1, FS_EmptySet
<1> QED BY <1>2, <1>3

LEMMA NoneLeft ==
  ASSUME NEW S \in SUBSET Threads, Cardinality(S) = 0
  PROVE  S = {}
  BY ThreadsFinite, FS_Subset, FS_EmptySet

-----------------------------------------------------------------------------
(* The list *)

(* Moving a frame to the front keeps the list a list of all frames. *)
LEMMA ListMoved ==
  ASSUME TypeOK, LruListsFrames, NEW f \in Frames, lru' = MoveToFront(f)
  PROVE  lru' \in [1 .. NumFrames -> Frames] /\ LruListsFrames'
<1> DEFINE i == CHOOSE i \in DOMAIN lru : lru[i] = f
<1>1. i \in 1 .. NumFrames /\ lru[i] = f /\ DOMAIN lru = 1 .. NumFrames
  BY DEF TypeOK, LruListsFrames
<1>2. lru' = [j \in 1 .. NumFrames |->
                IF j = 1 THEN f ELSE IF j <= i THEN lru[j - 1] ELSE lru[j]]
  BY <1>1 DEF MoveToFront
<1> HIDE DEF i
<1>3. lru' \in [1 .. NumFrames -> Frames]
  BY <1>1, <1>2, Values DEF TypeOK
<1>4. ASSUME NEW g \in Frames
      PROVE  \E j \in 1 .. NumFrames : lru'[j] = g
  <2>1. CASE g = f
    <3>1. 1 \in 1 .. NumFrames
      BY Values
    <3>2. lru'[1] = f
      BY <3>1, <1>2
    <3> QED BY <3>1, <3>2, <2>1
  <2>2. CASE g # f
    <3>1. PICK k \in 1 .. NumFrames : lru[k] = g
      BY <1>1 DEF LruListsFrames
    <3>2. CASE k < i
      <4>1. k + 1 \in 1 .. NumFrames /\ k + 1 # 1 /\ k + 1 <= i /\ (k + 1) - 1 = k
        BY <1>1, <3>2, Values
      <4>2. lru'[k + 1] = lru[k]
        BY <4>1, <1>2
      <4> QED BY <4>1, <4>2, <3>1
    <3>3. CASE k > i
      <4>1. lru'[k] = lru[k]
        BY <1>1, <1>2, <3>3, Values
      <4> QED BY <4>1, <3>1
    <3> QED BY <3>1, <3>2, <3>3, <1>1, <2>2, Values
  <2> QED BY <2>1, <2>2
<1> QED BY <1>3, <1>4, Values DEF LruListsFrames

-----------------------------------------------------------------------------
(* Ownership, whatever fails *)

LEMMA OwnershipInit == Init => OwnershipInv
<1> SUFFICES ASSUME Init PROVE OwnershipInv
  OBVIOUS
<1>1. TypeOK
  BY Values, PoolAssumption DEF Init, TypeOK, Frames, Pages
<1>2. PinsAccounted
  <2> SUFFICES ASSUME NEW f \in Frames PROVE pins[f] = Cardinality(HandlesOn(f))
    BY DEF PinsAccounted
  <2>1. HandlesOn(f) = {}
    BY DEF Init, HandlesOn
  <2> QED BY <2>1, FS_EmptySet DEF Init
<1>3. HandlesKeepTheirPage /\ EntriesLeadToPages /\ FramesFilled /\ PagesExist
  BY Values DEF Init, HandlesKeepTheirPage, EntriesLeadToPages, FramesFilled, PagesExist
<1>4. LruListsFrames
  <2> SUFFICES ASSUME NEW f \in Frames PROVE \E i \in DOMAIN lru : lru[i] = f
    BY DEF LruListsFrames
  <2>1. f + 1 \in 1 .. NumFrames /\ (f + 1) - 1 = f
    BY Values DEF Frames
  <2> QED BY <2>1 DEF Init
<1> QED BY <1>1, <1>2, <1>3, <1>4 DEF OwnershipInv

(* A page that is asked for is new to the thread. *)
LEMMA AskedIsNew ==
  ASSUME OwnershipInv, NEW t \in Threads, NEW p \in Pages, Asks(t, p)
  PROVE  p \notin Held(t)
  BY DEF OwnershipInv, PagesExist, Asks, Idle

(* An unpinned frame has no handles. *)
LEMMA UnpinnedIsFree ==
  ASSUME OwnershipInv, NEW f \in Frames, pins[f] = 0, NEW t \in Threads
  PROVE  handle[t][f] = NoPage
<1>1. HandlesOn(f) \in SUBSET Threads /\ Cardinality(HandlesOn(f)) = 0
  BY DEF OwnershipInv, PinsAccounted, HandlesOn
<1> QED BY <1>1, NoneLeft DEF HandlesOn

(* An operation that leaves table, list, pins and handles alone. *)
LEMMA BooksKept ==
  ASSUME OwnershipInv, TypeOK', FramesFilled',
         UNCHANGED <<count, table, lru, page, pins, handle>>,
         \A t \in Threads : alloc'[t] \in {alloc[t], NoPage}
  PROVE  OwnershipInv'
<1>1. PinsAccounted' /\ HandlesKeepTheirPage' /\ EntriesLeadToPages' /\ LruListsFrames'
  BY DEF OwnershipInv, PinsAccounted, HandlesOn, HandlesKeepTheirPage, EntriesLeadToPages,
         LruListsFrames
<1>2. PagesExist'
  BY DEF OwnershipInv, PagesExist, Held
<1> QED BY <1>1, <1>2 DEF OwnershipInv

LEMMA AnsweredType ==
  ASSUME TypeOK, NEW t \in Threads, Answered(t)
  PROVE  /\ alloc' \in [Threads -> Pages \union {NoPage}]
         /\ \A u \in Threads : alloc'[u] \in {alloc[u], NoPage}
         /\ alloc'[t] = NoPage
  BY DEF TypeOK, Answered

(* What the write of a frame's page puts into the file. *)
LEMMA WrittenType ==
  ASSUME OwnershipInv, NEW f \in Frames, page[f] # NoPage
  PROVE  data[f] \in Contents \union {Torn, Garbage} /\ page[f] \in Pages
  BY DEF OwnershipInv, TypeOK, FramesFilled

LEMMA EvictedType ==
  ASSUME OwnershipInv, NEW f \in Frames
  PROVE  Evicted(f) \in [Pages -> Contents \union {Torn, Garbage}]
  BY WrittenType DEF OwnershipInv, TypeOK, Evicted, NeedsWriteBack

LEMMA FlushedType ==
  ASSUME OwnershipInv, NEW n
  PROVE  /\ Flushed(n) \in [Pages -> Contents \union {Torn, Garbage}]
         /\ CleanBelow(n) \in [Frames -> BOOLEAN]
<1>1. ASSUME NEW p \in Pages
      PROVE  Flushed(n)[p] \in Contents \union {Torn, Garbage}
  <2> DEFINE copies == {f \in ToFlush(n) : page[f] = p}
  <2>1. Flushed(n)[p] = IF copies = {} THEN disk[p]
                        ELSE data[CHOOSE f \in copies : \A g \in copies : g <= f]
    BY DEF Flushed
  <2>2. CASE copies = {}
    BY <2>1, <2>2 DEF OwnershipInv, TypeOK
  <2>3. CASE copies # {}
    <3>1. copies \in SUBSET Frames
      BY DEF ToFlush
    <3>2. \E f \in copies : \A g \in copies : g <= f
      <4> HIDE DEF copies
      <4> QED BY <3>1, <2>3, LastFrameExists
    <3>3. PICK f \in copies : Flushed(n)[p] = data[f]
      BY <2>1, <2>3, <3>2
    <3>4. f \in Frames /\ page[f] # NoPage
      BY <3>3, <3>1, Values
    <3> QED BY <3>3, <3>4, WrittenType
  <2> QED BY <2>2, <2>3
<1>2. Flushed(n) \in [Pages -> Contents \union {Torn, Garbage}]
  BY <1>1 DEF Flushed
<1>3. CleanBelow(n) \in [Frames -> BOOLEAN]
  BY DEF CleanBelow, OwnershipInv, TypeOK
<1> QED BY <1>2, <1>3

(* A thread that gets a handle on a frame: one more pin. *)
LEMMA HandleTaken ==
  ASSUME OwnershipInv, NEW t \in Threads, NEW f \in Frames, NEW p \in Pages,
         handle[t][f] = NoPage,
         handle' = [handle EXCEPT ![t][f] = p],
         pins' = [pins EXCEPT ![f] = @ + 1]
  PROVE  /\ PinsAccounted'
         /\ pins' \in [Frames -> Nat]
         /\ handle' \in [Threads -> [Frames -> Pages \union {NoPage}]]
<1>1. pins' \in [Frames -> Nat] /\ handle' \in [Threads -> [Frames -> Pages \union {NoPage}]]
  BY DEF OwnershipInv, TypeOK
<1>2. \A u \in Threads, g \in Frames :
        handle'[u][g] = IF u = t /\ g = f THEN p ELSE handle[u][g]
  BY DEF OwnershipInv, TypeOK
<1>3. ASSUME NEW g \in Frames PROVE pins'[g] = Cardinality(HandlesOn(g)')
  <2>1. CASE g = f
    <3>1. HandlesOn(g)' = HandlesOn(f) \union {t} /\ t \notin HandlesOn(f)
      BY <1>2, <2>1, Values DEF HandlesOn
    <3>2. HandlesOn(f) \in SUBSET Threads /\ pins[f] = Cardinality(HandlesOn(f))
      BY DEF HandlesOn, OwnershipInv, PinsAccounted
    <3>3. pins'[g] = pins[f] + 1
      BY <2>1 DEF OwnershipInv, TypeOK
    <3> QED BY <3>1, <3>2, <3>3, OneMore
  <2>2. CASE g # f
    <3>1. HandlesOn(g)' = HandlesOn(g)
      BY <1>2, <2>2 DEF HandlesOn
    <3>2. pins'[g] = pins[g]
      BY <2>2 DEF OwnershipInv, TypeOK
    <3> QED BY <3>1, <3>2 DEF OwnershipInv, PinsAccounted
  <2> QED BY <2>1, <2>2
<1> QED BY <1>1, <1>3 DEF PinsAccounted

(* allocate_page: the new page is behind every page in use. *)
LEMMA AppendOwnership ==
  ASSUME OwnershipInv, NEW t \in Threads, AppendPage(t) \/ AppendFails(t)
  PROVE  OwnershipInv'
<1>1. /\ count \in 0 .. MaxPages /\ count < MaxPages /\ count' = count + 1
      /\ \/ alloc' = [alloc EXCEPT ![t] = count] \/ alloc' = alloc
      /\ \E v \in Contents \union {Torn} : disk' = [disk EXCEPT ![count] = v]
      /\ UNCHANGED <<table, lru, page, data, pins, dirty, handle>>
  BY PoolAssumption DEF OwnershipInv, TypeOK, AppendPage, AppendFails, frameVars
<1>2. count \in Pages
  BY <1>1, Values DEF Pages
<1>3. TypeOK' /\ FramesFilled'
  BY <1>1, <1>2, Values DEF OwnershipInv, TypeOK, FramesFilled
<1>4. PinsAccounted' /\ HandlesKeepTheirPage' /\ EntriesLeadToPages' /\ LruListsFrames'
  BY <1>1 DEF OwnershipInv, PinsAccounted, HandlesOn, HandlesKeepTheirPage, EntriesLeadToPages,
              LruListsFrames
<1>5. PagesExist'
  <2>1. \A f \in Frames : page[f] # NoPage => page[f] \in Nat /\ page[f] < count
    BY Values DEF OwnershipInv, TypeOK, PagesExist
  <2>2. \A f \in Frames : page'[f] # NoPage => page'[f] < count'
    BY <2>1, <1>1
  <2>3. count \notin Held(t)
    BY <2>1, <1>1 DEF Held, OwnershipInv, HandlesKeepTheirPage
  <2>4. \A u \in Threads : alloc[u] # NoPage =>
           alloc[u] \in Nat /\ alloc[u] < count /\ alloc[u] \notin Held(u)
    BY Values DEF OwnershipInv, TypeOK, PagesExist
  <2>5. \A u \in Threads : Held(u)' = Held(u)
    BY <1>1 DEF Held
  <2>6. \A u \in Threads : alloc'[u] = alloc[u] \/ (u = t /\ alloc'[u] = count)
    BY <1>1 DEF OwnershipInv, TypeOK
  <2>7. \A u \in Threads : alloc'[u] # NoPage => alloc'[u] < count' /\ alloc'[u] \notin Held(u)'
    BY <2>3, <2>4, <2>5, <2>6, <1>1
  <2> QED BY <2>2, <2>7 DEF PagesExist
<1> QED BY <1>3, <1>4, <1>5 DEF OwnershipInv

(* The handle a hit or a load returns is for a page the thread did not hold,
   so that a page just appended stays new to the others' threads. *)
LEMMA TakenPagesExist ==
  ASSUME OwnershipInv, NEW t \in Threads, NEW f \in Frames, NEW p \in Pages,
         handle' = [handle EXCEPT ![t][f] = p], Answered(t), count' = count,
         \A g \in Frames : page'[g] # NoPage => page'[g] < count
  PROVE  PagesExist'
<1>1. \A u \in Threads : u # t => Held(u)' = Held(u)
  BY DEF Held, OwnershipInv, TypeOK
<1>2. \A u \in Threads : alloc'[u] # NoPage => u # t /\ alloc'[u] = alloc[u]
  BY DEF Answered, OwnershipInv, TypeOK
<1> QED BY <1>1, <1>2 DEF PagesExist, OwnershipInv

LEMMA HitOwnership ==
  ASSUME OwnershipInv, NEW t \in Threads, NEW p \in Pages, Hit(t, p)
  PROVE  OwnershipInv'
<1> DEFINE f == table[p]
<1>1. f \in Frames /\ page[f] = p
  BY DEF Hit, OwnershipInv, TypeOK, EntriesLeadToPages
<1>2. p \notin Held(t)
  BY AskedIsNew DEF Hit
<1>3. handle[t][f] = NoPage
  BY <1>1, <1>2, Values DEF Held, OwnershipInv, HandlesKeepTheirPage
<1>4. /\ pins' = [pins EXCEPT ![f] = @ + 1]
      /\ lru' = MoveToFront(f)
      /\ handle' = [handle EXCEPT ![t][f] = p]
      /\ Answered(t)
      /\ UNCHANGED <<count, disk, table, page, data, dirty>>
  BY DEF Hit, fileVars
<1> HIDE DEF f
<1>5. PinsAccounted' /\ pins' \in [Frames -> Nat]
      /\ handle' \in [Threads -> [Frames -> Pages \union {NoPage}]]
  BY <1>1, <1>3, <1>4, HandleTaken
<1>6. lru' \in [1 .. NumFrames -> Frames] /\ LruListsFrames'
  BY <1>1, <1>4, ListMoved DEF OwnershipInv
<1>7. TypeOK'
  BY <1>4, <1>5, <1>6, AnsweredType DEF OwnershipInv, TypeOK
<1>8. HandlesKeepTheirPage'
  BY <1>1, <1>4 DEF HandlesKeepTheirPage, OwnershipInv, TypeOK
<1>9. EntriesLeadToPages' /\ FramesFilled'
  BY <1>4 DEF OwnershipInv, EntriesLeadToPages, FramesFilled
<1>10. PagesExist'
  BY <1>1, <1>4, TakenPagesExist DEF OwnershipInv, PagesExist
<1> QED BY <1>5, <1>6, <1>7, <1>8, <1>9, <1>10 DEF OwnershipInv

LEMMA TableWithoutType ==
  ASSUME OwnershipInv, NEW f \in Frames
  PROVE  /\ TableWithout(f) \in [Pages -> Frames \union {NoFrame}]
         /\ \A q \in Pages : TableWithout(f)[q] = IF page[f] = q THEN NoFrame ELSE table[q]
  BY Values DEF TableWithout, OwnershipInv, TypeOK

LEMMA LoadOwnership ==
  ASSUME OwnershipInv, NEW t \in Threads, NEW p \in Pages, NEW f \in Frames, Load(t, p, f)
  PROVE  OwnershipInv'
<1>1. /\ disk' = Evicted(f) /\ Evicted(f)[p] # Torn /\ p < count
      /\ table' = [TableWithout(f) EXCEPT ![p] = f]
      /\ page' = [page EXCEPT ![f] = p]
      /\ data' = [data EXCEPT ![f] = Evicted(f)[p]]
      /\ pins' = [pins EXCEPT ![f] = 1] /\ dirty' = [dirty EXCEPT ![f] = FALSE]
      /\ lru' = MoveToFront(f)
      /\ handle' = [handle EXCEPT ![t][f] = p]
      /\ Answered(t) /\ count' = count /\ pins[f] = 0 /\ table[p] = NoFrame
  BY DEF Load, Replaces, EvictTarget
<1>2. \A u \in Threads : handle[u][f] = NoPage
  BY <1>1, UnpinnedIsFree
<1>3. pins' = [pins EXCEPT ![f] = @ + 1]
  BY <1>1 DEF OwnershipInv, TypeOK
<1>4. PinsAccounted' /\ pins' \in [Frames -> Nat]
      /\ handle' \in [Threads -> [Frames -> Pages \union {NoPage}]]
  BY <1>1, <1>2, <1>3, HandleTaken
<1>5. lru' \in [1 .. NumFrames -> Frames] /\ LruListsFrames'
  BY <1>1, ListMoved DEF OwnershipInv
<1>6. disk' \in [Pages -> Contents \union {Torn, Garbage}]
      /\ data' \in [Frames -> Contents \union {Zeroed, Garbage}]
      /\ data'[f] # Zeroed
  BY <1>1, EvictedType, PoolAssumption DEF OwnershipInv, TypeOK
<1>7. TypeOK'
  BY <1>1, <1>4, <1>5, <1>6, AnsweredType, TableWithoutType DEF OwnershipInv, TypeOK
<1>8. HandlesKeepTheirPage'
  BY <1>1, <1>2 DEF HandlesKeepTheirPage, OwnershipInv, TypeOK
<1>9. EntriesLeadToPages'
  <2> SUFFICES ASSUME NEW q \in Pages, NEW g \in Frames, table'[q] = g PROVE page'[g] = q
    BY DEF EntriesLeadToPages
  <2>1. CASE q = p
    BY <2>1, <1>1, TableWithoutType DEF OwnershipInv, TypeOK
  <2>2. CASE q # p
    <3>1. table[q] = g /\ page[f] # q
      BY <2>2, <1>1, TableWithoutType, Values
    <3>2. page[g] = q /\ g # f
      BY <3>1 DEF OwnershipInv, EntriesLeadToPages
    <3> QED BY <3>2, <1>1 DEF OwnershipInv, TypeOK
  <2> QED BY <2>1, <2>2
<1>10. FramesFilled'
  BY <1>1, <1>6 DEF OwnershipInv, FramesFilled, TypeOK
<1>11. PagesExist'
  <2>1. \A g \in Frames : page'[g] # NoPage => page'[g] < count
    BY <1>1 DEF OwnershipInv, PagesExist, TypeOK
  <2> QED BY <2>1, <1>1, TakenPagesExist
<1> QED BY <1>4, <1>5, <1>7, <1>8, <1>9, <1>10, <1>11 DEF OwnershipInv

LEMMA ReadFailsOwnership ==
  ASSUME OwnershipInv, NEW t \in Threads, NEW p \in Pages, NEW f \in Frames, ReadFails(t, p, f)
  PROVE  OwnershipInv'
<1>1. /\ disk' = Evicted(f)
      /\ table' = TableWithout(f)
      /\ \E bytes \in {data[f], Garbage} : data' = [data EXCEPT ![f] = bytes]
      /\ Answered(t) /\ UNCHANGED <<count, lru, page, pins, dirty, handle>>
  BY DEF ReadFails
<1>2. TypeOK'
  BY <1>1, EvictedType, TableWithoutType, AnsweredType DEF OwnershipInv, TypeOK
<1>3. PinsAccounted' /\ HandlesKeepTheirPage' /\ LruListsFrames'
  BY <1>1 DEF OwnershipInv, PinsAccounted, HandlesOn, HandlesKeepTheirPage, LruListsFrames
<1>4. EntriesLeadToPages'
  BY <1>1, TableWithoutType, Values DEF OwnershipInv, EntriesLeadToPages
<1>5. PagesExist'
  BY <1>1, AnsweredType DEF OwnershipInv, PagesExist, Held
<1>6. FramesFilled'
  BY <1>1, PoolAssumption DEF OwnershipInv, FramesFilled, TypeOK
<1> QED BY <1>2, <1>3, <1>4, <1>5, <1>6 DEF OwnershipInv

LEMMA DropOwnership ==
  ASSUME OwnershipInv, NEW t \in Threads, NEW f \in Frames, DropHandle(t, f)
  PROVE  OwnershipInv'
<1>1. /\ handle[t][f] # NoPage
      /\ handle' = [handle EXCEPT ![t][f] = NoPage]
      /\ UNCHANGED <<count, disk, table, lru, page, data, dirty, alloc>>
  BY DEF DropHandle, fileVars
<1>2. /\ Cardinality(HandlesOn(f) \ {t}) = pins[f] - 1 /\ pins[f] > 0
  <2>1. HandlesOn(f) \in SUBSET Threads /\ t \in HandlesOn(f)
    BY <1>1 DEF HandlesOn
  <2> QED BY <2>1, OneLess DEF OwnershipInv, PinsAccounted
<1>3. pins' = [pins EXCEPT ![f] = @ - 1]
  BY <1>1, <1>2 DEF DropHandle, OwnershipInv, HandlesKeepTheirPage
<1>4. \A u \in Threads, g \in Frames :
        handle'[u][g] = IF u = t /\ g = f THEN NoPage ELSE handle[u][g]
  BY <1>1 DEF OwnershipInv, TypeOK
<1>5. TypeOK'
  <2>1. pins[f] - 1 \in Nat
    BY <1>2 DEF OwnershipInv, TypeOK
  <2> QED BY <2>1, <1>1, <1>3 DEF OwnershipInv, TypeOK
<1>6. PinsAccounted'
  <2> SUFFICES ASSUME NEW g \in Frames PROVE pins'[g] = Cardinality(HandlesOn(g)')
    BY DEF PinsAccounted
  <2>1. CASE g = f
    <3>1. HandlesOn(g)' = HandlesOn(f) \ {t}
      BY <1>4, <2>1 DEF HandlesOn
    <3> QED BY <3>1, <2>1, <1>2, <1>3 DEF OwnershipInv, TypeOK
  <2>2. CASE g # f
    <3>1. HandlesOn(g)' = HandlesOn(g)
      BY <1>4, <2>2 DEF HandlesOn
    <3> QED BY <3>1, <2>2, <1>3 DEF OwnershipInv, TypeOK, PinsAccounted
  <2> QED BY <2>1, <2>2
<1>7. HandlesKeepTheirPage'
  BY <1>1, <1>4 DEF OwnershipInv, HandlesKeepTheirPage
<1>8. EntriesLeadToPages' /\ LruListsFrames' /\ FramesFilled'
  BY <1>1 DEF OwnershipInv, EntriesLeadToPages, LruListsFrames, FramesFilled
<1>9. PagesExist'
  <2>1. \A u \in Threads : Held(u)' \subseteq Held(u)
    BY <1>4 DEF Held
  <2> QED BY <2>1, <1>1 DEF OwnershipInv, PagesExist
<1> QED BY <1>5, <1>6, <1>7, <1>8, <1>9 DEF OwnershipInv

(* The steps that only change contents. *)
LEMMA ContentOwnership ==
  ASSUME OwnershipInv, NEW t \in Threads,
         \/ \E p \in Pages : Exhausted(t, p)
         \/ \E p \in Pages, f \in Frames : WriteBackFails(t, p, f)
         \/ \E f \in Frames, v \in Contents : Modify(t, f, v)
         \/ FlushAll(t) \/ \E f \in Frames : FlushFails(t, f)
  PROVE  OwnershipInv'
<1>1. ASSUME NEW p \in Pages, Exhausted(t, p) PROVE OwnershipInv'
  <2>1. Answered(t) /\ UNCHANGED <<count, disk, table, lru, page, data, pins, dirty, handle>>
    BY <1>1 DEF Exhausted, fileVars, frameVars
  <2>2. TypeOK' /\ FramesFilled'
    BY <2>1, AnsweredType DEF OwnershipInv, TypeOK, FramesFilled
  <2> QED BY <2>1, <2>2, AnsweredType, BooksKept DEF OwnershipInv
<1>2. ASSUME NEW p \in Pages, NEW f \in Frames, WriteBackFails(t, p, f) PROVE OwnershipInv'
  <2>1. Answered(t) /\ UNCHANGED <<count, table, lru, page, data, pins, dirty, handle>>
    BY <1>2 DEF WriteBackFails, frameVars
  <2>2. page[f] # NoPage
        /\ \E v \in {disk[page[f]], data[f], Torn} : disk' = [disk EXCEPT ![page[f]] = v]
    BY <1>2 DEF WriteBackFails, NeedsWriteBack, AfterFailedWrite
  <2>3. TypeOK' /\ FramesFilled'
    BY <2>1, <2>2, WrittenType, AnsweredType DEF OwnershipInv, TypeOK, FramesFilled
  <2> QED BY <2>1, <2>3, AnsweredType, BooksKept DEF OwnershipInv
<1>3. ASSUME NEW f \in Frames, NEW v \in Contents, Modify(t, f, v) PROVE OwnershipInv'
  <2>1. /\ data' = [data EXCEPT ![f] = v] /\ dirty' = [dirty EXCEPT ![f] = TRUE]
        /\ UNCHANGED <<count, disk, table, lru, page, pins, handle, alloc>>
    BY <1>3 DEF Modify, fileVars
  <2>2. TypeOK' /\ FramesFilled'
    BY <2>1, PoolAssumption DEF OwnershipInv, TypeOK, FramesFilled
  <2> QED BY <2>1, <2>2, BooksKept
<1>4. ASSUME FlushAll(t) PROVE OwnershipInv'
  <2>1. /\ disk' = Flushed(NumFrames) /\ dirty' = CleanBelow(NumFrames)
        /\ UNCHANGED <<count, table, lru, page, data, pins, handle, alloc>>
    BY <1>4 DEF FlushAll
  <2>2. TypeOK' /\ FramesFilled'
    BY <2>1, FlushedType DEF OwnershipInv, TypeOK, FramesFilled
  <2> QED BY <2>1, <2>2, BooksKept
<1>5. ASSUME NEW f \in Frames, FlushFails(t, f) PROVE OwnershipInv'
  <2>1. /\ page[f] # NoPage
        /\ \E v \in {Flushed(f)[page[f]], data[f], Torn} :
             disk' = [Flushed(f) EXCEPT ![page[f]] = v]
        /\ dirty' = CleanBelow(f)
        /\ UNCHANGED <<count, table, lru, page, data, pins, handle, alloc>>
    BY <1>5 DEF FlushFails, ToFlush, NeedsWriteBack, AfterFailedWrite
  <2>2. TypeOK' /\ FramesFilled'
    BY <2>1, FlushedType, WrittenType DEF OwnershipInv, TypeOK, FramesFilled
  <2> QED BY <2>1, <2>2, BooksKept
<1> QED BY <1>1, <1>2, <1>3, <1>4, <1>5

(* No step of the pool, and no fault, upsets the ownership of frames. *)
LEMMA OwnershipStep == OwnershipInv /\ [Next]_vars => OwnershipInv'
<1> SUFFICES ASSUME OwnershipInv, [Next]_vars PROVE OwnershipInv'
  OBVIOUS
<1>1. CASE UNCHANGED vars
  <2>1. TypeOK' /\ FramesFilled'
    BY <1>1 DEF OwnershipInv, TypeOK, FramesFilled, vars, fileVars, frameVars
  <2> QED BY <1>1, <2>1, BooksKept DEF vars, fileVars, frameVars
<1>2. ASSUME NEW t \in Threads,
             AppendPage(t) \/ AppendFails(t) \/ PinStep(t) \/ HandleStep(t) \/ FlushStep(t)
      PROVE  OwnershipInv'
  <2>1. CASE AppendPage(t) \/ AppendFails(t)
    BY <2>1, AppendOwnership
  <2>2. CASE PinStep(t)
    BY <2>2, HitOwnership, LoadOwnership, ReadFailsOwnership, ContentOwnership DEF PinStep
  <2>3. CASE HandleStep(t)
    BY <2>3, DropOwnership, ContentOwnership DEF HandleStep
  <2>4. CASE FlushStep(t)
    BY <2>4, ContentOwnership DEF FlushStep
  <2> QED BY <1>2, <2>1, <2>2, <2>3, <2>4
<1> QED BY <1>1, <1>2 DEF Next

(* Whatever reads and writes fail, the books of the pool are in order. *)
THEOREM LruOwnership == Spec => []OwnershipInv
  BY OwnershipInit, OwnershipStep, PTL DEF Spec

(* A handle's frame has its page as long as the handle lives: "page handle no
   longer points to its page" is never reported. *)
THEOREM HandlesAreStable == Spec => []HandlesKeepTheirPage
<1>1. OwnershipInv => HandlesKeepTheirPage
  BY DEF OwnershipInv
<1> QED BY <1>1, LruOwnership, PTL

(* pin_count counts the handles, also after failures. *)
THEOREM PinsCountHandles == Spec => []PinsAccounted
<1>1. OwnershipInv => PinsAccounted
  BY DEF OwnershipInv
<1> QED BY <1>1, LruOwnership, PTL

-----------------------------------------------------------------------------
(* Contents, when reads succeed *)

LEMMA StoreInit == Init => StoreInv
<1> SUFFICES ASSUME Init PROVE StoreInv
  OBVIOUS
<1>1. OwnershipInv
  BY OwnershipInit
<1>2. FramesAreInTable /\ CleanFramesMatchDisk
  BY Values DEF Init, FramesAreInTable, CleanFramesMatchDisk
<1>3. NoGarbage /\ AllocatedReachable
  BY PoolAssumption DEF Init, NoGarbage, AllocatedReachable
<1> QED BY <1>1, <1>2, <1>3 DEF StoreInv

(* The frame of a page is unique, and is before the end of the file. *)
LEMMA OneFrame ==
  ASSUME StoreInv, NEW f \in Frames, page[f] # NoPage
  PROVE  /\ page[f] \in Pages /\ page[f] \in Nat /\ count \in Nat /\ page[f] < count
         /\ table[page[f]] = f
         /\ data[f] \in Contents
         /\ \A g \in Frames : page[g] = page[f] => g = f
<1>1. page[f] \in Pages /\ page[f] < count
  BY DEF StoreInv, OwnershipInv, TypeOK, PagesExist
<1>2. page[f] \in Nat /\ count \in Nat
  <2>1. count \in 0 .. MaxPages
    BY DEF StoreInv, OwnershipInv, TypeOK
  <2>2. count \in Nat
    BY <2>1, Values
  <2>3. page[f] \in Nat
    BY <1>1, Values
  <2> QED BY <2>2, <2>3
<1>3. data[f] \in Contents
  BY DEF StoreInv, OwnershipInv, TypeOK, FramesFilled, NoGarbage
<1>4. \A g \in Frames : page[g] = page[f] => table[page[f]] = g
  BY <1>1 DEF StoreInv, FramesAreInTable
<1>5. table[page[f]] = f /\ \A g \in Frames : page[g] = page[f] => g = f
  BY <1>4
<1> QED BY <1>1, <1>2, <1>3, <1>5

(* What was allocated can be fetched as long as no page gets out of reach. *)
LEMMA ReachKept ==
  ASSUME StoreInv, NEW t \in Threads,
         Answered(t) \/ UNCHANGED alloc,
         \A q \in Pages : Reachable(q) => Reachable(q)'
  PROVE  AllocatedReachable'
<1> SUFFICES ASSUME NEW u \in Threads, NEW q, q = alloc'[u], q # NoPage
             PROVE  Reachable(q)'
  BY DEF AllocatedReachable, Reachable
<1>1. alloc[u] \in Pages \union {NoPage} /\ q = alloc[u]
  BY DEF StoreInv, OwnershipInv, TypeOK, Answered
<1>2. q \in Pages /\ Reachable(q)
  BY <1>1 DEF StoreInv, AllocatedReachable
<1> QED BY <1>2

(* A step that leaves the table alone, and writes no page but those of frames. *)
LEMMA FramesReach ==
  ASSUME StoreInv, table' = table,
         \A q \in Pages : (\A f \in Frames : page[f] # q) => disk'[q] = disk[q]
  PROVE  \A q \in Pages : Reachable(q) => Reachable(q)'
<1> SUFFICES ASSUME NEW q \in Pages, Reachable(q) PROVE Reachable(q)'
  OBVIOUS
<1>1. ASSUME NEW f \in Frames, page[f] = q PROVE table[q] = f /\ f # NoFrame
  BY <1>1, Values DEF StoreInv, FramesAreInTable
<1> QED BY <1>1 DEF Reachable

LEMMA AppendStore ==
  ASSUME StoreInv, OwnershipInv', NEW t \in Threads, AppendPage(t) \/ AppendFails(t)
  PROVE  StoreInv'
<1>1. /\ count \in 0 .. MaxPages /\ count < MaxPages /\ count' = count + 1
      /\ \E v \in Contents \union {Torn} : disk' = [disk EXCEPT ![count] = v]
      /\ UNCHANGED <<table, lru, page, data, pins, dirty, handle>>
  BY PoolAssumption DEF StoreInv, OwnershipInv, TypeOK, AppendPage, AppendFails, frameVars
<1>2. \A q \in Pages : q # count => disk'[q] = disk[q]
  BY <1>1 DEF StoreInv, OwnershipInv, TypeOK
<1>3. CleanFramesMatchDisk'
  <2> SUFFICES ASSUME NEW f \in Frames, page'[f] # NoPage, ~dirty'[f]
               PROVE  data'[f] = disk'[page'[f]]
    BY DEF CleanFramesMatchDisk
  <2>1. page[f] \in Pages /\ page[f] # count
    BY <1>1, OneFrame
  <2> QED BY <2>1, <1>1, <1>2 DEF StoreInv, CleanFramesMatchDisk
<1>4. NoGarbage'
  <2>1. \A q \in Pages : disk'[q] # Garbage
    BY <1>1, <1>2, PoolAssumption DEF StoreInv, NoGarbage, OwnershipInv, TypeOK
  <2>2. ASSUME NEW q \in Pages, q >= count' PROVE disk'[q] = Torn
    <3>1. q # count /\ q >= count
      BY <2>2, <1>1, Values
    <3> QED BY <3>1, <1>2 DEF StoreInv, NoGarbage
  <2> QED BY <2>1, <2>2, <1>1 DEF StoreInv, NoGarbage
<1>5. FramesAreInTable'
  BY <1>1 DEF StoreInv, FramesAreInTable
<1>6. AllocatedReachable'
  <2> SUFFICES ASSUME NEW u \in Threads, NEW q, q = alloc'[u], q # NoPage
               PROVE  Reachable(q)'
    BY DEF AllocatedReachable, Reachable
  <2>1. CASE q = alloc[u]
    <3>1. q \in Pages /\ q < count /\ Reachable(q)
      BY <2>1 DEF StoreInv, OwnershipInv, TypeOK, PagesExist, AllocatedReachable
    <3>2. q # count
      BY <3>1, <1>1
    <3> QED BY <3>1, <3>2, <1>1, <1>2 DEF Reachable
  <2>2. CASE q # alloc[u]
    <3>1. AppendPage(t) /\ q = count
      BY <2>2 DEF AppendPage, AppendFails, StoreInv, OwnershipInv, TypeOK
    <3>2. q \in Pages
      <4>1. q \in Nat /\ q < MaxPages /\ MaxPages \in Nat
        BY <3>1, <1>1, Values, PoolAssumption
      <4> QED BY <4>1 DEF Pages
    <3>3. disk'[q] = Fresh
      BY <3>1, <3>2 DEF AppendPage, StoreInv, OwnershipInv, TypeOK
    <3> QED BY <3>3, PoolAssumption DEF Reachable
  <2> QED BY <2>1, <2>2
<1> QED BY <1>3, <1>4, <1>5, <1>6 DEF StoreInv

(* The file after the eviction of f: only the page of f may have changed, and
   it now has the content the frame had. *)
LEMMA EvictedIs ==
  ASSUME StoreInv, NEW f \in Frames
  PROVE  /\ \A q \in Pages : Evicted(f)[q] = IF page[f] = q THEN data[f] ELSE disk[q]
         /\ \A q \in Pages : Evicted(f)[q] # Garbage /\ (q >= count => Evicted(f)[q] = Torn)
<1>1. ASSUME NEW q \in Pages
      PROVE  Evicted(f)[q] = IF page[f] = q THEN data[f] ELSE disk[q]
  <2>1. CASE NeedsWriteBack(f)
    BY <2>1 DEF Evicted, NeedsWriteBack, StoreInv, OwnershipInv, TypeOK
  <2>2. CASE ~NeedsWriteBack(f)
    BY <2>2, Values DEF Evicted, NeedsWriteBack, StoreInv, CleanFramesMatchDisk
  <2> QED BY <2>1, <2>2
<1>2. ASSUME NEW q \in Pages
      PROVE  Evicted(f)[q] # Garbage /\ (q >= count => Evicted(f)[q] = Torn)
  <2>1. page[f] = q => q < count /\ q \in Nat /\ count \in Nat
    BY OneFrame, Values
  <2>2. page[f] = q => ~(q >= count)
    BY <2>1
  <2> QED BY <1>1, <2>2 DEF StoreInv, NoGarbage
<1> QED BY <1>1, <1>2

LEMMA LoadStore ==
  ASSUME StoreInv, OwnershipInv', NEW t \in Threads, NEW p \in Pages, NEW f \in Frames,
         Load(t, p, f)
  PROVE  StoreInv'
<1>1. /\ disk' = Evicted(f)
      /\ table' = [TableWithout(f) EXCEPT ![p] = f]
      /\ page' = [page EXCEPT ![f] = p]
      /\ data' = [data EXCEPT ![f] = Evicted(f)[p]]
      /\ dirty' = [dirty EXCEPT ![f] = FALSE]
      /\ count' = count /\ table[p] = NoFrame
  BY DEF Load, Replaces
<1>2. /\ page'[f] = p /\ data'[f] = Evicted(f)[p] /\ dirty'[f] = FALSE
      /\ \A g \in Frames : g # f =>
           page'[g] = page[g] /\ data'[g] = data[g] /\ dirty'[g] = dirty[g]
  BY <1>1 DEF StoreInv, OwnershipInv, TypeOK
<1>3. OwnershipInv
  BY DEF StoreInv
<1>4. FramesAreInTable'
  <2> SUFFICES ASSUME NEW q \in Pages, NEW g \in Frames, page'[g] = q PROVE table'[q] = g
    BY DEF FramesAreInTable
  <2>1. CASE g = f
    BY <2>1, <1>1, <1>2, <1>3, TableWithoutType
  <2>2. CASE g # f
    <3>1. table[q] = g /\ q # p /\ page[f] # q
      BY <2>2, <1>1, <1>2, Values DEF StoreInv, FramesAreInTable
    <3> QED BY <3>1, <1>1, <1>3, TableWithoutType
  <2> QED BY <2>1, <2>2
<1>5. CleanFramesMatchDisk'
  <2> SUFFICES ASSUME NEW g \in Frames, page'[g] # NoPage, ~dirty'[g]
               PROVE  data'[g] = disk'[page'[g]]
    BY DEF CleanFramesMatchDisk
  <2>1. CASE g = f
    BY <2>1, <1>1, <1>2
  <2>2. CASE g # f
    <3>1. page[g] \in Pages /\ page[f] # page[g] /\ data[g] = disk[page[g]]
      BY <2>2, <1>2, OneFrame DEF StoreInv, CleanFramesMatchDisk
    <3> QED BY <3>1, <2>2, <1>1, <1>2, EvictedIs
  <2> QED BY <2>1, <2>2
<1>6. NoGarbage'
  BY <1>1, <1>2, EvictedIs DEF StoreInv, NoGarbage
<1>7. AllocatedReachable'
  <2>1. \A q \in Pages : table'[q] = IF q = p THEN f ELSE IF page[f] = q THEN NoFrame ELSE table[q]
    BY <1>1, <1>3, TableWithoutType
  <2>2. ASSUME NEW q \in Pages, Reachable(q) PROVE Reachable(q)'
    <3>1. CASE q = p
      BY <3>1, <2>1, Values DEF Reachable
    <3>2. CASE q # p /\ page[f] = q
      <4>1. data[f] \in Contents
        BY <3>2, OneFrame, Values
      <4>2. disk'[q] = data[f]
        BY <3>2, <1>1, EvictedIs
      <4> QED BY <4>1, <4>2, PoolAssumption DEF Reachable
    <3>3. CASE q # p /\ page[f] # q
      BY <2>2, <3>3, <2>1, <1>1, EvictedIs DEF Reachable
    <3> QED BY <3>1, <3>2, <3>3
  <2> QED BY <2>2, ReachKept DEF Load
<1> QED BY <1>4, <1>5, <1>6, <1>7 DEF StoreInv

LEMMA WriteBackFailsStore ==
  ASSUME StoreInv, OwnershipInv', NEW t \in Threads, NEW p \in Pages, NEW f \in Frames,
         WriteBackFails(t, p, f)
  PROVE  StoreInv'
<1>1. /\ page[f] # NoPage /\ dirty[f]
      /\ \E v \in {disk[page[f]], data[f], Torn} : disk' = [disk EXCEPT ![page[f]] = v]
      /\ UNCHANGED <<count, table, page, data, dirty>>
  BY DEF WriteBackFails, NeedsWriteBack, AfterFailedWrite, frameVars
<1>2. /\ page[f] \in Pages /\ page[f] < count /\ count \in Nat /\ page[f] \in Nat
      /\ \A q \in Pages : q # page[f] => disk'[q] = disk[q]
      /\ disk'[page[f]] \in {disk[page[f]], data[f], Torn}
  BY <1>1, OneFrame DEF StoreInv, OwnershipInv, TypeOK
<1>3. CleanFramesMatchDisk'
  <2> SUFFICES ASSUME NEW g \in Frames, page[g] # NoPage, ~dirty[g]
               PROVE  data[g] = disk'[page[g]]
    BY <1>1 DEF CleanFramesMatchDisk
  <2>1. page[g] \in Pages /\ page[g] # page[f]
    BY <1>1, OneFrame
  <2> QED BY <2>1, <1>2 DEF StoreInv, CleanFramesMatchDisk
<1>4. NoGarbage'
  BY <1>1, <1>2, PoolAssumption, Values DEF StoreInv, NoGarbage
<1>5. AllocatedReachable'
  <2>1. \A q \in Pages : Reachable(q) => Reachable(q)'
    BY <1>1, <1>2, FramesReach
  <2> QED BY <2>1, ReachKept DEF WriteBackFails
<1> QED BY <1>1, <1>3, <1>4, <1>5 DEF StoreInv, FramesAreInTable

(* The file after a flush of the frames below n, page by page. *)
LEMMA FlushedIs ==
  ASSUME StoreInv, NEW n
  PROVE  /\ \A f \in Frames : page[f] # NoPage =>
              Flushed(n)[page[f]] = IF f \in ToFlush(n) THEN data[f] ELSE disk[page[f]]
         /\ \A q \in Pages : (\A f \in Frames : page[f] # q) => Flushed(n)[q] = disk[q]
<1>1. \A q \in Pages :
        LET copies == {f \in ToFlush(n) : page[f] = q}
        IN Flushed(n)[q] = IF copies = {} THEN disk[q]
                           ELSE data[CHOOSE f \in copies : \A g \in copies : g <= f]
  BY DEF Flushed
<1>2. ToFlush(n) \subseteq Frames
  BY DEF ToFlush
<1>3. ASSUME NEW f \in Frames, page[f] # NoPage
      PROVE  Flushed(n)[page[f]] = IF f \in ToFlush(n) THEN data[f] ELSE disk[page[f]]
  <2> DEFINE copies == {g \in ToFlush(n) : page[g] = page[f]}
  <2>1. page[f] \in Pages /\ \A g \in Frames : page[g] = page[f] => g = f
    BY <1>3, OneFrame
  <2>2. Flushed(n)[page[f]] = IF copies = {} THEN disk[page[f]]
                              ELSE data[CHOOSE g \in copies : \A h \in copies : h <= g]
    BY <1>1, <2>1
  <2>3. CASE f \in ToFlush(n)
    <3>1. copies = {f}
      BY <2>1, <2>3, <1>2
    <3>2. (CHOOSE g \in copies : \A h \in copies : h <= g) = f
      <4>1. f <= f
        BY Values
      <4> QED BY <3>1, <4>1
    <3> QED BY <3>1, <3>2, <2>2, <2>3
  <2>4. CASE f \notin ToFlush(n)
    <3>1. copies = {}
      BY <2>1, <2>4, <1>2
    <3> QED BY <3>1, <2>2, <2>4
  <2> QED BY <2>3, <2>4
<1>4. ASSUME NEW q \in Pages, \A f \in Frames : page[f] # q
      PROVE  Flushed(n)[q] = disk[q]
  <2>1. {f \in ToFlush(n) : page[f] = q} = {}
    BY <1>2, <1>4
  <2> QED BY <2>1, <1>1
<1> QED BY <1>3, <1>4

LEMMA FlushAllStore ==
  ASSUME StoreInv, OwnershipInv', NEW t \in Threads, FlushAll(t)
  PROVE  StoreInv'
<1>1. /\ disk' = Flushed(NumFrames) /\ dirty' = CleanBelow(NumFrames)
      /\ UNCHANGED <<count, table, page, data>>
  BY DEF FlushAll
<1>2. CleanFramesMatchDisk'
  <2> SUFFICES ASSUME NEW f \in Frames, page[f] # NoPage, ~dirty'[f]
               PROVE  data[f] = Flushed(NumFrames)[page[f]]
    BY <1>1 DEF CleanFramesMatchDisk
  <2>1. f \in ToFlush(NumFrames) \/ ~dirty[f]
    BY <1>1 DEF CleanBelow
  <2> QED BY <2>1, FlushedIs DEF StoreInv, CleanFramesMatchDisk
<1>3. NoGarbage'
  <2>1. ASSUME NEW q \in Pages
        PROVE  Flushed(NumFrames)[q] # Garbage
               /\ (q >= count => Flushed(NumFrames)[q] = Torn)
    <3>1. CASE \A f \in Frames : page[f] # q
      BY <3>1, FlushedIs DEF StoreInv, NoGarbage
    <3>2. ASSUME NEW f \in Frames, page[f] = q
          PROVE  Flushed(NumFrames)[q] # Garbage /\ (q >= count => Flushed(NumFrames)[q] = Torn)
      <4>1. page[f] # NoPage /\ ~(q >= count)
        BY <3>2, OneFrame, Values
      <4>2. Flushed(NumFrames)[q] \in {data[f], disk[q]}
        BY <4>1, <3>2, FlushedIs
      <4> QED BY <4>1, <4>2 DEF StoreInv, NoGarbage
    <3> QED BY <3>1, <3>2
  <2> QED BY <2>1, <1>1 DEF StoreInv, NoGarbage
<1>4. AllocatedReachable'
  <2>1. \A q \in Pages : Reachable(q) => Reachable(q)'
    BY <1>1, FlushedIs, FramesReach
  <2> QED BY <2>1, ReachKept DEF FlushAll
<1> QED BY <1>1, <1>2, <1>3, <1>4 DEF StoreInv, FramesAreInTable

LEMMA FlushFailsStore ==
  ASSUME StoreInv, OwnershipInv', NEW t \in Threads, NEW f \in Frames, FlushFails(t, f)
  PROVE  StoreInv'
<1>1. /\ page[f] # NoPage /\ dirty[f]
      /\ \E v \in {Flushed(f)[page[f]], data[f], Torn} :
           disk' = [Flushed(f) EXCEPT ![page[f]] = v]
      /\ dirty' = CleanBelow(f)
      /\ UNCHANGED <<count, table, page, data>>
  BY DEF FlushFails, ToFlush, NeedsWriteBack, AfterFailedWrite
<1>2. /\ page[f] \in Pages /\ ~(page[f] >= count)
      /\ \A q \in Pages : q # page[f] => disk'[q] = Flushed(f)[q]
      /\ disk'[page[f]] \in {Flushed(f)[page[f]], data[f], Torn}
  <2>1. OwnershipInv
    BY DEF StoreInv
  <2>2. Flushed(f) \in [Pages -> Contents \union {Torn, Garbage}]
    BY <2>1, FlushedType
  <2> QED BY <1>1, <2>2, OneFrame
<1>3. dirty'[f]
  <2>1. f \notin ToFlush(f)
    BY Values DEF ToFlush
  <2> QED BY <2>1, <1>1 DEF CleanBelow
<1>4. CleanFramesMatchDisk'
  <2> SUFFICES ASSUME NEW g \in Frames, page[g] # NoPage, ~dirty'[g]
               PROVE  data[g] = disk'[page[g]]
    BY <1>1 DEF CleanFramesMatchDisk
  <2>1. page[g] \in Pages /\ page[g] # page[f]
    BY <1>3, OneFrame, <1>1
  <2>2. g \in ToFlush(f) \/ ~dirty[g]
    BY <1>1 DEF CleanBelow
  <2>3. data[g] = Flushed(f)[page[g]]
    BY <2>2, FlushedIs DEF StoreInv, CleanFramesMatchDisk
  <2> QED BY <2>1, <2>3, <1>2
<1>5. NoGarbage'
  <2>1. ASSUME NEW q \in Pages
        PROVE  disk'[q] # Garbage /\ (q >= count => disk'[q] = Torn)
    <3>1. CASE \A g \in Frames : page[g] # q
      BY <3>1, <1>2, FlushedIs DEF StoreInv, NoGarbage
    <3>2. ASSUME NEW g \in Frames, page[g] = q
          PROVE  disk'[q] # Garbage /\ (q >= count => disk'[q] = Torn)
      <4>1. page[g] # NoPage /\ ~(q >= count)
        BY <3>2, OneFrame, Values
      <4>2. Flushed(f)[q] \in {data[g], disk[q]}
        BY <4>1, <3>2, FlushedIs
      <4>3. disk'[q] \in {Flushed(f)[q], data[f], Torn}
        BY <1>2
      <4> QED BY <4>1, <4>2, <4>3, PoolAssumption DEF StoreInv, NoGarbage
    <3> QED BY <3>1, <3>2
  <2> QED BY <2>1, <1>1 DEF StoreInv, NoGarbage
<1>6. AllocatedReachable'
  <2>1. \A q \in Pages : (\A g \in Frames : page[g] # q) => disk'[q] = disk[q]
    BY <1>2, FlushedIs
  <2>2. \A q \in Pages : Reachable(q) => Reachable(q)'
    BY <1>1, <2>1, FramesReach
  <2> QED BY <2>2, ReachKept DEF FlushFails
<1> QED BY <1>1, <1>4, <1>5, <1>6 DEF StoreInv, FramesAreInTable

(* Without failing reads the branch that damages a frame is never taken. *)
LEMMA NoReadFails ==
  ASSUME ReadsSucceed, StoreInv, NEW t \in Threads, NEW p \in Pages, NEW f \in Frames
  PROVE  ~ReadFails(t, p, f)
<1> SUFFICES ASSUME ReadFails(t, p, f) PROVE FALSE
  OBVIOUS
<1>1. p >= count \/ Evicted(f)[p] = Torn
  BY DEF ReadFails, ReadsSucceed
<1>2. table[p] = NoFrame /\ Reachable(p)
  <2>1. CASE Idle(t)
    BY <2>1 DEF ReadFails, Replaces, Asks, ReadsSucceed
  <2>2. CASE ~Idle(t)
    BY <2>2 DEF ReadFails, Replaces, Asks, Idle, StoreInv, AllocatedReachable
  <2> QED BY <2>1, <2>2
<1>3. disk[p] # Torn /\ page[f] # p
  BY <1>2, Values DEF Reachable, StoreInv, FramesAreInTable
<1>4. ~(p >= count)
  BY <1>3 DEF StoreInv, NoGarbage
<1> QED BY <1>1, <1>3, <1>4, EvictedIs

(* No write is lost and no copy goes stale. *)
LEMMA StoreStep ==
  ASSUME ReadsSucceed
  PROVE  StoreInv /\ [Next]_vars => StoreInv'
<1> SUFFICES ASSUME StoreInv, [Next]_vars PROVE StoreInv'
  OBVIOUS
<1>1. OwnershipInv'
  BY OwnershipStep DEF StoreInv
<1>2. ASSUME UNCHANGED <<count, disk, table, page, data, dirty>>, AllocatedReachable'
      PROVE  StoreInv'
  BY <1>1, <1>2 DEF StoreInv, FramesAreInTable, CleanFramesMatchDisk, NoGarbage
<1>3. CASE UNCHANGED vars
  <2>1. AllocatedReachable'
    BY <1>3 DEF vars, fileVars, StoreInv, AllocatedReachable, Reachable
  <2> QED BY <1>2, <1>3, <2>1 DEF vars, fileVars, frameVars
<1>4. ASSUME NEW t \in Threads,
             AppendPage(t) \/ AppendFails(t) \/ PinStep(t) \/ HandleStep(t) \/ FlushStep(t)
      PROVE  StoreInv'
  <2>1. CASE AppendPage(t) \/ AppendFails(t)
    BY <2>1, <1>1, AppendStore
  <2>2. CASE PinStep(t)
    <3>1. ASSUME NEW p \in Pages, Hit(t, p) \/ Exhausted(t, p) PROVE StoreInv'
      <4>1. Answered(t) /\ UNCHANGED <<count, disk, table, page, data, dirty>>
        BY <3>1 DEF Hit, Exhausted, fileVars, frameVars
      <4>2. AllocatedReachable'
        BY <4>1, ReachKept DEF Reachable
      <4> QED BY <4>1, <4>2, <1>2
    <3> QED BY <2>2, <3>1, <1>1, LoadStore, WriteBackFailsStore, NoReadFails DEF PinStep
  <2>3. CASE HandleStep(t)
    <3>1. ASSUME NEW f \in Frames, DropHandle(t, f) PROVE StoreInv'
      <4>1. UNCHANGED <<count, disk, table, page, data, dirty, alloc>>
        BY <3>1 DEF DropHandle, fileVars
      <4>2. AllocatedReachable'
        BY <4>1, ReachKept DEF Reachable
      <4> QED BY <4>1, <4>2, <1>2
    <3>2. ASSUME NEW f \in Frames, NEW v \in Contents, Modify(t, f, v) PROVE StoreInv'
      <4>1. /\ data' = [data EXCEPT ![f] = v] /\ dirty' = [dirty EXCEPT ![f] = TRUE]
            /\ UNCHANGED <<count, disk, table, page, alloc>>
        BY <3>2 DEF Modify, fileVars
      <4>2. AllocatedReachable'
        BY <4>1, ReachKept DEF Reachable
      <4> QED BY <4>1, <4>2, <1>1, PoolAssumption
              DEF StoreInv, FramesAreInTable, CleanFramesMatchDisk, NoGarbage, OwnershipInv, TypeOK
    <3> QED BY <2>3, <3>1, <3>2 DEF HandleStep
  <2>4. CASE FlushStep(t)
    BY <2>4, <1>1, FlushAllStore, FlushFailsStore DEF FlushStep
  <2> QED BY <1>4, <2>1, <2>2, <2>3, <2>4
<1> QED BY <1>3, <1>4 DEF Next

(* When reads succeed, a frame that is not dirty has what the file has, a page
   has at most one frame, and nothing but pages is ever written. *)
THEOREM LruStore == ReadsSucceed => (Spec => []StoreInv)
<1> SUFFICES ASSUME ReadsSucceed PROVE Spec => []StoreInv
  OBVIOUS
<1>1. StoreInv /\ [Next]_vars => StoreInv'
  BY StoreStep
<1> QED BY <1>1, StoreInit, PTL DEF Spec

-----------------------------------------------------------------------------
(* Refinement of PageMemory *)

(* The pages that some thread holds, when h are the handles. *)
HeldBy(h) == UNION {{h[t][f] : f \in Frames} \ {NoPage} : t \in Threads}

HandlesFit(pg, h) ==
  \A t \in Threads, f \in Frames : h[t][f] # NoPage => pg[f] = h[t][f]

(* The pages that are held are pages of frames, hence no more than frames. *)
LEMMA HeldFit ==
  ASSUME NEW pg, NEW h, HandlesFit(pg, h)
  PROVE  Cardinality(HeldBy(h)) <= NumFrames
<1> USE DEF HandlesFit
<1> DEFINE S == UNION {{h[t][f] : f \in Frames} \ {NoPage} : t \in Threads}
           frameOf == [p \in S |-> CHOOSE f \in Frames : pg[f] = p]
<1>1. ASSUME NEW p \in S PROVE \E f \in Frames : pg[f] = p
  OBVIOUS
<1>2. \A p \in S : frameOf[p] \in Frames /\ pg[frameOf[p]] = p
  BY <1>1
<1> HIDE DEF S
<1>3. frameOf \in [S -> Frames]
  BY <1>2
<1> HIDE DEF frameOf
<1>4. frameOf \in Injection(S, Frames)
  BY <1>2, <1>3 DEF Injection, IsInjective
<1>5. IsFiniteSet(Frames) /\ Cardinality(Frames) = NumFrames
  <2>1. 0 \in Int /\ NumFrames - 1 \in Int /\ ~(0 > NumFrames - 1) /\ (NumFrames - 1) - 0 + 1 = NumFrames
    BY Values
  <2> QED BY <2>1, FS_Interval DEF Frames
<1>6. Cardinality(S) <= Cardinality(Frames)
  BY <1>4, <1>5, FS_Injection
<1> QED BY <1>5, <1>6 DEF S, HeldBy

LEMMA ContentType ==
  ASSUME StoreInv, NEW p \in Pages
  PROVE  /\ Content(p) \in Contents
         /\ table[p] # NoFrame =>
              table[p] \in Frames /\ page[table[p]] = p /\ Content(p) = data[table[p]]
         /\ table[p] = NoFrame => \A f \in Frames : page[f] # p
<1>1. table[p] \in Frames \union {NoFrame}
  BY DEF StoreInv, OwnershipInv, TypeOK
<1>2. CASE table[p] # NoFrame
  <2>1. table[p] \in Frames /\ page[table[p]] = p
    BY <1>1, <1>2 DEF StoreInv, OwnershipInv, EntriesLeadToPages
  <2> QED BY <2>1, <1>2, OneFrame, Values DEF Content
<1>3. CASE table[p] = NoFrame
  <2>1. disk[p] \in Contents \union {Torn}
    BY DEF StoreInv, OwnershipInv, TypeOK, NoGarbage
  <2>2. \A f \in Frames : page[f] # p
    BY <1>3, Values DEF StoreInv, FramesAreInTable
  <2> QED BY <2>1, <2>2, <1>3, PoolAssumption DEF Content
<1> QED BY <1>2, <1>3

LEMMA MemoryInit == Init => Memory!Init
<1> SUFFICES ASSUME Init PROVE Memory!Init
  OBVIOUS
<1>1. StoreInv
  BY StoreInit
<1>2. \A p \in Pages : Content(p) \in Contents
  BY <1>1, ContentType
<1>3. \A t \in Threads : Held(t) = {}
  BY DEF Init, Held
<1> QED BY <1>2, <1>3 DEF Memory!Init

(* A step that changes no content and no handle is a step of nobody. *)
LEMMA Stutters ==
  ASSUME \A p \in Pages : Content(p)' = Content(p), handle' = handle
  PROVE  UNCHANGED Memory!memvars
<1>1. \A t \in Threads : Held(t)' = Held(t)
  BY DEF Held
<1> QED BY <1>1 DEF Memory!memvars

(* A step that gives t a handle for p, and changes no content, is Acquire. *)
LEMMA Acquires ==
  ASSUME OwnershipInv, OwnershipInv',
         NEW t \in Threads, NEW p \in Pages, NEW f \in Frames,
         p \notin Held(t), handle[t][f] = NoPage,
         handle' = [handle EXCEPT ![t][f] = p],
         \A q \in Pages : Content(q)' = Content(q)
  PROVE  Memory!Acquire(t, p)
<1>1. \A u \in Threads, g \in Frames :
        handle'[u][g] = IF u = t /\ g = f THEN p ELSE handle[u][g]
  BY DEF OwnershipInv, TypeOK
<1>2. Held(t)' = Held(t) \union {p} /\ \A u \in Threads : u # t => Held(u)' = Held(u)
  <2>1. Held(t)' \subseteq Held(t) \union {p}
    BY <1>1 DEF Held
  <2>2. Held(t) \subseteq Held(t)'
    <3> SUFFICES ASSUME NEW g \in Frames, handle[t][g] # NoPage PROVE handle[t][g] \in Held(t)'
      BY DEF Held
    <3>1. g # f
      OBVIOUS
    <3>2. handle'[t][g] = handle[t][g]
      BY <3>1, <1>1
    <3> QED BY <3>2 DEF Held
  <2>3. p \in Held(t)'
    BY <1>1, Values DEF Held
  <2>4. \A u \in Threads : u # t => Held(u)' = Held(u)
    BY <1>1 DEF Held
  <2> QED BY <2>1, <2>2, <2>3, <2>4
<1>3. Cardinality(UNION {Held(u)' : u \in Threads}) <= NumFrames
  <2>1. HandlesFit(page', handle')
    BY DEF OwnershipInv, HandlesKeepTheirPage, HandlesFit
  <2>2. Cardinality(HeldBy(handle')) <= NumFrames
    BY <2>1, HeldFit
  <2>3. HeldBy(handle') = UNION {Held(u)' : u \in Threads}
    BY DEF HeldBy, Held
  <2> QED BY <2>2, <2>3
<1> DEFINE held == [u \in Threads |-> Held(u)]
<1>4. held' = [held EXCEPT ![t] = @ \union {p}]
  BY <1>2
<1>5. Memory!HeldPages(held') = UNION {Held(u)' : u \in Threads}
  BY DEF Memory!HeldPages
<1>6. Memory!Cardinality(Memory!HeldPages(held')) <= NumFrames
  BY <1>3, <1>5 DEF Memory!Cardinality, Cardinality
<1>7. UNCHANGED <<[q \in Pages |-> Content(q)], [q \in Pages |-> NoThread]>>
  OBVIOUS
<1> QED BY <1>4, <1>6, <1>7 DEF Memory!Acquire

LEMMA AppendMemory ==
  ASSUME StoreInv, StoreInv', NEW t \in Threads, AppendPage(t) \/ AppendFails(t)
  PROVE  UNCHANGED Memory!memvars
<1>1. /\ count \in 0 .. MaxPages /\ count < MaxPages
      /\ \E v \in {Fresh, Torn} : disk' = [disk EXCEPT ![count] = v]
      /\ UNCHANGED <<table, page, data, handle>>
  BY DEF StoreInv, OwnershipInv, TypeOK, AppendPage, AppendFails, frameVars
<1>2. ASSUME NEW p \in Pages PROVE Content(p)' = Content(p)
  <2>1. CASE p # count
    <3>1. disk'[p] = disk[p]
      BY <1>1, <2>1 DEF StoreInv, OwnershipInv, TypeOK
    <3> QED BY <3>1, <1>1 DEF Content
  <2>2. CASE p = count
    <3>1. \A f \in Frames : page[f] # p
      BY <2>2, OneFrame, Values
    <3>2. table[p] = NoFrame
      BY <3>1, ContentType
    <3>3. disk[p] = Torn
      <4>1. p >= count
        BY <2>2, <1>1, Values
      <4> QED BY <4>1 DEF StoreInv, NoGarbage
    <3>4. disk'[p] \in {Fresh, Torn}
      BY <1>1, <2>2 DEF StoreInv, OwnershipInv, TypeOK
    <3> QED BY <3>2, <3>3, <3>4, <1>1 DEF Content
  <2> QED BY <2>1, <2>2
<1> QED BY <1>1, <1>2, Stutters

LEMMA HitMemory ==
  ASSUME StoreInv, StoreInv', NEW t \in Threads, NEW p \in Pages, Hit(t, p)
  PROVE  Memory!Acquire(t, p)
<1>1. table[p] \in Frames /\ page[table[p]] = p
  BY ContentType DEF Hit
<1>2. p \notin Held(t)
  BY AskedIsNew DEF Hit, StoreInv
<1>3. handle[t][table[p]] = NoPage
  BY <1>1, <1>2, Values DEF Held, StoreInv, OwnershipInv, HandlesKeepTheirPage
<1>4. handle' = [handle EXCEPT ![t][table[p]] = p] /\ UNCHANGED <<disk, table, data>>
  BY DEF Hit, fileVars
<1>5. \A q \in Pages : Content(q)' = Content(q)
  BY <1>4 DEF Content
<1>6. OwnershipInv /\ OwnershipInv'
  BY DEF StoreInv
<1> QED BY <1>1, <1>2, <1>3, <1>4, <1>5, <1>6, Acquires

LEMMA LoadMemory ==
  ASSUME StoreInv, StoreInv', NEW t \in Threads, NEW p \in Pages, NEW f \in Frames, Load(t, p, f)
  PROVE  Memory!Acquire(t, p)
<1>1. /\ disk' = Evicted(f) /\ Evicted(f)[p] # Torn
      /\ table' = [TableWithout(f) EXCEPT ![p] = f]
      /\ data' = [data EXCEPT ![f] = Evicted(f)[p]]
      /\ handle' = [handle EXCEPT ![t][f] = p]
      /\ pins[f] = 0 /\ table[p] = NoFrame /\ Asks(t, p)
  BY DEF Load, Replaces, EvictTarget
<1>2. OwnershipInv /\ OwnershipInv'
  BY DEF StoreInv
<1>3. p \notin Held(t) /\ handle[t][f] = NoPage
  BY <1>1, <1>2, AskedIsNew, UnpinnedIsFree
<1>4. \A g \in Frames : data'[g] = IF g = f THEN Evicted(f)[p] ELSE data[g]
  BY <1>1, <1>2 DEF OwnershipInv, TypeOK
<1>5. \A q \in Pages : table'[q] = IF q = p THEN f ELSE IF page[f] = q THEN NoFrame ELSE table[q]
  BY <1>1, <1>2, TableWithoutType
<1>6. ASSUME NEW q \in Pages PROVE Content(q)' = Content(q)
  <2>1. CASE q = p
    <3>1. page[f] # p
      BY <1>1, ContentType
    <3>2. Content(q) = disk[p] /\ Evicted(f)[p] = disk[p]
      BY <2>1, <3>1, <1>1, EvictedIs DEF Content
    <3>3. Content(q)' = Evicted(f)[p]
      BY <2>1, <1>4, <1>5, Values DEF Content
    <3> QED BY <3>2, <3>3
  <2>2. CASE q # p /\ page[f] = q
    <3>1. table[q] = f /\ Content(q) = data[f] /\ data[f] \in Contents
      BY <2>2, OneFrame, ContentType, Values
    <3>2. table'[q] = NoFrame /\ disk'[q] = data[f]
      BY <2>2, <1>1, <1>5, EvictedIs
    <3>3. data[f] # Torn
      BY <3>1, PoolAssumption
    <3> QED BY <3>1, <3>2, <3>3 DEF Content
  <2>3. CASE q # p /\ page[f] # q
    <3>1. table'[q] = table[q] /\ disk'[q] = disk[q]
      BY <2>3, <1>1, <1>5, EvictedIs
    <3>2. table[q] # f
      BY <2>3, ContentType, Values
    <3>3. table[q] # NoFrame => data'[table[q]] = data[table[q]]
      BY <3>2, <1>4, ContentType
    <3> QED BY <3>1, <3>3 DEF Content
  <2> QED BY <2>1, <2>2, <2>3
<1> QED BY <1>1, <1>2, <1>3, <1>6, Acquires

LEMMA WriteBackFailsMemory ==
  ASSUME StoreInv, NEW t \in Threads, NEW p \in Pages, NEW f \in Frames, WriteBackFails(t, p, f)
  PROVE  UNCHANGED Memory!memvars
<1>1. /\ page[f] # NoPage
      /\ \E v : disk' = [disk EXCEPT ![page[f]] = v]
      /\ UNCHANGED <<table, data, handle>>
  BY DEF WriteBackFails, NeedsWriteBack, frameVars
<1>2. table[page[f]] = f /\ page[f] \in Pages
  BY <1>1, OneFrame
<1>3. ASSUME NEW q \in Pages PROVE Content(q)' = Content(q)
  <2>1. table[q] = NoFrame => disk'[q] = disk[q]
    BY <1>1, <1>2, Values DEF StoreInv, OwnershipInv, TypeOK
  <2> QED BY <2>1, <1>1 DEF Content
<1> QED BY <1>1, <1>3, Stutters

LEMMA ModifyMemory ==
  ASSUME StoreInv, NEW t \in Threads, NEW f \in Frames, NEW v \in Contents, Modify(t, f, v)
  PROVE  handle[t][f] \in Pages /\ Memory!Write(t, handle[t][f], v)
<1>1. /\ handle[t][f] # NoPage /\ page[f] = handle[t][f]
      /\ data' = [data EXCEPT ![f] = v]
      /\ UNCHANGED <<disk, table, handle>>
  BY DEF Modify, fileVars
<1> DEFINE p == handle[t][f]
<1>2. p \in Pages /\ table[p] = f /\ p \in Held(t)
  BY <1>1, OneFrame DEF Held
<1>3. ASSUME NEW q \in Pages PROVE Content(q)' = IF q = p THEN v ELSE Content(q)
  <2>1. CASE q = p
    BY <2>1, <1>1, <1>2, Values DEF Content, StoreInv, OwnershipInv, TypeOK
  <2>2. CASE q # p
    <3>1. table[q] # f
      BY <2>2, <1>1, ContentType, Values
    <3>2. table[q] # NoFrame => data'[table[q]] = data[table[q]]
      BY <3>1, <1>1, ContentType DEF StoreInv, OwnershipInv, TypeOK
    <3> QED BY <3>2, <2>2, <1>1 DEF Content
  <2> QED BY <2>1, <2>2
<1> DEFINE mem == [q \in Pages |-> Content(q)]
<1>4. mem' = [mem EXCEPT ![p] = v]
  BY <1>3
<1>5. \A u \in Threads : Held(u)' = Held(u)
  BY <1>1 DEF Held
<1> QED BY <1>2, <1>4, <1>5 DEF Memory!Write

LEMMA DropMemory ==
  ASSUME StoreInv, NEW t \in Threads, NEW f \in Frames, DropHandle(t, f)
  PROVE  handle[t][f] \in Pages /\ Memory!Release(t, handle[t][f])
<1>1. /\ handle[t][f] # NoPage
      /\ handle' = [handle EXCEPT ![t][f] = NoPage]
      /\ UNCHANGED <<disk, table, data>>
  BY DEF DropHandle, fileVars
<1> DEFINE p == handle[t][f]
<1>2. p \in Pages /\ p \in Held(t) /\ page[f] = p
  BY <1>1, OneFrame DEF Held, StoreInv, OwnershipInv, HandlesKeepTheirPage
<1>3. \A u \in Threads, g \in Frames :
        handle'[u][g] = IF u = t /\ g = f THEN NoPage ELSE handle[u][g]
  BY <1>1 DEF StoreInv, OwnershipInv, TypeOK
<1>4. \A g \in Frames : g # f => handle[t][g] # p
  <2> SUFFICES ASSUME NEW g \in Frames, g # f, handle[t][g] = p PROVE FALSE
    OBVIOUS
  <2>1. page[g] = page[f]
    BY <1>1, <1>2 DEF StoreInv, OwnershipInv, HandlesKeepTheirPage
  <2> QED BY <2>1, <1>1, <1>2, OneFrame
<1>5. Held(t)' = Held(t) \ {p}
  <2>1. Held(t)' \subseteq Held(t) \ {p}
    BY <1>3, <1>4 DEF Held
  <2>2. ASSUME NEW g \in Frames, handle[t][g] # NoPage, handle[t][g] # p
        PROVE  handle[t][g] \in Held(t)'
    BY <2>2, <1>3 DEF Held
  <2>3. Held(t) \ {p} \subseteq Held(t)'
    BY <2>2 DEF Held
  <2> QED BY <2>1, <2>3
<1>6. \A u \in Threads : u # t => Held(u)' = Held(u)
  BY <1>3 DEF Held
<1> DEFINE held == [u \in Threads |-> Held(u)]
<1>7. held' = [held EXCEPT ![t] = @ \ {p}]
  BY <1>5, <1>6
<1>8. \A q \in Pages : Content(q)' = Content(q)
  BY <1>1 DEF Content
<1>9. NoThread # t
  BY PoolAssumption
<1> QED BY <1>2, <1>7, <1>8, <1>9 DEF Memory!Release

LEMMA FlushMemory ==
  ASSUME StoreInv, NEW t \in Threads, FlushStep(t)
  PROVE  UNCHANGED Memory!memvars
<1>1. UNCHANGED <<table, data, handle>>
  BY DEF FlushStep, FlushAll, FlushFails
<1>2. ASSUME NEW q \in Pages, table[q] = NoFrame PROVE disk'[q] = disk[q]
  <2>1. \A f \in Frames : page[f] # q
    BY <1>2, ContentType
  <2>2. \A n : Flushed(n)[q] = disk[q]
    BY <2>1, FlushedIs
  <2>3. CASE FlushAll(t)
    BY <2>2, <2>3 DEF FlushAll
  <2>4. ASSUME NEW f \in Frames, FlushFails(t, f) PROVE disk'[q] = disk[q]
    <3>1. page[f] # NoPage /\ \E v : disk' = [Flushed(f) EXCEPT ![page[f]] = v]
      BY <2>4 DEF FlushFails, ToFlush, NeedsWriteBack
    <3>2. DOMAIN Flushed(f) = Pages
      BY DEF Flushed
    <3> QED BY <3>1, <3>2, <2>1, <2>2
  <2> QED BY <2>3, <2>4 DEF FlushStep
<1>3. ASSUME NEW q \in Pages PROVE Content(q)' = Content(q)
  BY <1>1, <1>2 DEF Content
<1> QED BY <1>1, <1>3, Stutters

(* Each step of the pool is a step of the memory or changes nothing of it. *)
LEMMA MemoryStep ==
  ASSUME ReadsSucceed, StoreInv, StoreInv', [Next]_vars
  PROVE  [Memory!Next]_Memory!memvars
<1>1. CASE UNCHANGED vars
  <2>1. \A q \in Pages : Content(q)' = Content(q)
    BY <1>1 DEF Content, vars, fileVars, frameVars
  <2> QED BY <2>1, <1>1, Stutters DEF vars
<1>2. ASSUME NEW t \in Threads,
             AppendPage(t) \/ AppendFails(t) \/ PinStep(t) \/ HandleStep(t) \/ FlushStep(t)
      PROVE  Memory!Next \/ UNCHANGED Memory!memvars
  <2>1. CASE AppendPage(t) \/ AppendFails(t)
    BY <2>1, AppendMemory
  <2>2. CASE PinStep(t)
    <3>1. ASSUME NEW p \in Pages, Hit(t, p) PROVE Memory!Next
      BY <3>1, HitMemory DEF Memory!Next
    <3>2. ASSUME NEW p \in Pages, Exhausted(t, p) PROVE UNCHANGED Memory!memvars
      <4>1. UNCHANGED <<disk, table, data, handle>>
        BY <3>2 DEF Exhausted, fileVars, frameVars
      <4>2. \A q \in Pages : Content(q)' = Content(q)
        BY <4>1 DEF Content
      <4> QED BY <4>1, <4>2, Stutters
    <3>3. ASSUME NEW p \in Pages, NEW f \in Frames, Load(t, p, f) PROVE Memory!Next
      BY <3>3, LoadMemory DEF Memory!Next
    <3> QED BY <2>2, <3>1, <3>2, <3>3, WriteBackFailsMemory, NoReadFails DEF PinStep
  <2>3. CASE HandleStep(t)
    <3>1. ASSUME NEW f \in Frames, NEW v \in Contents, Modify(t, f, v) PROVE Memory!Next
      BY <3>1, ModifyMemory DEF Memory!Next
    <3>2. ASSUME NEW f \in Frames, DropHandle(t, f) PROVE Memory!Next
      BY <3>2, DropMemory DEF Memory!Next
    <3> QED BY <2>3, <3>1, <3>2 DEF HandleStep
  <2>4. CASE FlushStep(t)
    BY <2>4, FlushMemory
  <2> QED BY <1>2, <2>1, <2>2, <2>3, <2>4
<1> QED BY <1>1, <1>2 DEF Next

(* As long as no read fails the pool implements PageMemory: every access sees
   the latest write of its page, whatever is evicted, flushed, allocated, or
   fails to be written. *)
THEOREM LruImplements == ReadsSucceed => (Spec => ImplementsPageMemory)
<1> SUFFICES ASSUME ReadsSucceed PROVE Spec => Memory!Spec
  BY DEF ImplementsPageMemory
<1>1. StoreInv /\ StoreInv' /\ [Next]_vars => [Memory!Next]_Memory!memvars
  BY MemoryStep
<1>2. Spec => []StoreInv
  BY LruStore
<1> QED BY <1>1, <1>2, MemoryInit, PTL DEF Spec, Memory!Spec

-----------------------------------------------------------------------------
(* What a flush leaves in the file *)

(* The content of a page is that of its frame, else that of the file. *)
Current(p) == IF table[p] # NoFrame THEN data[table[p]] ELSE disk[p]

LatestIsCurrent == latest = [p \in Pages |-> Current(p)]

(* A step that moves no page, writes no frame, and of the file writes no more than
   pages of frames. *)
LEMMA CurrentStays ==
  ASSUME UNCHANGED <<table, data>>,
         \A p \in Pages : table[p] = NoFrame => disk'[p] = disk[p]
  PROVE  \A p \in Pages : Current(p)' = Current(p)
  BY DEF Current

(* The page that is appended is in no frame. *)
LEMMA AppendCurrent ==
  ASSUME StoreInv, LatestIsCurrent, NEW t \in Threads, AppendPage(t) \/ AppendFails(t),
         latest' = [latest EXCEPT ![count] = disk'[count]]
  PROVE  LatestIsCurrent'
<1>1. /\ count \in Nat /\ \E v : disk' = [disk EXCEPT ![count] = v]
      /\ UNCHANGED <<table, data>>
  <2>1. count \in 0 .. MaxPages
    BY DEF StoreInv, OwnershipInv, TypeOK
  <2> QED BY <2>1, Values DEF AppendPage, AppendFails, frameVars
<1>2. disk \in [Pages -> Contents \union {Torn, Garbage}]
  BY DEF StoreInv, OwnershipInv, TypeOK
<1>3. ASSUME NEW p \in Pages PROVE latest'[p] = Current(p)'
  <2>1. CASE p # count
    <3>1. disk'[p] = disk[p]
      BY <1>1, <1>2, <2>1
    <3> QED BY <2>1, <3>1, <1>1 DEF LatestIsCurrent, Current
  <2>2. CASE p = count
    <3>1. \A f \in Frames : page[f] # p
      BY <2>2, OneFrame, Values
    <3>2. table[p] = NoFrame
      BY <3>1, ContentType
    <3> QED BY <2>2, <3>2, <1>1 DEF LatestIsCurrent, Current
  <2> QED BY <2>1, <2>2
<1>4. latest' = [p \in Pages |-> latest'[p]]
  BY DEF LatestIsCurrent
<1> QED BY <1>3, <1>4 DEF LatestIsCurrent

(* The page that goes is in the file, the page that comes is read from it. *)
LEMMA LoadCurrent ==
  ASSUME StoreInv, StoreInv', NEW t \in Threads, NEW p \in Pages, NEW f \in Frames,
         Load(t, p, f)
  PROVE  \A q \in Pages : Current(q)' = Current(q)
<1>1. /\ disk' = Evicted(f) /\ table[p] = NoFrame
      /\ table' = [TableWithout(f) EXCEPT ![p] = f]
      /\ data' = [data EXCEPT ![f] = Evicted(f)[p]]
  BY DEF Load, Replaces
<1>2. OwnershipInv
  BY DEF StoreInv
<1>3. \A g \in Frames : data'[g] = IF g = f THEN Evicted(f)[p] ELSE data[g]
  BY <1>1, <1>2 DEF OwnershipInv, TypeOK
<1>4. \A q \in Pages : table'[q] = IF q = p THEN f ELSE IF page[f] = q THEN NoFrame ELSE table[q]
  BY <1>1, <1>2, TableWithoutType
<1> SUFFICES ASSUME NEW q \in Pages PROVE Current(q)' = Current(q)
  OBVIOUS
<1>5. CASE q = p
  <2>1. page[f] # p
    BY <1>1, ContentType
  <2>2. Evicted(f)[p] = disk[p]
    BY <2>1, EvictedIs
  <2> QED BY <1>5, <2>2, <1>1, <1>3, <1>4, Values DEF Current
<1>6. CASE q # p /\ page[f] = q
  <2>1. table[q] = f
    BY <1>6, OneFrame, Values
  <2>2. table'[q] = NoFrame /\ disk'[q] = data[f]
    BY <1>6, <1>1, <1>4, EvictedIs
  <2> QED BY <2>1, <2>2, Values DEF Current
<1>7. CASE q # p /\ page[f] # q
  <2>1. table'[q] = table[q] /\ disk'[q] = disk[q]
    BY <1>7, <1>1, <1>4, EvictedIs
  <2>2. table[q] # f
    BY <1>7, ContentType, Values
  <2>3. table[q] # NoFrame => data'[table[q]] = data[table[q]]
    BY <2>2, <1>3, ContentType
  <2> QED BY <2>1, <2>3 DEF Current
<1> QED BY <1>5, <1>6, <1>7

LEMMA PinCurrent ==
  ASSUME ReadsSucceed, StoreInv, StoreInv', NEW t \in Threads, PinStep(t)
  PROVE  \A q \in Pages : Current(q)' = Current(q)
<1>1. ASSUME NEW p \in Pages, Hit(t, p) \/ Exhausted(t, p)
      PROVE  \A q \in Pages : Current(q)' = Current(q)
  BY <1>1, CurrentStays DEF Hit, Exhausted, fileVars, frameVars
<1>2. ASSUME NEW p \in Pages, NEW f \in Frames, WriteBackFails(t, p, f)
      PROVE  \A q \in Pages : Current(q)' = Current(q)
  <2>1. /\ page[f] # NoPage
        /\ \E v : disk' = [disk EXCEPT ![page[f]] = v]
        /\ UNCHANGED <<table, data>>
    BY <1>2 DEF WriteBackFails, NeedsWriteBack, frameVars
  <2>2. table[page[f]] = f
    BY <2>1, OneFrame
  <2>3. \A q \in Pages : table[q] = NoFrame => disk'[q] = disk[q]
    BY <2>1, <2>2, Values DEF StoreInv, OwnershipInv, TypeOK
  <2> QED BY <2>1, <2>3, CurrentStays
<1> QED BY <1>1, <1>2, LoadCurrent, NoReadFails DEF PinStep

LEMMA ModifyCurrent ==
  ASSUME StoreInv, LatestIsCurrent, NEW t \in Threads, NEW f \in Frames, NEW v \in Contents,
         Modify(t, f, v), latest' = [latest EXCEPT ![handle[t][f]] = v]
  PROVE  LatestIsCurrent'
<1>1. /\ handle[t][f] # NoPage /\ page[f] = handle[t][f]
      /\ data' = [data EXCEPT ![f] = v]
      /\ UNCHANGED <<disk, table>>
  BY DEF Modify, fileVars
<1>2. table[page[f]] = f
  BY <1>1, OneFrame
<1>3. ASSUME NEW q \in Pages PROVE latest'[q] = Current(q)'
  <2>1. CASE q = page[f]
    BY <2>1, <1>1, <1>2, Values DEF LatestIsCurrent, Current, StoreInv, OwnershipInv, TypeOK
  <2>2. CASE q # page[f]
    <3>1. table[q] # NoFrame => data'[table[q]] = data[table[q]]
      BY <2>2, <1>1, ContentType DEF StoreInv, OwnershipInv, TypeOK
    <3> QED BY <3>1, <2>2, <1>1 DEF LatestIsCurrent, Current
  <2> QED BY <2>1, <2>2
<1>4. latest' = [q \in Pages |-> latest'[q]]
  BY DEF LatestIsCurrent
<1> QED BY <1>3, <1>4 DEF LatestIsCurrent

(* A flush writes no page that is in no frame. *)
LEMMA FlushCurrent ==
  ASSUME StoreInv, NEW t \in Threads, FlushStep(t)
  PROVE  \A q \in Pages : Current(q)' = Current(q)
<1>1. UNCHANGED <<table, data>>
  BY DEF FlushStep, FlushAll, FlushFails
<1>2. ASSUME NEW q \in Pages, table[q] = NoFrame PROVE disk'[q] = disk[q]
  <2>1. \A f \in Frames : page[f] # q
    BY <1>2, ContentType
  <2>2. \A n : Flushed(n)[q] = disk[q]
    BY <2>1, FlushedIs
  <2>3. CASE FlushAll(t)
    BY <2>2, <2>3 DEF FlushAll
  <2>4. ASSUME NEW f \in Frames, FlushFails(t, f) PROVE disk'[q] = disk[q]
    <3>1. page[f] # NoPage /\ \E v : disk' = [Flushed(f) EXCEPT ![page[f]] = v]
      BY <2>4 DEF FlushFails, ToFlush, NeedsWriteBack
    <3>2. DOMAIN Flushed(f) = Pages
      BY DEF Flushed
    <3> QED BY <3>1, <3>2, <2>1, <2>2
  <2> QED BY <2>3, <2>4 DEF FlushStep
<1> QED BY <1>1, <1>2, CurrentStays

LEMMA HistoryIsOfThePool == [HistoryNext]_historyVars => [Next]_vars
<1>1. HistoryNext => Next
  BY DEF HistoryNext, Next, HandleStep
<1> QED BY <1>1 DEF historyVars

LEMMA LatestStep ==
  ASSUME ReadsSucceed, StoreInv, StoreInv', LatestIsCurrent, [HistoryNext]_historyVars
  PROVE  LatestIsCurrent'
<1>1. ASSUME UNCHANGED latest, \A q \in Pages : Current(q)' = Current(q)
      PROVE  LatestIsCurrent'
  BY <1>1 DEF LatestIsCurrent
<1>2. CASE UNCHANGED historyVars
  BY <1>1, <1>2, CurrentStays DEF historyVars, vars, fileVars, frameVars
<1>3. ASSUME NEW t \in Threads, NEW f \in Frames, DropHandle(t, f), UNCHANGED latest
      PROVE  LatestIsCurrent'
  BY <1>1, <1>3, CurrentStays DEF DropHandle, fileVars
<1> QED BY <1>1, <1>2, <1>3, AppendCurrent, PinCurrent, FlushCurrent, ModifyCurrent
        DEF HistoryNext

(* The file after a flush that wrote every frame. *)
LEMMA FlushWritesCurrent ==
  ASSUME StoreInv, LatestIsCurrent
  PROVE  Flushed(NumFrames) = latest
<1>1. ASSUME NEW p \in Pages PROVE Flushed(NumFrames)[p] = Current(p)
  <2>1. CASE table[p] = NoFrame
    <3>1. \A f \in Frames : page[f] # p
      BY <2>1, ContentType
    <3> QED BY <2>1, <3>1, FlushedIs DEF Current
  <2>2. CASE table[p] # NoFrame
    <3> DEFINE f == table[p]
    <3>1. f \in Frames /\ page[f] = p /\ p # NoPage /\ f < NumFrames
      BY <2>2, ContentType, Values DEF Frames
    <3>2. Flushed(NumFrames)[p] = IF f \in ToFlush(NumFrames) THEN data[f] ELSE disk[p]
      BY <3>1, FlushedIs
    <3>3. f \notin ToFlush(NumFrames) => data[f] = disk[p]
      BY <3>1 DEF ToFlush, NeedsWriteBack, StoreInv, CleanFramesMatchDisk
    <3> QED BY <2>2, <3>2, <3>3 DEF Current
  <2> QED BY <2>1, <2>2
<1>2. Flushed(NumFrames) = [p \in Pages |-> Flushed(NumFrames)[p]]
  BY DEF Flushed
<1> QED BY <1>1, <1>2 DEF LatestIsCurrent

(* As long as no read fails, flush_all that answers Ok has brought the file up to
   date: it has of every page what modify_page or the allocation last put there,
   whatever evictions and failed writes came before (flush_all). *)
THEOREM FlushesStoreUpdates == ReadsSucceed => (HistorySpec => FlushStoresUpdates)
<1> SUFFICES ASSUME ReadsSucceed PROVE HistorySpec => FlushStoresUpdates
  OBVIOUS
<1> DEFINE Stored == \A t \in Threads : FlushAll(t) => disk' = latest
<1>1. HistoryInit => StoreInv /\ LatestIsCurrent
  <2> SUFFICES ASSUME Init, latest = disk PROVE StoreInv /\ LatestIsCurrent
    BY DEF HistoryInit
  <2>1. disk = [p \in Pages |-> disk[p]]
    BY DEF Init
  <2>2. \A p \in Pages : Current(p) = disk[p]
    BY DEF Init, Current
  <2> QED BY <2>1, <2>2, StoreInit DEF LatestIsCurrent
<1>2. StoreInv /\ LatestIsCurrent /\ [HistoryNext]_historyVars => (StoreInv /\ LatestIsCurrent)'
  BY HistoryIsOfThePool, StoreStep, LatestStep
<1>3. StoreInv /\ LatestIsCurrent => Stored
  BY FlushWritesCurrent DEF FlushAll
<1>4. StoreInv /\ LatestIsCurrent => [Stored]_historyVars
  BY <1>3
<1> QED BY <1>1, <1>2, <1>4, PTL DEF HistorySpec, FlushStoresUpdates
=============================================================================
