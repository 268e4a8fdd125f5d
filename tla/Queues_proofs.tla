---------------------------- MODULE Queues_proofs ----------------------------
(***************************************************************************)
(* Proofs about the two command queues of module 2: the invariant of each, *)
(* of which the part about wakeups is the heart, and that each implements  *)
(* PriorityQueue.                                                          *)
(***************************************************************************)
EXTENDS CommandQueue, UnboundedQueue, FiniteSetTheorems, TLAPS

-----------------------------------------------------------------------------
(* Counting *)

LEMMA HeapCounts ==
  ASSUME heap \subseteq Commands
  PROVE  /\ IsFiniteSet(heap) /\ Cardinality(heap) \in Nat
         /\ \A c \in Commands \ heap : Cardinality(heap \union {c}) = Cardinality(heap) + 1
         /\ \A c \in heap : Cardinality(heap \ {c}) = Cardinality(heap) - 1
<1>1. IsFiniteSet(heap)
  BY CommandsAssumption, QueueAssumption, FS_Subset
<1>2. Cardinality(heap) \in Nat
  BY <1>1, FS_CardinalityType
<1>3. \A c \in Commands \ heap : Cardinality(heap \union {c}) = Cardinality(heap) + 1
  BY <1>1, FS_AddElement
<1>4. \A c \in heap : Cardinality(heap \ {c}) = Cardinality(heap) - 1
  BY <1>1, FS_RemoveElement
<1> QED BY <1>1, <1>2, <1>3, <1>4

LEMMA ThreadsCount ==
  ASSUME NEW S \in SUBSET Threads
  PROVE  /\ Cardinality(S) \in Nat
         /\ \A t \in Threads \ S : Cardinality(S \union {t}) = Cardinality(S) + 1
         /\ \A t \in S : Cardinality(S \ {t}) = Cardinality(S) - 1
<1>1. IsFiniteSet(S)
  BY CommandsAssumption, QueueAssumption, FS_Subset
<1>2. Cardinality(S) \in Nat
  BY <1>1, FS_CardinalityType
<1>3. \A t \in Threads \ S : Cardinality(S \union {t}) = Cardinality(S) + 1
  BY <1>1, FS_AddElement
<1>4. \A t \in S : Cardinality(S \ {t}) = Cardinality(S) - 1
  BY <1>1, FS_RemoveElement
<1> QED BY <1>2, <1>3, <1>4

-----------------------------------------------------------------------------
(* Where the threads are *)

(* A thread ends its call at l, and wakes one of the threads asleep at s, if
   there are any, to go on at a. *)
LEMMA OneIsWoken ==
  ASSUME TypeOK, NEW t \in Threads, NEW l, NEW s, NEW a, pc[t] = l,
         l # s, l # a, s # a, "idle" \notin {l, s, a},
         pc' \in NotifyOne([pc EXCEPT ![t] = "idle"], s, a)
  PROVE  /\ \A k : k \notin {"idle", l, s, a} => At(k)' = At(k)
         /\ Cardinality(At(l)') = Cardinality(At(l)) - 1
         /\ Cardinality(At(l)) \in Nat /\ Cardinality(At(a)) \in Nat
         /\ At(s)' \subseteq At(s)
         /\ At(s) # {} => Cardinality(At(a)') = Cardinality(At(a)) + 1
         /\ \A u \in Threads : pc'[u] = pc[u] \/ (u = t /\ pc'[u] = "idle")
                               \/ (pc[u] = s /\ pc'[u] = a)
         /\ pc'[t] = "idle"
<1> DEFINE p == [pc EXCEPT ![t] = "idle"]
           sleepers == {u \in Threads : p[u] = s}
<1>1. \A u \in Threads : p[u] = IF u = t THEN "idle" ELSE pc[u]
  BY DEF TypeOK
<1>2. sleepers = At(s)
  BY <1>1 DEF At
<1>3. At(l) \in SUBSET Threads /\ At(a) \in SUBSET Threads /\ t \in At(l)
  BY DEF At
<1>4. CASE At(s) = {}
  <2>1. pc' = p
    BY <1>2, <1>4 DEF NotifyOne
  <2>2. At(l)' = At(l) \ {t} /\ At(s)' = At(s)
    BY <2>1, <1>1 DEF At
  <2>3. \A k : k \notin {"idle", l, s, a} => At(k)' = At(k)
    BY <2>1, <1>1 DEF At
  <2>4. \A u \in Threads : pc'[u] = pc[u] \/ (u = t /\ pc'[u] = "idle")
    BY <2>1, <1>1
  <2> QED BY <1>1, <1>3, <1>4, <2>1, <2>2, <2>3, <2>4, ThreadsCount
<1>5. CASE At(s) # {}
  <2>1. PICK u \in At(s) : pc' = [p EXCEPT ![u] = a]
    BY <1>2, <1>5 DEF NotifyOne
  <2>2. u \in Threads /\ u # t /\ pc[u] = s
    BY <2>1 DEF At
  <2>3. \A v \in Threads : pc'[v] = IF v = u THEN a ELSE IF v = t THEN "idle" ELSE pc[v]
    BY <2>1, <2>2, <1>1 DEF TypeOK
  <2>4. At(l)' = At(l) \ {t} /\ At(s)' \subseteq At(s)
    BY <2>3, <2>2 DEF At
  <2>5. At(a)' = At(a) \union {u} /\ u \in Threads \ At(a)
    BY <2>3, <2>2 DEF At
  <2>6. \A k : k \notin {"idle", l, s, a} => At(k)' = At(k)
    BY <2>3, <2>2 DEF At
  <2>7. Cardinality(At(a)') = Cardinality(At(a)) + 1
    BY <2>5, <1>3, ThreadsCount
  <2>8. Cardinality(At(l)') = Cardinality(At(l)) - 1
    BY <2>4, <1>3, ThreadsCount
  <2> QED BY <1>3, <2>2, <2>3, <2>4, <2>6, <2>7, <2>8, ThreadsCount
<1> QED BY <1>4, <1>5

(* The two calls that end with a notification. *)
LEMMA PushWakes ==
  ASSUME TypeOK, NEW t \in Threads, PushAccepted(t)
  PROVE  /\ \A u \in Threads : pc'[u] = pc[u] \/ (u = t /\ pc'[u] = "idle")
                                \/ (pc[u] = "not_empty" /\ pc'[u] = "pop")
         /\ pc'[t] = "idle"
<1>1. pc[t] = "push" /\ pc' \in NotifyOne([pc EXCEPT ![t] = "idle"], "not_empty", "pop")
  BY DEF PushAccepted
<1> QED BY <1>1, OneIsWoken

LEMMA PopWakes ==
  ASSUME TypeOK, NEW t \in Threads, PopCommand(t)
  PROVE  /\ \A u \in Threads : pc'[u] = pc[u] \/ (u = t /\ pc'[u] = "idle")
                                \/ (pc[u] = "not_full" /\ pc'[u] = "push")
         /\ pc'[t] = "idle"
<1>1. pc[t] = "pop" /\ pc' \in NotifyOne([pc EXCEPT ![t] = "idle"], "not_full", "push")
  BY DEF PopCommand
<1> QED BY <1>1, OneIsWoken

-----------------------------------------------------------------------------
(* The invariant *)

LEMMA InvInit == Init => QueueInv
<1> SUFFICES ASSUME Init PROVE QueueInv
  OBVIOUS
<1>1. TypeOK /\ CommandsOnce /\ ShutdownReachesAll
  BY CommandsAssumption, QueueAssumption DEF Init, TypeOK, Labels, CommandsOnce, ShutdownReachesAll
<1>2. Cardinality(heap) = 0
  BY FS_EmptySet DEF Init
<1>3. WithinCapacity /\ MetricsAgree
  BY <1>2, CommandsAssumption, QueueAssumption DEF Init, WithinCapacity, MetricsAgree
<1>4. At("not_empty") = {} /\ At("not_full") = {}
  BY DEF Init, At
<1> QED BY <1>1, <1>3, <1>4 DEF QueueInv, WakeupsSuffice

(* A command that is being pushed is new to the heap. *)
LEMMA PushedIsNew ==
  ASSUME QueueInv, NEW t \in Threads, pc[t] = "push"
  PROVE  cmd[t] \in Commands \ heap
  BY DEF QueueInv, TypeOK, CommandsOnce

LEMMA TypeStep ==
  ASSUME QueueInv, [Next]_vars
  PROVE  TypeOK' /\ CommandsOnce'
<1> USE DEF QueueInv, TypeOK, CommandsOnce, Labels
<1>1. CASE UNCHANGED vars
  BY <1>1 DEF vars, callVars, metrics
<1>2. ASSUME NEW t \in Threads, NEW c \in Commands, CallPush(t, c)
      PROVE  TypeOK' /\ CommandsOnce'
  BY <1>2, CommandsAssumption, QueueAssumption DEF CallPush, metrics
<1>3. ASSUME NEW t \in Threads, PushRejected(t) PROVE TypeOK' /\ CommandsOnce'
  BY <1>3, CommandsAssumption, QueueAssumption DEF PushRejected, metrics
<1>4. ASSUME NEW t \in Threads, PushAccepted(t) PROVE TypeOK' /\ CommandsOnce'
  <2>1. \A u \in Threads : pc'[u] = pc[u] \/ (u = t /\ pc'[u] = "idle")
                           \/ (pc[u] = "not_empty" /\ pc'[u] = "pop")
    BY <1>4, PushWakes
  <2>2. pc' \in [Threads -> Labels] /\ pc'[t] = "idle"
    BY <1>4, PushWakes DEF PushAccepted, NotifyOne
  <2>3. cmd[t] \in Commands \ heap
    BY <1>4, PushedIsNew DEF PushAccepted
  <2>4. cmd' = [cmd EXCEPT ![t] = NoCommand] /\ heap' = heap \union {cmd[t]}
        /\ UNCHANGED <<shutdown, unsent, dispatched>> /\ pushed' \in Nat /\ safeModes' \in Nat
    BY <1>4 DEF PushAccepted
  <2>5. TypeOK'
    BY <2>2, <2>3, <2>4
  <2>6. CommandsOnce'
    BY <2>1, <2>2, <2>3, <2>4, <1>4, CommandsAssumption, QueueAssumption DEF PushAccepted
  <2> QED BY <2>5, <2>6
<1>5. ASSUME NEW t \in Threads, PushWaits(t) PROVE TypeOK' /\ CommandsOnce'
  BY <1>5 DEF PushWaits, metrics
<1>6. ASSUME NEW t \in Threads, CallPop(t) PROVE TypeOK' /\ CommandsOnce'
  BY <1>6 DEF CallPop, metrics
<1>7. ASSUME NEW t \in Threads, PopCommand(t) PROVE TypeOK' /\ CommandsOnce'
  <2>1. \A u \in Threads : pc'[u] = pc[u] \/ (u = t /\ pc'[u] = "idle")
                           \/ (pc[u] = "not_full" /\ pc'[u] = "push")
    BY <1>7, PopWakes
  <2>2. pc' \in [Threads -> Labels] /\ pc'[t] = "idle"
    BY <1>7, PopWakes DEF PopCommand, NotifyOne
  <2>3. heap' \subseteq heap /\ UNCHANGED <<shutdown, cmd, unsent, pushed, safeModes>>
        /\ dispatched' \in Nat /\ pc[t] = "pop"
    BY <1>7 DEF PopCommand
  <2> QED BY <2>1, <2>2, <2>3
<1>8. ASSUME NEW t \in Threads, PopDrained(t) PROVE TypeOK' /\ CommandsOnce'
  BY <1>8 DEF PopDrained, metrics
<1>9. ASSUME NEW t \in Threads, PopWaits(t) PROVE TypeOK' /\ CommandsOnce'
  BY <1>9 DEF PopWaits, metrics
<1>10. ASSUME NEW t \in Threads, Shutdown(t) PROVE TypeOK' /\ CommandsOnce'
  <2>1. \A u \in Threads : pc'[u] = CASE pc[u] = "not_full" -> "push"
                                      [] pc[u] = "not_empty" -> "pop"
                                      [] OTHER -> pc[u]
    BY <1>10 DEF Shutdown, NotifyAll
  <2>2. pc' \in [Threads -> Labels]
    BY <2>1, <1>10 DEF Shutdown, NotifyAll
  <2> QED BY <2>1, <2>2, <1>10 DEF Shutdown, metrics
<1>11. ASSUME NEW t \in Threads, SpuriousWakeup(t) PROVE TypeOK' /\ CommandsOnce'
  BY <1>11 DEF SpuriousWakeup, metrics
<1> QED BY <1>1, <1>2, <1>3, <1>4, <1>5, <1>6, <1>7, <1>8, <1>9, <1>10, <1>11
        DEF Next, LockStep, PushStep, PopStep

(* What the heap holds, in numbers. *)
LEMMA CountsStep ==
  ASSUME QueueInv, [Next]_vars
  PROVE  WithinCapacity' /\ MetricsAgree'
<1>1. /\ heap \subseteq Commands /\ Cardinality(heap) \in Nat /\ Cardinality(heap) <= Capacity
      /\ Capacity \in Nat /\ pushed \in Nat /\ dispatched \in Nat
      /\ pushed = dispatched + Cardinality(heap)
  BY HeapCounts, CommandsAssumption, QueueAssumption DEF QueueInv, TypeOK, WithinCapacity, MetricsAgree
<1>2. ASSUME UNCHANGED <<heap, pushed, dispatched>> PROVE WithinCapacity' /\ MetricsAgree'
  BY <1>2, <1>1 DEF WithinCapacity, MetricsAgree
<1>3. ASSUME NEW t \in Threads, PushAccepted(t) PROVE WithinCapacity' /\ MetricsAgree'
  <2>1. Cardinality(heap') = Cardinality(heap) + 1
    BY <1>3, <1>1, PushedIsNew, HeapCounts DEF PushAccepted
  <2> QED BY <2>1, <1>1, <1>3 DEF PushAccepted, NotFull, WithinCapacity, MetricsAgree
<1>4. ASSUME NEW t \in Threads, PopCommand(t) PROVE WithinCapacity' /\ MetricsAgree'
  <2>1. Cardinality(heap') = Cardinality(heap) - 1
    BY <1>4, <1>1, HeapCounts DEF PopCommand
  <2> QED BY <2>1, <1>1, <1>4 DEF PopCommand, WithinCapacity, MetricsAgree
<1>5. ASSUME ~(\E t \in Threads : PushAccepted(t) \/ PopCommand(t))
      PROVE  UNCHANGED <<heap, pushed, dispatched>>
  BY <1>5 DEF Next, LockStep, PushStep, PopStep, CallPush, PushRejected, PushWaits, CallPop,
              PopDrained, PopWaits, Shutdown, SpuriousWakeup, vars, metrics
<1> QED BY <1>2, <1>3, <1>4, <1>5

LEMMA WakeupsStep ==
  ASSUME QueueInv, [Next]_vars
  PROVE  WakeupsSuffice' /\ ShutdownReachesAll'
<1>1. /\ TypeOK /\ Cardinality(heap) \in Nat /\ Capacity \in Nat
      /\ \A l : Cardinality(At(l)) \in Nat
  <2>1. \A l : At(l) \in SUBSET Threads
    BY DEF At
  <2> QED BY <2>1, HeapCounts, ThreadsCount, CommandsAssumption, QueueAssumption DEF QueueInv, TypeOK
<1>2. WakeupsSuffice /\ ShutdownReachesAll
  BY DEF QueueInv
<1>3. CASE UNCHANGED vars
  <2>1. \A l : At(l)' = At(l)
    BY <1>3 DEF vars, callVars, At
  <2> QED BY <2>1, <1>2, <1>3 DEF vars, WakeupsSuffice, ShutdownReachesAll
<1>4. ASSUME NEW t \in Threads, NEW l, l \notin {"not_full", "not_empty"}, pc[t] # l,
             pc[t] # "push" \/ shutdown, pc[t] # "pop" \/ shutdown,
             pc' = [pc EXCEPT ![t] = l], UNCHANGED <<heap, shutdown>>
      PROVE  WakeupsSuffice' /\ ShutdownReachesAll'
  <2>1. At("not_empty")' \subseteq At("not_empty") /\ At("not_full")' \subseteq At("not_full")
    BY <1>1, <1>4 DEF At, TypeOK
  <2>2. CASE shutdown
    BY <2>1, <2>2, <1>2, <1>4 DEF WakeupsSuffice, ShutdownReachesAll
  <2>3. CASE ~shutdown
    <3>1. ASSUME NEW k \in {"pop", "push"}
          PROVE  Cardinality(At(k)') \in Nat /\ Cardinality(At(k)') >= Cardinality(At(k))
      <4>1. At(k) \in SUBSET Threads /\ Cardinality(At(k)) \in Nat
        BY <1>1 DEF At
      <4>2. CASE l = k
        <5>1. At(k)' = At(k) \union {t} /\ t \in Threads \ At(k)
          BY <4>2, <1>1, <1>4 DEF At, TypeOK
        <5> QED BY <5>1, <4>1, ThreadsCount
      <4>3. CASE l # k
        <5>1. At(k)' = At(k)
          BY <4>3, <1>1, <1>4, <2>3 DEF At, TypeOK
        <5> QED BY <5>1, <4>1
      <4> QED BY <4>2, <4>3
    <3>2. Cardinality(At("pop")') \in Nat /\ Cardinality(At("pop")') >= Cardinality(At("pop"))
      BY <3>1
    <3>3. Cardinality(At("push")') \in Nat /\ Cardinality(At("push")') >= Cardinality(At("push"))
      BY <3>1
    <3> QED BY <2>1, <2>3, <3>2, <3>3, <1>1, <1>2, <1>4 DEF WakeupsSuffice, ShutdownReachesAll
  <2> QED BY <2>2, <2>3
<1>5. ASSUME NEW t \in Threads, (\E c \in Commands : CallPush(t, c)) \/ CallPop(t)
      PROVE  WakeupsSuffice' /\ ShutdownReachesAll'
  BY <1>4, <1>5 DEF CallPush, CallPop
<1>6. ASSUME NEW t \in Threads, PushRejected(t) \/ PopDrained(t)
      PROVE  WakeupsSuffice' /\ ShutdownReachesAll'
  BY <1>4, <1>6 DEF PushRejected, PopDrained
<1>7. ASSUME NEW t \in Threads, SpuriousWakeup(t)
      PROVE  WakeupsSuffice' /\ ShutdownReachesAll'
  <2>1. PICK l \in {"push", "pop"} : pc' = [pc EXCEPT ![t] = l]
    BY <1>7 DEF SpuriousWakeup
  <2>2. pc[t] \in {"not_full", "not_empty"} /\ UNCHANGED <<heap, shutdown>>
    BY <1>7 DEF SpuriousWakeup
  <2> QED BY <2>1, <2>2, <1>4
<1>8. ASSUME NEW t \in Threads, PushAccepted(t)
      PROVE  WakeupsSuffice' /\ ShutdownReachesAll'
  <2>1. /\ At("not_full")' = At("not_full")
        /\ Cardinality(At("push")') = Cardinality(At("push")) - 1
        /\ At("not_empty")' \subseteq At("not_empty")
        /\ At("not_empty") # {} => Cardinality(At("pop")') = Cardinality(At("pop")) + 1
    BY <1>1, <1>8, OneIsWoken DEF PushAccepted
  <2>2. Cardinality(heap') = Cardinality(heap) + 1 /\ shutdown' = shutdown /\ ~shutdown
    BY <1>1, <1>8, PushedIsNew, HeapCounts DEF PushAccepted, TypeOK
  <2>3. At("not_empty")' # {} => Cardinality(At("pop")') >= Cardinality(heap')
    BY <2>1, <2>2, <1>1, <1>2 DEF WakeupsSuffice
  <2>4. At("not_full")' # {} => Cardinality(At("push")') + Cardinality(heap') >= Capacity
    BY <2>1, <2>2, <1>1, <1>2 DEF WakeupsSuffice
  <2> QED BY <2>2, <2>3, <2>4 DEF WakeupsSuffice, ShutdownReachesAll
<1>9. ASSUME NEW t \in Threads, PopCommand(t)
      PROVE  WakeupsSuffice' /\ ShutdownReachesAll'
  <2>1. /\ At("not_empty")' = At("not_empty")
        /\ Cardinality(At("pop")') = Cardinality(At("pop")) - 1
        /\ At("not_full")' \subseteq At("not_full")
        /\ At("not_full") # {} => Cardinality(At("push")') = Cardinality(At("push")) + 1
    BY <1>1, <1>9, OneIsWoken DEF PopCommand
  <2>2. Cardinality(heap') = Cardinality(heap) - 1 /\ shutdown' = shutdown
    BY <1>1, <1>9, HeapCounts DEF PopCommand, TypeOK
  <2>3. At("not_empty")' # {} => Cardinality(At("pop")') >= Cardinality(heap')
    BY <2>1, <2>2, <1>1, <1>2 DEF WakeupsSuffice
  <2>4. At("not_full")' # {} => Cardinality(At("push")') + Cardinality(heap') >= Capacity
    BY <2>1, <2>2, <1>1, <1>2 DEF WakeupsSuffice
  <2>5. ShutdownReachesAll'
    BY <2>1, <2>2, <1>2 DEF ShutdownReachesAll
  <2> QED BY <2>3, <2>4, <2>5 DEF WakeupsSuffice
<1>10. ASSUME NEW t \in Threads, PushWaits(t)
       PROVE  WakeupsSuffice' /\ ShutdownReachesAll'
  <2>1. At("not_empty")' = At("not_empty") /\ At("pop")' = At("pop") /\ heap' = heap /\ ~shutdown'
    <3>1. pc[t] = "push" /\ pc' = [pc EXCEPT ![t] = "not_full"] /\ heap' = heap /\ ~shutdown'
      BY <1>10 DEF PushWaits
    <3>2. At("not_empty")' = At("not_empty") /\ At("pop")' = At("pop")
      BY <3>1, <1>1 DEF At, TypeOK
    <3> QED BY <3>1, <3>2
  <2>2. Cardinality(heap) >= Capacity
    BY <1>1, <1>10 DEF PushWaits, NotFull
  <2>3. Cardinality(At("push")') \in Nat
    <3>1. At("push")' \in SUBSET Threads
      BY DEF At
    <3> QED BY <3>1, ThreadsCount
  <2>4. Cardinality(At("push")') + Cardinality(heap) >= Capacity
    BY <2>2, <2>3, <1>1
  <2> QED BY <2>1, <2>4, <1>2 DEF WakeupsSuffice, ShutdownReachesAll
<1>11. ASSUME NEW t \in Threads, PopWaits(t)
       PROVE  WakeupsSuffice' /\ ShutdownReachesAll'
  <2>1. At("not_full")' = At("not_full") /\ At("push")' = At("push") /\ heap' = heap /\ ~shutdown'
    <3>1. pc[t] = "pop" /\ pc' = [pc EXCEPT ![t] = "not_empty"] /\ heap' = heap /\ ~shutdown'
      BY <1>11 DEF PopWaits
    <3>2. At("not_full")' = At("not_full") /\ At("push")' = At("push")
      BY <3>1, <1>1 DEF At, TypeOK
    <3> QED BY <3>1, <3>2
  <2>2. Cardinality(heap) = 0
    BY <1>11, FS_EmptySet DEF PopWaits
  <2>3. Cardinality(At("pop")') \in Nat
    <3>1. At("pop")' \in SUBSET Threads
      BY DEF At
    <3> QED BY <3>1, ThreadsCount
  <2>4. Cardinality(At("pop")') >= Cardinality(heap)
    BY <2>2, <2>3
  <2> QED BY <2>1, <2>4, <1>2 DEF WakeupsSuffice, ShutdownReachesAll
<1>12. ASSUME NEW t \in Threads, Shutdown(t)
       PROVE  WakeupsSuffice' /\ ShutdownReachesAll'
  <2>1. \A u \in Threads : pc'[u] \notin {"not_empty", "not_full"}
    BY <1>12 DEF Shutdown, NotifyAll
  <2>2. At("not_empty")' = {} /\ At("not_full")' = {}
    BY <2>1 DEF At
  <2> QED BY <2>2 DEF WakeupsSuffice, ShutdownReachesAll
<1> QED BY <1>3, <1>5, <1>6, <1>7, <1>8, <1>9, <1>10, <1>11, <1>12
        DEF Next, LockStep, PushStep, PopStep

(* No wakeup is lost, and the books of the queue agree, for any number of
   threads and commands and any capacity. *)
THEOREM QueueCorrect == Spec => []QueueInv
<1>1. QueueInv /\ [Next]_vars => QueueInv'
  BY TypeStep, CountsStep, WakeupsStep DEF QueueInv
<1> QED BY <1>1, InvInit, PTL DEF Spec

(* A sleeping consumer has, for each command, another consumer on its way to
   it; a sleeping producer, for each free place, another producer. *)
THEOREM NoLostWakeup == Spec => []WakeupsSuffice
<1>1. QueueInv => WakeupsSuffice
  BY DEF QueueInv
<1> QED BY <1>1, QueueCorrect, PTL

(* Nobody sleeps once shutdown was called. *)
THEOREM ShutdownWakes == Spec => []ShutdownReachesAll
<1>1. QueueInv => ShutdownReachesAll
  BY DEF QueueInv
<1> QED BY <1>1, QueueCorrect, PTL

-----------------------------------------------------------------------------
(* Refinement of PriorityQueue *)

Popping == At("pop") \union At("not_empty")

LEMMA QueueInit == Init => Queue!Init
  BY DEF Init, Queue!Init, At

(* A step that moves nobody into a pop or out of one. *)
LEMMA PoppingKept ==
  ASSUME \A u \in Threads : pc'[u] \in {"pop", "not_empty"} <=> pc[u] \in {"pop", "not_empty"}
  PROVE  Popping' = Popping
  BY DEF Popping, At

LEMMA PushRefines ==
  ASSUME QueueInv, NEW t \in Threads, NEW c \in Commands, CallPush(t, c)
  PROVE  Queue!BeginPush(t, c)
<1>1. /\ pc[t] = "idle" /\ c \in unsent /\ pc' = [pc EXCEPT ![t] = "push"]
      /\ cmd' = [cmd EXCEPT ![t] = c] /\ UNCHANGED <<heap, shutdown>>
  BY DEF CallPush
<1>2. \A u \in Threads : pc'[u] = IF u = t THEN "push" ELSE pc[u]
  BY <1>1 DEF QueueInv, TypeOK
<1>3. Popping' = Popping /\ t \notin Popping
  BY <1>1, <1>2, PoppingKept DEF Popping, At
<1>4. cmd[t] = NoCommand /\ c \notin heap /\ \A u \in Threads : cmd[u] # c
  BY <1>1 DEF QueueInv, CommandsOnce
<1> QED BY <1>1, <1>3, <1>4 DEF Queue!BeginPush, Queue!Idle, Popping

LEMMA InsertRefines ==
  ASSUME QueueInv, NEW t \in Threads, PushAccepted(t)
  PROVE  Queue!Insert(t)
<1>1. /\ pc[t] = "push" /\ ~shutdown /\ Cardinality(heap) < Capacity
      /\ heap' = heap \union {cmd[t]} /\ cmd' = [cmd EXCEPT ![t] = NoCommand]
      /\ shutdown' = shutdown
  BY DEF PushAccepted, NotFull
<1>2. \A u \in Threads : pc'[u] \in {"pop", "not_empty"} <=> pc[u] \in {"pop", "not_empty"}
  BY <1>1, PushWakes DEF QueueInv
<1>3. Popping' = Popping
  BY <1>2, PoppingKept
<1>4. cmd[t] # NoCommand
  BY <1>1 DEF QueueInv, CommandsOnce
<1>5. Queue!Cardinality(heap) < Capacity
  BY <1>1 DEF Queue!Cardinality, Cardinality
<1> QED BY <1>1, <1>3, <1>4, <1>5 DEF Queue!Insert, Popping

LEMMA RejectRefines ==
  ASSUME QueueInv, NEW t \in Threads, PushRejected(t)
  PROVE  Queue!Reject(t)
<1>1. /\ pc[t] = "push" /\ shutdown /\ pc' = [pc EXCEPT ![t] = "idle"]
      /\ cmd' = [cmd EXCEPT ![t] = NoCommand] /\ UNCHANGED <<heap, shutdown>>
  BY DEF PushRejected
<1>2. \A u \in Threads : pc'[u] = IF u = t THEN "idle" ELSE pc[u]
  BY <1>1 DEF QueueInv, TypeOK
<1>3. Popping' = Popping
  BY <1>1, <1>2, PoppingKept
<1>4. cmd[t] # NoCommand
  BY <1>1 DEF QueueInv, CommandsOnce
<1> QED BY <1>1, <1>3, <1>4 DEF Queue!Reject, Popping

LEMMA PopRefines ==
  ASSUME QueueInv, NEW t \in Threads, CallPop(t)
  PROVE  Queue!BeginPop(t)
<1>1. /\ pc[t] = "idle" /\ pc' = [pc EXCEPT ![t] = "pop"] /\ UNCHANGED <<heap, shutdown, cmd>>
  BY DEF CallPop
<1>2. \A u \in Threads : pc'[u] = IF u = t THEN "pop" ELSE pc[u]
  BY <1>1 DEF QueueInv, TypeOK
<1>3. Popping' = Popping \union {t} /\ t \notin Popping
  BY <1>1, <1>2 DEF Popping, At
<1>4. cmd[t] = NoCommand
  BY <1>1 DEF QueueInv, CommandsOnce
<1> QED BY <1>1, <1>3, <1>4 DEF Queue!BeginPop, Queue!Idle, Popping

LEMMA RemoveRefines ==
  ASSUME QueueInv, NEW t \in Threads, PopCommand(t)
  PROVE  Queue!Remove(t)
<1>1. /\ pc[t] = "pop" /\ UNCHANGED <<shutdown, cmd>>
      /\ \E c \in heap : Top(c) /\ heap' = heap \ {c}
  BY DEF PopCommand
<1>2. \E c \in heap : (\A d \in heap : ~Queue!Before(d, c)) /\ heap' = heap \ {c}
  BY <1>1 DEF Top, Before, Queue!Before
<1>3. Popping' = Popping \ {t} /\ t \in Popping
  BY <1>1, PopWakes DEF QueueInv, Popping, At
<1> QED BY <1>1, <1>2, <1>3 DEF Queue!Remove, Popping

LEMMA DrainedRefines ==
  ASSUME QueueInv, NEW t \in Threads, PopDrained(t)
  PROVE  Queue!Drained(t)
<1>1. /\ pc[t] = "pop" /\ heap = {} /\ shutdown /\ pc' = [pc EXCEPT ![t] = "idle"]
      /\ UNCHANGED <<heap, shutdown, cmd>>
  BY DEF PopDrained
<1>2. \A u \in Threads : pc'[u] = IF u = t THEN "idle" ELSE pc[u]
  BY <1>1 DEF QueueInv, TypeOK
<1>3. Popping' = Popping \ {t} /\ t \in Popping
  BY <1>1, <1>2 DEF Popping, At
<1> QED BY <1>1, <1>3 DEF Queue!Drained, Popping

LEMMA ShutdownRefines ==
  ASSUME QueueInv, NEW t \in Threads, Shutdown(t)
  PROVE  Queue!Close
<1>1. shutdown' = TRUE /\ pc' = NotifyAll(pc) /\ UNCHANGED <<heap, cmd>>
  BY DEF Shutdown
<1>2. \A u \in Threads : pc'[u] \in {"pop", "not_empty"} <=> pc[u] \in {"pop", "not_empty"}
  BY <1>1 DEF NotifyAll
<1>3. Popping' = Popping
  BY <1>2, PoppingKept
<1> QED BY <1>1, <1>3 DEF Queue!Close, Popping

(* Going to sleep and waking up. *)
LEMMA WaitRefines ==
  ASSUME QueueInv, NEW t \in Threads, PushWaits(t) \/ PopWaits(t) \/ SpuriousWakeup(t)
  PROVE  UNCHANGED Queue!queuevars
<1>1. UNCHANGED <<heap, shutdown, cmd>>
  BY DEF PushWaits, PopWaits, SpuriousWakeup
<1>2. \A u \in Threads : pc'[u] \in {"pop", "not_empty"} <=> pc[u] \in {"pop", "not_empty"}
  BY DEF PushWaits, PopWaits, SpuriousWakeup, QueueInv, TypeOK
<1>3. Popping' = Popping
  BY <1>2, PoppingKept
<1> QED BY <1>1, <1>3 DEF Queue!queuevars, Popping

LEMMA QueueStep ==
  ASSUME QueueInv, [Next]_vars
  PROVE  [Queue!Next]_Queue!queuevars
<1>1. CASE UNCHANGED vars
  BY <1>1 DEF vars, callVars, Queue!queuevars, At
<1>2. ASSUME NEW t \in Threads, NEW c \in Commands, CallPush(t, c) PROVE Queue!Next
  BY <1>2, PushRefines DEF Queue!Next
<1>3. ASSUME NEW t \in Threads, PushAccepted(t) \/ PushRejected(t) PROVE Queue!Next
  BY <1>3, InsertRefines, RejectRefines DEF Queue!Next
<1>4. ASSUME NEW t \in Threads, CallPop(t) \/ PopCommand(t) \/ PopDrained(t) PROVE Queue!Next
  BY <1>4, PopRefines, RemoveRefines, DrainedRefines DEF Queue!Next
<1>5. ASSUME NEW t \in Threads, Shutdown(t) PROVE Queue!Next
  BY <1>5, ShutdownRefines DEF Queue!Next
<1>6. ASSUME NEW t \in Threads, PushWaits(t) \/ PopWaits(t) \/ SpuriousWakeup(t)
      PROVE  UNCHANGED Queue!queuevars
  BY <1>6, WaitRefines
<1> QED BY <1>1, <1>2, <1>3, <1>4, <1>5, <1>6 DEF Next, LockStep, PushStep, PopStep

(* Each critical section is a call of the abstract queue taking effect, or is
   not seen by the callers. *)
THEOREM QueueImplements == Spec => ImplementsPriorityQueue
<1>1. QueueInv /\ [Next]_vars => [Queue!Next]_Queue!queuevars
  BY QueueStep
<1> QED BY <1>1, QueueInit, QueueCorrect, PTL DEF Spec, ImplementsPriorityQueue, Queue!Spec

-----------------------------------------------------------------------------
(* Counting what the unbounded queue holds *)

LEMMA InnerCounts ==
  ASSUME inner \subseteq Commands
  PROVE  /\ IsFiniteSet(inner) /\ Cardinality(inner) \in Nat
         /\ \A c \in Commands \ inner : Cardinality(inner \union {c}) = Cardinality(inner) + 1
         /\ \A c \in inner : Cardinality(inner \ {c}) = Cardinality(inner) - 1
<1>1. IsFiniteSet(inner)
  BY CommandsAssumption, FS_Subset
<1>2. Cardinality(inner) \in Nat
  BY <1>1, FS_CardinalityType
<1>3. \A c \in Commands \ inner : Cardinality(inner \union {c}) = Cardinality(inner) + 1
  BY <1>1, FS_AddElement
<1>4. \A c \in inner : Cardinality(inner \ {c}) = Cardinality(inner) - 1
  BY <1>1, FS_RemoveElement
<1> QED BY <1>1, <1>2, <1>3, <1>4

-----------------------------------------------------------------------------
(* The invariant of the unbounded queue *)

LEMMA UnboundedInvInit == UnboundedInit => UnboundedInv
<1> SUFFICES ASSUME UnboundedInit PROVE UnboundedInv
  OBVIOUS
<1>1. UnboundedTypeOK /\ GivenOnce
  BY CommandsAssumption DEF UnboundedInit, UnboundedTypeOK, Places, GivenOnce
<1>2. Being("available") = {}
  BY DEF UnboundedInit, Being
<1> QED BY <1>1, <1>2 DEF UnboundedInv, AwakeSuffice

LEMMA GivenIsNew ==
  ASSUME UnboundedInv, NEW t \in Threads, at[t] = "push"
  PROVE  giving[t] \in Commands \ inner
  BY DEF UnboundedInv, UnboundedTypeOK, GivenOnce

(* Who is woken by a notification. *)
LEMMA NotifyMoves ==
  ASSUME UnboundedTypeOK, NEW t \in Threads, Notify(t)
  PROVE  /\ at'[t] = "idle"
         /\ \A u \in Threads : at'[u] = at[u] \/ (u = t /\ at'[u] = "idle")
                               \/ (at[u] = "available" /\ at'[u] = "pop")
         /\ at' \in [Threads -> Places]
  BY DEF Notify, UnboundedTypeOK, Places, Being

LEMMA UnboundedTypeStep ==
  ASSUME UnboundedInv, [UnboundedNext]_unboundedVars
  PROVE  UnboundedTypeOK' /\ GivenOnce'
<1>1. ASSUME NEW t \in Threads, Notify(t) PROVE UnboundedTypeOK' /\ GivenOnce'
  <2>1. at[t] = "notify" /\ UNCHANGED <<inner, giving, ungiven>>
    BY <1>1 DEF Notify
  <2> QED BY <1>1, <2>1, NotifyMoves DEF UnboundedInv, UnboundedTypeOK, GivenOnce
<1> USE DEF UnboundedInv, UnboundedTypeOK, GivenOnce, Places
<1>2. CASE UNCHANGED unboundedVars
  BY <1>2 DEF unboundedVars
<1>3. ASSUME NEW t \in Threads, NEW c \in Commands, GiveToPush(t, c)
      PROVE  UnboundedTypeOK' /\ GivenOnce'
  BY <1>3, CommandsAssumption DEF GiveToPush
<1>4. ASSUME NEW t \in Threads, Push(t) PROVE UnboundedTypeOK' /\ GivenOnce'
  BY <1>4, CommandsAssumption DEF Push
<1>5. ASSUME NEW t \in Threads, CallPopBlocking(t) \/ PopBlockingWaits(t) \/ WakesUnasked(t)
      PROVE  UnboundedTypeOK' /\ GivenOnce'
  BY <1>5 DEF CallPopBlocking, PopBlockingWaits, WakesUnasked
<1>6. ASSUME NEW t \in Threads, PopBlocking(t) PROVE UnboundedTypeOK' /\ GivenOnce'
  BY <1>6 DEF PopBlocking
<1> QED BY <1>1, <1>2, <1>3, <1>4, <1>5, <1>6 DEF UnboundedNext, UnboundedStep

LEMMA AwakeStep ==
  ASSUME UnboundedInv, [UnboundedNext]_unboundedVars
  PROVE  AwakeSuffice'
<1>1. /\ UnboundedTypeOK /\ Cardinality(inner) \in Nat
      /\ Being("pop") \in SUBSET Threads /\ Being("notify") \in SUBSET Threads
      /\ Cardinality(Being("pop")) \in Nat /\ Cardinality(Being("notify")) \in Nat
  <2>1. Being("pop") \in SUBSET Threads /\ Being("notify") \in SUBSET Threads
    BY DEF Being
  <2> QED BY <2>1, InnerCounts, ThreadsCount DEF UnboundedInv, UnboundedTypeOK
<1>2. Being("available") # {} =>
        Cardinality(Being("pop")) + Cardinality(Being("notify")) >= Cardinality(inner)
  BY DEF UnboundedInv, AwakeSuffice
<1>3. CASE UNCHANGED unboundedVars
  BY <1>2, <1>3 DEF unboundedVars, Being, AwakeSuffice
<1>4. ASSUME NEW t \in Threads, NEW c \in Commands, GiveToPush(t, c) PROVE AwakeSuffice'
  <2>1. /\ Being("available")' = Being("available") /\ Being("pop")' = Being("pop")
        /\ Being("notify")' = Being("notify") /\ inner' = inner
    BY <1>1, <1>4 DEF GiveToPush, Being, UnboundedTypeOK
  <2> QED BY <2>1, <1>2 DEF AwakeSuffice
<1>5. ASSUME NEW t \in Threads, Push(t) PROVE AwakeSuffice'
  <2>1. /\ Being("available")' = Being("available") /\ Being("pop")' = Being("pop")
        /\ Being("notify")' = Being("notify") \union {t} /\ t \in Threads \ Being("notify")
    BY <1>1, <1>5 DEF Push, Being, UnboundedTypeOK
  <2>2. Cardinality(inner') = Cardinality(inner) + 1
    BY <1>1, <1>5, GivenIsNew, InnerCounts DEF Push, UnboundedTypeOK
  <2>3. Cardinality(Being("notify")') = Cardinality(Being("notify")) + 1
    BY <2>1, <1>1, ThreadsCount
  <2> QED BY <2>1, <2>2, <2>3, <1>1, <1>2 DEF AwakeSuffice
<1>6. ASSUME NEW t \in Threads, Notify(t) PROVE AwakeSuffice'
  <2>1. CASE Being("available") = {}
    <3>1. Being("available")' = {}
      BY <1>1, <1>6, <2>1, NotifyMoves DEF Being
    <3> QED BY <3>1 DEF AwakeSuffice
  <2>2. CASE Being("available") # {}
    <3>1. PICK u \in Being("available") : at' = [[at EXCEPT ![t] = "idle"] EXCEPT ![u] = "pop"]
      BY <1>6, <2>2 DEF Notify
    <3>2. at[t] = "notify" /\ u \in Threads /\ at[u] = "available" /\ u # t
      BY <1>6, <3>1 DEF Notify, Being
    <3>3. \A v \in Threads : at'[v] = IF v = u THEN "pop" ELSE IF v = t THEN "idle" ELSE at[v]
      BY <3>1, <3>2, <1>1 DEF UnboundedTypeOK
    <3>4. /\ Being("notify")' = Being("notify") \ {t} /\ t \in Being("notify")
          /\ Being("pop")' = Being("pop") \union {u} /\ u \in Threads \ Being("pop")
      BY <3>2, <3>3 DEF Being
    <3>5. /\ Cardinality(Being("notify")') = Cardinality(Being("notify")) - 1
          /\ Cardinality(Being("pop")') = Cardinality(Being("pop")) + 1
      BY <3>4, <1>1, ThreadsCount
    <3>6. inner' = inner
      BY <1>6 DEF Notify
    <3> QED BY <3>5, <3>6, <2>2, <1>1, <1>2 DEF AwakeSuffice
  <2> QED BY <2>1, <2>2
<1>7. ASSUME NEW t \in Threads, CallPopBlocking(t) \/ WakesUnasked(t) PROVE AwakeSuffice'
  <2>1. /\ Being("available")' \subseteq Being("available") /\ Being("notify")' = Being("notify")
        /\ Being("pop")' = Being("pop") \union {t} /\ t \in Threads \ Being("pop") /\ inner' = inner
    BY <1>1, <1>7 DEF CallPopBlocking, WakesUnasked, Being, UnboundedTypeOK
  <2>2. Cardinality(Being("pop")') = Cardinality(Being("pop")) + 1
    BY <2>1, <1>1, ThreadsCount
  <2> QED BY <2>1, <2>2, <1>1, <1>2 DEF AwakeSuffice
<1>8. ASSUME NEW t \in Threads, PopBlocking(t) PROVE AwakeSuffice'
  <2>1. /\ Being("available")' = Being("available") /\ Being("notify")' = Being("notify")
        /\ Being("pop")' = Being("pop") \ {t} /\ t \in Being("pop")
    BY <1>1, <1>8 DEF PopBlocking, Being, UnboundedTypeOK
  <2>2. Cardinality(inner') = Cardinality(inner) - 1
    BY <1>1, <1>8, InnerCounts DEF PopBlocking, UnboundedTypeOK
  <2>3. Cardinality(Being("pop")') = Cardinality(Being("pop")) - 1
    BY <2>1, <1>1, ThreadsCount
  <2> QED BY <2>1, <2>2, <2>3, <1>1, <1>2 DEF AwakeSuffice
<1>9. ASSUME NEW t \in Threads, PopBlockingWaits(t) PROVE AwakeSuffice'
  <2>1. Being("pop")' \in SUBSET Threads /\ Being("notify")' \in SUBSET Threads
    BY DEF Being
  <2>2. Cardinality(Being("pop")') \in Nat /\ Cardinality(Being("notify")') \in Nat
    BY <2>1, ThreadsCount
  <2>3. Cardinality(inner') = 0
    BY <1>9, FS_EmptySet DEF PopBlockingWaits
  <2> QED BY <2>2, <2>3 DEF AwakeSuffice
<1> QED BY <1>3, <1>4, <1>5, <1>6, <1>7, <1>8, <1>9 DEF UnboundedNext, UnboundedStep

(* No wakeup is lost although push notifies after it released the mutex. *)
THEOREM UnboundedCorrect == UnboundedSpec => []UnboundedInv
<1>1. UnboundedInv /\ [UnboundedNext]_unboundedVars => UnboundedInv'
  BY UnboundedTypeStep, AwakeStep DEF UnboundedInv
<1> QED BY <1>1, UnboundedInvInit, PTL DEF UnboundedSpec

(* The part of it that is about wakeups. *)
THEOREM UnboundedWakeups == UnboundedSpec => []AwakeSuffice
<1>1. UnboundedInv => AwakeSuffice
  BY DEF UnboundedInv
<1> QED BY <1>1, UnboundedCorrect, PTL

-----------------------------------------------------------------------------
(* The unbounded queue refines PriorityQueue *)

PopsCalled == Being("pop") \union Being("available")

LEMMA UnboundedQueueInit == UnboundedInit => BlockingQueue!Init
  BY DEF UnboundedInit, BlockingQueue!Init, Being

LEMMA PopsCalledKept ==
  ASSUME \A u \in Threads : at'[u] \in {"pop", "available"} <=> at[u] \in {"pop", "available"}
  PROVE  PopsCalled' = PopsCalled
  BY DEF PopsCalled, Being

LEMMA GiveRefines ==
  ASSUME UnboundedInv, NEW t \in Threads, NEW c \in Commands, GiveToPush(t, c)
  PROVE  BlockingQueue!BeginPush(t, c)
<1>1. /\ at[t] = "idle" /\ c \in ungiven /\ at' = [at EXCEPT ![t] = "push"]
      /\ giving' = [giving EXCEPT ![t] = c] /\ inner' = inner
  BY DEF GiveToPush
<1>2. \A u \in Threads : at'[u] = IF u = t THEN "push" ELSE at[u]
  BY <1>1 DEF UnboundedInv, UnboundedTypeOK
<1>3. PopsCalled' = PopsCalled /\ t \notin PopsCalled
  BY <1>1, <1>2, PopsCalledKept DEF PopsCalled, Being
<1>4. giving[t] = NoCommand /\ c \notin inner /\ \A u \in Threads : giving[u] # c
  BY <1>1 DEF UnboundedInv, GivenOnce
<1> QED BY <1>1, <1>3, <1>4 DEF BlockingQueue!BeginPush, BlockingQueue!Idle, PopsCalled

(* The queue always has room for a command that is not in it. *)
LEMMA PushInserts ==
  ASSUME UnboundedInv, NEW t \in Threads, Push(t)
  PROVE  BlockingQueue!Insert(t)
<1>1. /\ at[t] = "push" /\ at' = [at EXCEPT ![t] = "notify"]
      /\ inner' = inner \union {giving[t]} /\ giving' = [giving EXCEPT ![t] = NoCommand]
  BY DEF Push
<1>2. \A u \in Threads : at'[u] = IF u = t THEN "notify" ELSE at[u]
  BY <1>1 DEF UnboundedInv, UnboundedTypeOK
<1>3. PopsCalled' = PopsCalled
  BY <1>1, <1>2, PopsCalledKept
<1>4. giving[t] # NoCommand
  BY <1>1 DEF UnboundedInv, GivenOnce
<1>5. Cardinality(inner) < Cardinality(Commands)
  <2>1. inner \subseteq Commands /\ inner # Commands
    BY <1>1, GivenIsNew DEF UnboundedInv, UnboundedTypeOK
  <2>2. IsFiniteSet(Commands)
    BY CommandsAssumption
  <2>3. Cardinality(inner) <= Cardinality(Commands) /\ Cardinality(inner) # Cardinality(Commands)
    BY <2>1, <2>2, FS_Subset
  <2>4. Cardinality(inner) \in Nat /\ Cardinality(Commands) \in Nat
    BY <2>1, <2>2, InnerCounts, FS_CardinalityType
  <2> QED BY <2>3, <2>4
<1>6. BlockingQueue!Cardinality(inner) < Cardinality(Commands)
  BY <1>5 DEF BlockingQueue!Cardinality, Cardinality
<1> QED BY <1>1, <1>3, <1>4, <1>6 DEF BlockingQueue!Insert, PopsCalled

LEMMA CallPopBlockingRefines ==
  ASSUME UnboundedInv, NEW t \in Threads, CallPopBlocking(t)
  PROVE  BlockingQueue!BeginPop(t)
<1>1. /\ at[t] = "idle" /\ at' = [at EXCEPT ![t] = "pop"] /\ UNCHANGED <<inner, giving>>
  BY DEF CallPopBlocking
<1>2. \A u \in Threads : at'[u] = IF u = t THEN "pop" ELSE at[u]
  BY <1>1 DEF UnboundedInv, UnboundedTypeOK
<1>3. PopsCalled' = PopsCalled \union {t} /\ t \notin PopsCalled
  BY <1>1, <1>2 DEF PopsCalled, Being
<1>4. giving[t] = NoCommand
  BY <1>1 DEF UnboundedInv, GivenOnce
<1> QED BY <1>1, <1>3, <1>4 DEF BlockingQueue!BeginPop, BlockingQueue!Idle, PopsCalled

LEMMA PopBlockingRemoves ==
  ASSUME UnboundedInv, NEW t \in Threads, PopBlocking(t)
  PROVE  BlockingQueue!Remove(t)
<1>1. /\ at[t] = "pop" /\ at' = [at EXCEPT ![t] = "idle"] /\ giving' = giving
      /\ \E c \in inner : (\A d \in inner : ~Outranks(d, c)) /\ inner' = inner \ {c}
  BY DEF PopBlocking
<1>2. ASSUME NEW c \in inner, NEW d \in inner, ~Outranks(d, c) PROVE ~BlockingQueue!Before(d, c)
  <2>1. c \in Commands /\ d \in Commands
    BY DEF UnboundedInv, UnboundedTypeOK
  <2> QED BY <1>2, <2>1 DEF Outranks, BlockingQueue!Before
<1>3. \E c \in inner : (\A d \in inner : ~BlockingQueue!Before(d, c)) /\ inner' = inner \ {c}
  BY <1>1, <1>2
<1>4. \A u \in Threads : at'[u] = IF u = t THEN "idle" ELSE at[u]
  BY <1>1 DEF UnboundedInv, UnboundedTypeOK
<1>5. PopsCalled' = PopsCalled \ {t} /\ t \in PopsCalled
  BY <1>1, <1>4 DEF PopsCalled, Being
<1> QED BY <1>1, <1>3, <1>5 DEF BlockingQueue!Remove, PopsCalled

(* Notifications, waits and wakeups. *)
LEMMA NotifyRefines ==
  ASSUME UnboundedInv, NEW t \in Threads, Notify(t) \/ PopBlockingWaits(t) \/ WakesUnasked(t)
  PROVE  UNCHANGED BlockingQueue!queuevars
<1>1. UNCHANGED <<inner, giving>>
  BY DEF Notify, PopBlockingWaits, WakesUnasked
<1>2. \A u \in Threads : at'[u] \in {"pop", "available"} <=> at[u] \in {"pop", "available"}
  <2>1. CASE Notify(t)
    <3>1. at[t] = "notify"
      BY <2>1 DEF Notify
    <3> QED BY <2>1, <3>1, NotifyMoves DEF UnboundedInv
  <2>2. CASE PopBlockingWaits(t) \/ WakesUnasked(t)
    BY <2>2 DEF PopBlockingWaits, WakesUnasked, UnboundedInv, UnboundedTypeOK
  <2> QED BY <2>1, <2>2
<1>3. PopsCalled' = PopsCalled
  BY <1>2, PopsCalledKept
<1> QED BY <1>1, <1>3 DEF BlockingQueue!queuevars, PopsCalled

LEMMA UnboundedQueueStep ==
  ASSUME UnboundedInv, [UnboundedNext]_unboundedVars
  PROVE  [BlockingQueue!Next]_BlockingQueue!queuevars
<1>1. CASE UNCHANGED unboundedVars
  BY <1>1 DEF unboundedVars, BlockingQueue!queuevars, Being
<1>2. ASSUME NEW t \in Threads, NEW c \in Commands, GiveToPush(t, c) PROVE BlockingQueue!Next
  BY <1>2, GiveRefines DEF BlockingQueue!Next
<1>3. ASSUME NEW t \in Threads, Push(t) PROVE BlockingQueue!Next
  BY <1>3, PushInserts DEF BlockingQueue!Next
<1>4. ASSUME NEW t \in Threads, CallPopBlocking(t) \/ PopBlocking(t) PROVE BlockingQueue!Next
  BY <1>4, CallPopBlockingRefines, PopBlockingRemoves DEF BlockingQueue!Next
<1>5. ASSUME NEW t \in Threads, Notify(t) \/ PopBlockingWaits(t) \/ WakesUnasked(t)
      PROVE  UNCHANGED BlockingQueue!queuevars
  BY <1>5, NotifyRefines
<1> QED BY <1>1, <1>2, <1>3, <1>4, <1>5 DEF UnboundedNext, UnboundedStep

(* The queue is a priority queue without bound and without close. *)
THEOREM UnboundedImplements == UnboundedSpec => UnboundedImplementsQueue
<1>1. UnboundedInv /\ [UnboundedNext]_unboundedVars => [BlockingQueue!Next]_BlockingQueue!queuevars
  BY UnboundedQueueStep
<1> QED BY <1>1, UnboundedQueueInit, UnboundedCorrect, PTL DEF UnboundedSpec, UnboundedImplementsQueue, BlockingQueue!Spec
=============================================================================
