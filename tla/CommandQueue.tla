----------------------------- MODULE CommandQueue -----------------------------
(***************************************************************************)
(* The bounded priority command queue (module2/project2/cmd_queue.rs): a   *)
(* heap, a capacity and a shutdown flag under one mutex, and a condition   *)
(* variable each for consumers and producers.  A step is what a thread     *)
(* does between acquiring the mutex and releasing it or going to sleep.    *)
(***************************************************************************)
EXTENDS OwnedCommands

CONSTANTS IssuedAt,  \* Command.issued_at
          SafeMode,  \* the commands of kind SafeMode
          Capacity   \* QueueInner.capacity

ASSUME QueueAssumption ==
  /\ IssuedAt \in [Commands -> Nat]
  /\ SafeMode \subseteq Commands
  /\ Capacity \in Nat

VARIABLES
  heap,        \* the commands in the binary heap
  shutdown,    \* QueueInner.shutdown
  pc,          \* where every thread is
  cmd,         \* the command of a push
  unsent,      \* the commands that were not given to push yet
  pushed,      \* Metrics.commands_pushed
  dispatched,  \* Metrics.commands_dispatched
  safeModes    \* Metrics.safe_mode_count

callVars == <<pc, cmd, unsent>>
metrics == <<pushed, dispatched, safeModes>>
vars == <<heap, shutdown, callVars, metrics>>

(* "push" and "pop": on the way to the mutex; "not_full" and "not_empty":
   asleep on that condition variable. *)
Labels == {"idle", "push", "pop", "not_full", "not_empty"}

At(l) == {t \in Threads : pc[t] = l}

Init ==
  /\ heap = {} /\ shutdown = FALSE
  /\ pc = [t \in Threads |-> "idle"]
  /\ cmd = [t \in Threads |-> NoCommand]
  /\ unsent = Commands
  /\ pushed = 0 /\ dispatched = 0 /\ safeModes = 0

-----------------------------------------------------------------------------
(* Mutation of Before: the newer command first. *)
NewestFirst(a, b) ==
  \/ Priority[a] > Priority[b]
  \/ Priority[a] = Priority[b] /\ IssuedAt[a] > IssuedAt[b]

(* Command::cmp: the higher priority, then the older command. *)
Before(a, b) ==
  \/ Priority[a] > Priority[b]
  \/ Priority[a] = Priority[b] /\ IssuedAt[a] < IssuedAt[b]

(* What the heap may hand out: of equal commands any. *)
Top(c) == c \in heap /\ \A d \in heap : ~Before(d, c)

(* Mutation of NotifyOne: nobody is woken. *)
NotifyNobody(p, asleep, awake) == {p}

(* What pc can be when notify_one wakes one of the threads asleep, if any. *)
NotifyOne(p, asleep, awake) ==
  LET sleepers == {t \in Threads : p[t] = asleep}
  IN IF sleepers = {} THEN {p} ELSE {[p EXCEPT ![t] = awake] : t \in sleepers}

(* Mutation of NotifyAll: the producers are forgotten. *)
NotifyConsumers(p) == [t \in Threads |-> IF p[t] = "not_empty" THEN "pop" ELSE p[t]]

(* notify_all on both condition variables. *)
NotifyAll(p) ==
  [t \in Threads |-> CASE p[t] = "not_full" -> "push"
                       [] p[t] = "not_empty" -> "pop"
                       [] OTHER -> p[t]]

-----------------------------------------------------------------------------
(* push *)

CallPush(t, c) ==
  /\ pc[t] = "idle"
  /\ c \in unsent
  /\ pc' = [pc EXCEPT ![t] = "push"]
  /\ cmd' = [cmd EXCEPT ![t] = c]
  /\ unsent' = unsent \ {c}
  /\ UNCHANGED <<heap, shutdown, metrics>>

PushRejected(t) ==
  /\ pc[t] = "push"
  /\ shutdown
  /\ pc' = [pc EXCEPT ![t] = "idle"]
  /\ cmd' = [cmd EXCEPT ![t] = NoCommand]
  /\ UNCHANGED <<heap, shutdown, unsent, metrics>>

NotFull == Cardinality(heap) < Capacity

PushAccepted(t) ==
  /\ pc[t] = "push"
  /\ ~shutdown /\ NotFull
  /\ heap' = heap \union {cmd[t]}
  /\ pushed' = pushed + 1
  /\ safeModes' = IF cmd[t] \in SafeMode THEN safeModes + 1 ELSE safeModes
  /\ pc' \in NotifyOne([pc EXCEPT ![t] = "idle"], "not_empty", "pop")
  /\ cmd' = [cmd EXCEPT ![t] = NoCommand]
  /\ UNCHANGED <<shutdown, unsent, dispatched>>

PushWaits(t) ==
  /\ pc[t] = "push"
  /\ ~shutdown /\ ~NotFull
  /\ pc' = [pc EXCEPT ![t] = "not_full"]
  /\ UNCHANGED <<heap, shutdown, cmd, unsent, metrics>>

-----------------------------------------------------------------------------
(* pop *)

CallPop(t) ==
  /\ pc[t] = "idle"
  /\ pc' = [pc EXCEPT ![t] = "pop"]
  /\ UNCHANGED <<heap, shutdown, cmd, unsent, metrics>>

PopCommand(t) ==
  /\ pc[t] = "pop"
  /\ \E c \in heap : Top(c) /\ heap' = heap \ {c}
  /\ dispatched' = dispatched + 1
  /\ pc' \in NotifyOne([pc EXCEPT ![t] = "idle"], "not_full", "push")
  /\ UNCHANGED <<shutdown, cmd, unsent, pushed, safeModes>>

PopDrained(t) ==
  /\ pc[t] = "pop"
  /\ heap = {} /\ shutdown
  /\ pc' = [pc EXCEPT ![t] = "idle"]
  /\ UNCHANGED <<heap, shutdown, cmd, unsent, metrics>>

PopWaits(t) ==
  /\ pc[t] = "pop"
  /\ heap = {} /\ ~shutdown
  /\ pc' = [pc EXCEPT ![t] = "not_empty"]
  /\ UNCHANGED <<heap, shutdown, cmd, unsent, metrics>>

-----------------------------------------------------------------------------
Shutdown(t) ==
  /\ pc[t] = "idle"
  /\ shutdown' = TRUE
  /\ pc' = NotifyAll(pc)
  /\ UNCHANGED <<heap, cmd, unsent, metrics>>

(* A condition variable may wake a thread without a notification. *)
SpuriousWakeup(t) ==
  /\ pc[t] \in {"not_full", "not_empty"}
  /\ pc' = [pc EXCEPT ![t] = IF pc[t] = "not_full" THEN "push" ELSE "pop"]
  /\ UNCHANGED <<heap, shutdown, cmd, unsent, metrics>>

(* What a thread does with the mutex. *)
PushStep(t) == PushRejected(t) \/ PushAccepted(t) \/ PushWaits(t)
PopStep(t) == PopCommand(t) \/ PopDrained(t) \/ PopWaits(t)
LockStep(t) == PushStep(t) \/ PopStep(t)

Next ==
  \E t \in Threads :
    \/ \E c \in Commands : CallPush(t, c)
    \/ CallPop(t) \/ Shutdown(t) \/ LockStep(t) \/ SpuriousWakeup(t)

Spec == Init /\ [][Next]_vars

(* A thread that wants the mutex gets it in the end, as each thread holds it
   for a bounded time; nobody has to call, and no wakeup is spurious that need
   be. *)
FairSpec == Spec /\ \A t \in Threads : WF_vars(LockStep(t))

-----------------------------------------------------------------------------
(* Safety *)

TypeOK ==
  /\ heap \subseteq Commands
  /\ shutdown \in BOOLEAN
  /\ pc \in [Threads -> Labels]
  /\ cmd \in [Threads -> Commands \union {NoCommand}]
  /\ unsent \subseteq Commands
  /\ pushed \in Nat /\ dispatched \in Nat /\ safeModes \in Nat

(* A command is given to push once and is in one place. *)
CommandsOnce ==
  /\ heap \intersect unsent = {}
  /\ \A t \in Threads :
       /\ cmd[t] # NoCommand <=> pc[t] \in {"push", "not_full"}
       /\ cmd[t] \notin heap \union unsent
       /\ \A u \in Threads : u # t /\ cmd[t] # NoCommand => cmd[u] # cmd[t]

(* The capacity is a bound although the room is checked before a wait. *)
WithinCapacity == Cardinality(heap) <= Capacity

(* No wakeup is lost.  While a consumer sleeps, as many consumers are on their
   way to the mutex as there are commands; while a producer sleeps, as many
   producers as there are free places.  A notification can wake a thread that
   then finds nothing, because another one came first: what counts is that as
   many are awake. *)
WakeupsSuffice ==
  /\ At("not_empty") # {} => Cardinality(At("pop")) >= Cardinality(heap)
  /\ At("not_full") # {} => Cardinality(At("push")) + Cardinality(heap) >= Capacity

(* "Wake all blocked producers and the consumer" (shutdown): after it nobody
   sleeps again. *)
ShutdownReachesAll == shutdown => At("not_empty") \union At("not_full") = {}

(* What the monitor thread prints once all is quiet: what went in and did not
   come out is in the queue. *)
MetricsAgree == pushed = dispatched + Cardinality(heap)

QueueInv ==
  /\ TypeOK
  /\ CommandsOnce
  /\ WithinCapacity
  /\ WakeupsSuffice
  /\ ShutdownReachesAll
  /\ MetricsAgree

-----------------------------------------------------------------------------
(* Refinement and liveness *)

Queue == INSTANCE PriorityQueue WITH
  queue <- heap,
  closed <- shutdown,
  pushing <- cmd,
  popping <- At("pop") \union At("not_empty")

(* Each critical section takes effect as the call of a priority queue; waits
   and wakeups change nothing for the callers. *)
ImplementsPriorityQueue == Queue!Spec

(* And the queue makes progress: a command and a pop, or room and a push, are
   not kept apart by a lost wakeup, and a shutdown ends all calls. *)
ProgressOfPriorityQueue == Queue!FairSpec
=============================================================================
