---------------------------- MODULE UnboundedQueue ----------------------------
(***************************************************************************)
(* The command queue of module2/part2/command_queue.rs: no capacity, no    *)
(* shutdown, and a push that gives the mutex up before it notifies.        *)
(***************************************************************************)
EXTENDS OwnedCommands

VARIABLES
  inner,   \* the commands in the binary heap
  at,      \* where every thread is
  giving,  \* the command of a push
  ungiven  \* the commands that were not given to push yet

unboundedVars == <<inner, at, giving, ungiven>>

(* "notify": between the release of the mutex and notify_one; "available":
   asleep on that condition variable. *)
Places == {"idle", "push", "notify", "pop", "available"}

Being(l) == {t \in Threads : at[t] = l}

UnboundedInit ==
  /\ inner = {}
  /\ at = [t \in Threads |-> "idle"]
  /\ giving = [t \in Threads |-> NoCommand]
  /\ ungiven = Commands

GiveToPush(t, c) ==
  /\ at[t] = "idle"
  /\ c \in ungiven
  /\ at' = [at EXCEPT ![t] = "push"]
  /\ giving' = [giving EXCEPT ![t] = c]
  /\ ungiven' = ungiven \ {c}
  /\ UNCHANGED inner

(* Mutation of Push: only the push into an empty heap notifies. *)
PushNotifiesFirst(t) ==
  /\ at[t] = "push"
  /\ inner' = inner \union {giving[t]}
  /\ at' = [at EXCEPT ![t] = IF inner = {} THEN "notify" ELSE "idle"]
  /\ giving' = [giving EXCEPT ![t] = NoCommand]
  /\ UNCHANGED ungiven

Push(t) ==
  /\ at[t] = "push"
  /\ inner' = inner \union {giving[t]}
  /\ at' = [at EXCEPT ![t] = "notify"]
  /\ giving' = [giving EXCEPT ![t] = NoCommand]
  /\ UNCHANGED ungiven

Notify(t) ==
  /\ at[t] = "notify"
  /\ LET p == [at EXCEPT ![t] = "idle"] IN
       IF Being("available") = {} THEN at' = p
       ELSE \E u \in Being("available") : at' = [p EXCEPT ![u] = "pop"]
  /\ UNCHANGED <<inner, giving, ungiven>>

CallPopBlocking(t) ==
  /\ at[t] = "idle"
  /\ at' = [at EXCEPT ![t] = "pop"]
  /\ UNCHANGED <<inner, giving, ungiven>>

(* Command::cmp compares priorities and nothing else. *)
Outranks(a, b) == Priority[a] > Priority[b]

PopBlocking(t) ==
  /\ at[t] = "pop"
  /\ \E c \in inner : (\A d \in inner : ~Outranks(d, c)) /\ inner' = inner \ {c}
  /\ at' = [at EXCEPT ![t] = "idle"]
  /\ UNCHANGED <<giving, ungiven>>

PopBlockingWaits(t) ==
  /\ at[t] = "pop"
  /\ inner = {}
  /\ at' = [at EXCEPT ![t] = "available"]
  /\ UNCHANGED <<inner, giving, ungiven>>

WakesUnasked(t) ==
  /\ at[t] = "available"
  /\ at' = [at EXCEPT ![t] = "pop"]
  /\ UNCHANGED <<inner, giving, ungiven>>

UnboundedStep(t) == Push(t) \/ Notify(t) \/ PopBlocking(t) \/ PopBlockingWaits(t)

UnboundedNext ==
  \E t \in Threads :
    \/ \E c \in Commands : GiveToPush(t, c)
    \/ CallPopBlocking(t) \/ UnboundedStep(t) \/ WakesUnasked(t)

UnboundedSpec == UnboundedInit /\ [][UnboundedNext]_unboundedVars

(* Each call goes on; nobody has to call. *)
UnboundedFairSpec == UnboundedSpec /\ \A t \in Threads : WF_unboundedVars(UnboundedStep(t))

-----------------------------------------------------------------------------
UnboundedTypeOK ==
  /\ inner \subseteq Commands
  /\ at \in [Threads -> Places]
  /\ giving \in [Threads -> Commands \union {NoCommand}]
  /\ ungiven \subseteq Commands

(* A command is given to push once and is in one place. *)
GivenOnce ==
  /\ inner \intersect ungiven = {}
  /\ \A t \in Threads :
       /\ giving[t] # NoCommand <=> at[t] = "push"
       /\ giving[t] \notin inner \union ungiven
       /\ \A u \in Threads : u # t /\ giving[t] # NoCommand => giving[u] # giving[t]

(* The notification comes after the mutex was given up, so that a consumer can
   find the command, or miss it and fall asleep, before it: no wakeup is lost
   because the commands that a sleeper could take are at most the consumers on
   their way to the mutex and the producers that have yet to notify. *)
AwakeSuffice ==
  Being("available") # {} =>
    Cardinality(Being("pop")) + Cardinality(Being("notify")) >= Cardinality(inner)

UnboundedInv == UnboundedTypeOK /\ GivenOnce /\ AwakeSuffice

BlockingQueue == INSTANCE PriorityQueue WITH
  queue <- inner,
  closed <- FALSE,
  pushing <- giving,
  popping <- Being("pop") \union Being("available"),
  IssuedAt <- [c \in Commands |-> 0],
  Capacity <- Cardinality(Commands)

(* A priority queue that is never full and never closed, *)
UnboundedImplementsQueue == BlockingQueue!Spec

(* in which a command and a pop find each other. *)
ProgressOfUnbounded == BlockingQueue!FairSpec
=============================================================================
