------------------------------- MODULE MCQueues -------------------------------
(***************************************************************************)
(* The two command queues of module 2 for TLC: which of them the threads   *)
(* share is chosen at the start, the other one stays as it is.  Two        *)
(* SafeMode commands and two of low priority, each pair of different age.  *)
(***************************************************************************)
EXTENDS CommandQueue, UnboundedQueue, TLC

CONSTANTS c1, c2, c3, c4

MCCommands == {c1, c2, c3, c4}
MCPriority == c1 :> 255 @@ c2 :> 50 @@ c3 :> 50 @@ c4 :> 255
MCIssuedAt == c1 :> 3 @@ c2 :> 1 @@ c3 :> 2 @@ c4 :> 4
MCSafeMode == {c1, c4}

VARIABLE kind  \* which queue the threads share

queuesVars == <<kind, vars, unboundedVars>>

QueuesInit == kind \in {"bounded", "unbounded"} /\ Init /\ UnboundedInit

QueuesNext ==
  /\ UNCHANGED kind
  /\ \/ kind = "bounded" /\ Next /\ UNCHANGED unboundedVars
     \/ kind = "unbounded" /\ UnboundedNext /\ UNCHANGED vars

(* The fairness of the two modules; the queue that is not used has nothing to do. *)
QueuesSpec ==
  /\ QueuesInit /\ [][QueuesNext]_queuesVars
  /\ \A t \in Threads :
       /\ WF_queuesVars(LockStep(t) /\ UNCHANGED <<kind, unboundedVars>>)
       /\ WF_queuesVars(UnboundedStep(t) /\ UNCHANGED <<kind, vars>>)

(* Each queue makes the progress of a priority queue, which the one of part 2
   implements as well (CommandQueue::push and pop of both files). *)
QueuesMakeProgress == ProgressOfPriorityQueue /\ ProgressOfUnbounded

(* Somebody pops time and again, as the dispatcher of bin/command_queue.rs does. *)
Popping == []<>(\E t \in Threads : pc[t] = "pop")

(* Then a push ends, accepted or rejected, as no producer is left asleep beside
   a free place; and what was accepted is dispatched, before or after a shutdown
   (CommandQueue::push, pop and shutdown). *)
PoppingServesAll ==
  Popping =>
    /\ \A t \in Threads : pc[t] \in {"push", "not_full"} ~> pc[t] = "idle"
    /\ \A c \in Commands : c \in heap ~> c \notin heap
=============================================================================
