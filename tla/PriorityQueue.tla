---------------------------- MODULE PriorityQueue ----------------------------
(***************************************************************************)
(* What a blocking priority queue promises to the threads that use it, as  *)
(* if every call took effect at once: nobody sleeps, nobody is notified,   *)
(* there is no lock.                                                       *)
(*                                                                         *)
(* A push ends when its command is in the queue, or with an error when the *)
(* queue is closed; a pop ends with a command that no other one is before, *)
(* or with an error when the queue is closed and empty.  No command is     *)
(* lost, none is delivered twice, and as long as there is a command and a  *)
(* pop, or room and a push, some call makes progress.                      *)
(***************************************************************************)
EXTENDS Integers, FiniteSets

CONSTANTS Threads,    \* the threads that push and pop
          Commands,   \* the commands, each of them pushed at most once
          Priority,   \* their priorities
          IssuedAt,   \* the times at which they were issued
          Capacity,   \* how many commands fit
          NoCommand   \* "no command"

VARIABLES queue,     \* the commands in the queue
          closed,    \* shutdown was called
          pushing,   \* the command each thread is pushing, if any
          popping    \* the threads that are popping

queuevars == <<queue, closed, pushing, popping>>

(* a is served before b. *)
Before(a, b) ==
  \/ Priority[a] > Priority[b]
  \/ Priority[a] = Priority[b] /\ IssuedAt[a] < IssuedAt[b]

Init ==
  /\ queue = {} /\ closed = FALSE
  /\ pushing = [t \in Threads |-> NoCommand] /\ popping = {}

Idle(t) == pushing[t] = NoCommand /\ t \notin popping

BeginPush(t, c) ==
  /\ Idle(t)
  /\ c \notin queue /\ \A u \in Threads : pushing[u] # c
  /\ pushing' = [pushing EXCEPT ![t] = c]
  /\ UNCHANGED <<queue, closed, popping>>

Insert(t) ==
  /\ pushing[t] # NoCommand
  /\ ~closed /\ Cardinality(queue) < Capacity
  /\ queue' = queue \union {pushing[t]}
  /\ pushing' = [pushing EXCEPT ![t] = NoCommand]
  /\ UNCHANGED <<closed, popping>>

Reject(t) ==
  /\ pushing[t] # NoCommand
  /\ closed
  /\ pushing' = [pushing EXCEPT ![t] = NoCommand]
  /\ UNCHANGED <<queue, closed, popping>>

BeginPop(t) ==
  /\ Idle(t)
  /\ popping' = popping \union {t}
  /\ UNCHANGED <<queue, closed, pushing>>

Remove(t) ==
  /\ t \in popping
  /\ \E c \in queue :
       /\ \A d \in queue : ~Before(d, c)
       /\ queue' = queue \ {c}
  /\ popping' = popping \ {t}
  /\ UNCHANGED <<closed, pushing>>

Drained(t) ==
  /\ t \in popping
  /\ closed /\ queue = {}
  /\ popping' = popping \ {t}
  /\ UNCHANGED <<queue, closed, pushing>>

Close == closed' = TRUE /\ UNCHANGED <<queue, pushing, popping>>

Next ==
  \/ Close
  \/ \E t \in Threads :
       \/ \E c \in Commands : BeginPush(t, c)
       \/ Insert(t) \/ Reject(t) \/ BeginPop(t) \/ Remove(t) \/ Drained(t)

Spec == Init /\ [][Next]_queuevars

(* Which push gets the room and which pop the command is open; that one does
   is not.  After the close nobody waits. *)
FairSpec ==
  /\ Spec
  /\ WF_queuevars(\E t \in Threads : Insert(t))
  /\ WF_queuevars(\E t \in Threads : Remove(t))
  /\ \A t \in Threads : WF_queuevars(Reject(t)) /\ WF_queuevars(Drained(t))
=============================================================================
