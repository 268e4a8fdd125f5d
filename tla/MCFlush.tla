-------------------------------- MODULE MCFlush --------------------------------
(***************************************************************************)
(* FlushHistory with clients that make at most MaxCalls calls of the pool  *)
(* and MaxWrites writes between them, the bound that lets TLC explore more *)
(* threads and frames.                                                     *)
(***************************************************************************)
EXTENDS FlushHistory, TLC

CONSTANTS MaxCalls,   \* bound on fetch_page and flush_all calls
          MaxWrites,  \* bound on PageGuard::write calls
          CallModes   \* the access modes the clients ask for

VARIABLES calls, writes
flushVars == <<historyVars, calls, writes>>

FlushInit == HistoryInit /\ calls = 0 /\ writes = 0

BoundedCall(t) ==
  /\ calls < MaxCalls
  /\ CallStep(t)
  /\ call'[t].mode \in CallModes
  /\ calls' = calls + 1
  /\ UNCHANGED writes
  /\ Remember

BoundedWrite(t) ==
  /\ writes < MaxWrites
  /\ \E f \in Frames : BeginWrite(t, f)
  /\ writes' = writes + 1
  /\ UNCHANGED calls
  /\ Remember

FinishWrite(t) ==
  /\ \E f \in Frames, v \in Contents : EndWrite(t, f, v)
  /\ UNCHANGED <<calls, writes>>
  /\ Remember

Drop(t) ==
  /\ \E f \in Frames : DropGuard(t, f)
  /\ UNCHANGED <<calls, writes>>
  /\ Remember

Run(t) == PoolStep(t) /\ UNCHANGED <<calls, writes>> /\ Remember

(* The clients have used up their calls and every guard is gone. *)
Done ==
  /\ calls = MaxCalls
  /\ \A t \in Threads : pc[t] = "idle" /\ Held(t) = {}
  /\ UNCHANGED flushVars

FlushNext ==
  \/ \E t \in Threads : Run(t) \/ BoundedCall(t) \/ BoundedWrite(t) \/ FinishWrite(t) \/ Drop(t)
  \/ Done

FlushSpec == FlushInit /\ [][FlushNext]_flushVars

Symmetry == Permutations(Threads) \union Permutations(Pages) \union Permutations(Contents)
=============================================================================
