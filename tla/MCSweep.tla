-------------------------------- MODULE MCSweep --------------------------------
(***************************************************************************)
(* When does fetch_page answer AllFramesPinned?  Threads follow a script   *)
(* of fetches and drop their guards when they like, the store never fails, *)
(* and a history variable keeps, for every thread that looks for a victim, *)
(* the frames that were pinned at some moment since its sweep began.       *)
(***************************************************************************)
EXTENDS BufferPoolV3, Sequences

CONSTANTS holder, visitor, third,      \* the threads
          pageA, pageB, pageC, pageD, pageE

(* The pages each thread fetches, in this order. *)
Script(t) == CASE t = holder  -> <<pageA, pageC>>
               [] t = visitor -> <<pageB, pageD>>
               [] t = third   -> <<pageE>>

VARIABLES step,     \* how many fetches of its script a thread has begun
          busy      \* the frames seen pinned during its current sweep
sweepVars == <<vars, step, busy>>

SweepInit == Init /\ step = [t \in Threads |-> 0] /\ busy = [t \in Threads |-> {}]

PinnedFrames == {f \in Frames : pins[f] > 0}

ScriptedFetch(t) ==
  /\ step[t] < Len(Script(t))
  /\ Fetch(t, Script(t)[step[t] + 1], "Normal")
  /\ step' = [step EXCEPT ![t] = @ + 1]

(* No store error: nothing is ever restored. *)
FaultFree(t) == PoolStep(t) /\ pc'[t] # "restore" /\ UNCHANGED step

ScriptedDrop(t) == (\E f \in Frames : DropGuard(t, f)) /\ UNCHANGED step

SweepNext ==
  /\ \E t \in Threads : ScriptedFetch(t) \/ FaultFree(t) \/ ScriptedDrop(t)
  /\ busy' = [t \in Threads |->
                CASE pc'[t] \notin Sweeping -> {}
                  [] pc'[t] = "tick" /\ pc[t] \in {"claim", "awaitLoad"} -> PinnedFrames'
                  [] OTHER -> busy[t] \union PinnedFrames']

SweepSpec == SweepInit /\ [][SweepNext]_sweepVars

(* "all frames pinned" means that the pool is too small for the pages held at
   once: a frame that nobody pinned at any moment of the two sweeps would have
   been taken (m7.2.Buffer-Pool.md, and the comment on choose_victim). *)
ExhaustionIsReal ==
  [][\A t \in Threads :
       pc[t] = "scan" /\ pc'[t] = "abandon" => busy[t] = Frames]_sweepVars
=============================================================================
