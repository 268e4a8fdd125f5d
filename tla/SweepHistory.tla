----------------------------- MODULE SweepHistory -----------------------------
(***************************************************************************)
(* The first two pools with a history variable: the frames that had no pin *)
(* when the sweep under way began.                                         *)
(***************************************************************************)
EXTENDS BufferPoolV1, BufferPoolV2

VARIABLE free

poolVars == <<vars, free>>

Remember ==
  free' = CASE At("sweep")' = {} -> {}
            [] At("sweep") # {} -> free
            [] OTHER -> {f \in Frames : pins[f] = 0}

HistoryV1 == Init /\ free = {} /\ [][NextV1 /\ Remember]_poolVars
HistoryV2 == Init /\ free = {} /\ [][NextV2 /\ Remember]_poolVars

(* The error AllFramesPinned says that no frame was free when the sweep began:
   pins can only go away during it, so a free one would have been taken
   (choose_victim of both pools). *)
ExhaustionIsReal ==
  [][\A t \in Threads : pc[t] = "sweep" /\ pc'[t] = "idle" => free = {}]_poolVars
=============================================================================
