------------------------------ MODULE LruHistory ------------------------------
(***************************************************************************)
(* LruBufferPool with a history variable: the content that each page was   *)
(* last given by modify_page, or at its allocation.                        *)
(***************************************************************************)
EXTENDS LruBufferPool

VARIABLE latest
historyVars == <<vars, latest>>

HistoryInit == Init /\ latest = disk

HistoryNext ==
  \E t \in Threads :
    \/ /\ AppendPage(t) \/ AppendFails(t)
       /\ latest' = [latest EXCEPT ![count] = disk'[count]]
    \/ PinStep(t) /\ UNCHANGED latest
    \/ FlushStep(t) /\ UNCHANGED latest
    \/ \E f \in Frames :
         \/ DropHandle(t, f) /\ UNCHANGED latest
         \/ \E v \in Contents :
              Modify(t, f, v) /\ latest' = [latest EXCEPT ![handle[t][f]] = v]

HistorySpec == HistoryInit /\ [][HistoryNext]_historyVars

(* "Write every dirty frame to the backing page file" (flush_all): when it
   answers Ok, the file has the content every page was last given. *)
FlushStoresUpdates ==
  [][\A t \in Threads : FlushAll(t) => disk' = latest]_historyVars
=============================================================================
