----------------------------- MODULE FlushHistory -----------------------------
(***************************************************************************)
(* BufferPoolV3 with a history variable that keeps, for every flush under  *)
(* way, the pages whose content when it was called has not reached the     *)
(* store since.                                                            *)
(***************************************************************************)
EXTENDS BufferPoolV3

VARIABLE owed
historyVars == <<vars, owed>>

Unwritten == {p \in Pages : disk[p] # Content(p)}

Remember ==
  owed' = [t \in Threads |->
             CASE pc'[t] = "idle" -> {}
               [] pc[t] = "idle" /\ pc'[t] = "flushPin" -> Unwritten
               [] OTHER -> owed[t] \intersect Unwritten']

HistoryInit == Init /\ owed = [t \in Threads |-> {}]

HistorySpec == HistoryInit /\ [][Next /\ Remember]_historyVars

(* When flush_all returns Ok, every page written before the call has reached
   the store, although frames are evicted, reloaded and rewritten while the
   flush goes over them one by one. *)
FlushIsComplete ==
  [][\A t \in Threads :
       pc[t] \in {"flushPin", "flushUnpin"} /\ pc'[t] = "idle"
         => owed[t] \intersect Unwritten' = {}]_historyVars
=============================================================================
