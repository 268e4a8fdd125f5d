------------------------------ MODULE BufferPoolV2 ------------------------------
(***************************************************************************)
(* buffer_pool_v2.rs: hits and flushes share the read lock of the table, a *)
(* miss takes its write lock and looks again.  The state mutex of a frame  *)
(* is only ever contended by two flushes, whose steps are whole frames.    *)
(***************************************************************************)
EXTENDS ClockPool

NoTableWriter == Replacing = {}
NoTableReader == At("flushing") = {}

Lookup(t) ==
  /\ pc[t] = "fetch" /\ NoTableWriter
  /\ \/ PinHit(t)
     \/ /\ table[call[t].page] = NoFrame
        /\ Goto(t, "miss")
        /\ UNCHANGED <<disk, frameVars, hand, guard, writer, call>>

Recheck(t) ==
  /\ pc[t] = "miss" /\ NoTableWriter /\ NoTableReader
  /\ PinHit(t) \/ StartSweep(t)

FlushShared(t) == NoTableWriter /\ StartFlush(t)

StepV2(t) == Lookup(t) \/ Recheck(t) \/ FlushShared(t) \/ TableStep(t)

NextV2 == \E t \in Threads : StepV2(t) \/ ClientStep(t)

SpecV2 == Init /\ [][NextV2]_vars
=============================================================================
