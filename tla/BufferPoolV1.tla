------------------------------ MODULE BufferPoolV1 ------------------------------
(* buffer_pool.rs: one mutex for the whole of fetch_page and of flush_all. *)
EXTENDS ClockPool

(* inner: Mutex<BufferPoolInner> *)
Unlocked == Replacing \union At("flushing") = {}

FetchLocked(t) ==
  /\ pc[t] = "fetch" /\ Unlocked
  /\ PinHit(t) \/ StartSweep(t)

FlushLocked(t) == Unlocked /\ StartFlush(t)

StepV1(t) == FetchLocked(t) \/ FlushLocked(t) \/ TableStep(t)

NextV1 == \E t \in Threads : StepV1(t) \/ ClientStep(t)

SpecV1 == Init /\ [][NextV1]_vars
=============================================================================
