------------------------------ MODULE PageMemory ------------------------------
(***************************************************************************)
(* What a buffer pool promises to the code that uses it, with the frames,  *)
(* the replacement policy, the store and every internal step left out.     *)
(*                                                                         *)
(* Pages have a content.  A client acquires a page, writes it while no     *)
(* other client writes it, and releases it.  A write is visible to every   *)
(* later access and nothing but a write changes a content: no update is    *)
(* lost by an eviction or a flush, and no access sees a stale copy.  At    *)
(* most Capacity distinct pages are held at any time.                      *)
(***************************************************************************)
EXTENDS Integers, FiniteSets

CONSTANTS Threads,    \* the clients of the pool
          Pages,      \* the page identifiers
          Contents,   \* the contents a page can have
          Capacity,   \* how many distinct pages can be held at once
          NoThread    \* the value of "nobody"

VARIABLES mem,     \* the content of every page
          held,    \* the pages every client holds a guard of
          writer   \* for every page the client that is writing it, if any

memvars == <<mem, held, writer>>

Init ==
  /\ mem \in [Pages -> Contents]
  /\ held = [t \in Threads |-> {}]
  /\ writer = [p \in Pages |-> NoThread]

HeldPages(h) == UNION {h[t] : t \in Threads}

Acquire(t, p) ==
  /\ p \notin held[t]
  /\ held' = [held EXCEPT ![t] = @ \union {p}]
  /\ Cardinality(HeldPages(held')) <= Capacity
  /\ UNCHANGED <<mem, writer>>

Release(t, p) ==
  /\ p \in held[t]
  /\ writer[p] # t
  /\ held' = [held EXCEPT ![t] = @ \ {p}]
  /\ UNCHANGED <<mem, writer>>

BeginWrite(t, p) ==
  /\ p \in held[t]
  /\ writer[p] = NoThread
  /\ writer' = [writer EXCEPT ![p] = t]
  /\ UNCHANGED <<mem, held>>

EndWrite(t, p, v) ==
  /\ writer[p] = t
  /\ mem' = [mem EXCEPT ![p] = v]
  /\ writer' = [writer EXCEPT ![p] = NoThread]
  /\ UNCHANGED held

(* A write that no other client sees the middle of. *)
Write(t, p, v) ==
  /\ p \in held[t]
  /\ writer[p] = NoThread
  /\ mem' = [mem EXCEPT ![p] = v]
  /\ UNCHANGED <<held, writer>>

Next ==
  \E t \in Threads, p \in Pages :
    \/ Acquire(t, p)
    \/ Release(t, p)
    \/ BeginWrite(t, p)
    \/ \E v \in Contents : EndWrite(t, p, v) \/ Write(t, p, v)

Spec == Init /\ [][Next]_memvars
=============================================================================
