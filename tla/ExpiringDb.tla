------------------------------ MODULE ExpiringDb ------------------------------
(***************************************************************************)
(* The expiring key-value store of module3/db.rs: clients that set and get *)
(* entries, the background task that purges expired ones, and the Notify   *)
(* by which the others wake it.  Values are left out.                      *)
(***************************************************************************)
EXTENDS Naturals

CONSTANTS Keys, Setters, Durations,
          MaxTime,    \* bound on the clock
          Never       \* "does not expire", "sleep until notified"

ASSUME DbAssumption == Never \notin Nat /\ Durations \subseteq Nat

VARIABLES
  now,          \* Instant::now()
  entries,      \* State.entries: when the entry of a key expires
  expirations,  \* State.expirations: pairs of an instant and a key
  permit,       \* the permit that a Notify keeps
  shut,         \* the shutdown flag
  notifying,    \* who has released the mutex and calls notify_one next
  task,         \* where the purge task is
  wakeup        \* the deadline of its select
dbVars == <<now, entries, expirations, permit, shut, notifying, task, wakeup>>

Guard == "guard"        \* the DbDropGuard, beside the setters

DbInit ==
  /\ now = 0
  /\ entries = [k \in {} |-> Never]
  /\ expirations = {}
  /\ permit = FALSE /\ shut = FALSE
  /\ notifying = {}
  /\ task = "check" /\ wakeup = Never

Tick ==
  /\ now < MaxTime
  /\ now' = now + 1
  /\ UNCHANGED <<entries, expirations, permit, shut, notifying, task, wakeup>>

Present == DOMAIN entries

(* Mutation of Later: without an expiration there is nobody to be earlier than. *)
EarlierThanSome(when) == expirations # {} /\ \A e \in expirations : e[1] > when

(* BTreeSet: the first element has the smallest instant. *)
Later(when) == \A e \in expirations : e[1] > when

(* Mutation of Set: the expiration that the key had before is kept. *)
SetForgetsOld(c, k, when) ==
  /\ c \notin notifying
  /\ notifying' = IF when # Never /\ Later(when) THEN notifying \union {c} ELSE notifying
  /\ expirations' = expirations \union (IF when = Never THEN {} ELSE {<<when, k>>})
  /\ entries' = [j \in Present \union {k} |-> IF j = k THEN when ELSE entries[j]]
  /\ UNCHANGED <<now, permit, shut, task, wakeup>>

(* The mutex is released before the notification. *)
Set(c, k, when) ==
  /\ c \notin notifying
  /\ notifying' = IF when # Never /\ Later(when) THEN notifying \union {c} ELSE notifying
  /\ expirations' =
       {e \in expirations : ~(k \in Present /\ e = <<entries[k], k>>)}
         \union (IF when = Never THEN {} ELSE {<<when, k>>})
  /\ entries' = [j \in Present \union {k} |-> IF j = k THEN when ELSE entries[j]]
  /\ UNCHANGED <<now, permit, shut, task, wakeup>>

(* The drop of the guard: shutdown_purge_task up to its notification. *)
DropDb ==
  /\ ~shut
  /\ shut' = TRUE
  /\ notifying' = notifying \union {Guard}
  /\ UNCHANGED <<now, entries, expirations, permit, task, wakeup>>

NotifyOne(c) ==
  /\ c \in notifying
  /\ notifying' = notifying \ {c}
  /\ permit' = TRUE
  /\ UNCHANGED <<now, entries, expirations, shut, task, wakeup>>

CheckShutdown ==
  /\ task = "check"
  /\ task' = IF shut THEN "ended" ELSE "purge"
  /\ UNCHANGED <<now, entries, expirations, permit, shut, notifying, wakeup>>

Expired(when) == when # Never /\ when <= now

(* purge_expired_keys; it looks at the flag again. *)
Purge ==
  /\ task = "purge"
  /\ IF shut
     THEN wakeup' = Never /\ UNCHANGED <<entries, expirations>>
     ELSE LET rest == {e \in expirations : ~Expired(e[1])} IN
          /\ expirations' = rest
          /\ entries' = [k \in {j \in Present : ~\E e \in expirations \ rest : e[2] = j}
                           |-> entries[k]]
          /\ wakeup' = IF rest = {} THEN Never
                       ELSE (CHOOSE e \in rest : \A f \in rest : e[1] <= f[1])[1]
  /\ task' = "wait"
  /\ UNCHANGED <<now, permit, shut, notifying>>

(* A permit that is there is taken at once, or later if the sleep ends first. *)
Woken ==
  /\ task = "wait"
  /\ \/ permit /\ permit' = FALSE
     \/ Expired(wakeup) /\ UNCHANGED permit
  /\ task' = "check" /\ wakeup' = Never
  /\ UNCHANGED <<now, entries, expirations, shut, notifying>>

PurgeTask == CheckShutdown \/ Purge \/ Woken
Notifications == \E c \in notifying : NotifyOne(c)

DbNext ==
  \/ Tick \/ DropDb \/ PurgeTask \/ Notifications
  \/ \E c \in Setters, k \in Keys :
       \/ Set(c, k, Never)
       \/ \E d \in Durations : Set(c, k, now + d)

DbSpec == DbInit /\ [][DbNext]_dbVars

-----------------------------------------------------------------------------
(* The two collections agree, and the task is never asleep past the earliest
   expiration, nor past the shutdown, unless a notification is under way
   (set, shutdown_purge_task, purge_expired_tasks). *)
DbInv ==
  /\ expirations = {<<entries[k], k>> : k \in {j \in Present : entries[j] # Never}}
  /\ task = "wait" /\ ~permit /\ notifying = {} =>
       /\ ~shut
       /\ wakeup = Never => expirations = {}
       /\ wakeup # Never => \A e \in expirations : wakeup <= e[1]

(* An entry that has expired stays until it is purged or set again, for good only if
   the store is shut down (purge_expired_tasks). *)
Overdue(k) == k \in Present /\ Expired(entries[k]) /\ ~shut

(* After the guard is dropped the task ends (shutdown_purge_task). *)
PurgeTaskEnds == shut => task = "ended"
=============================================================================
