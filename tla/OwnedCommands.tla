---- MODULE OwnedCommands ----
(***************************************************************************)
(* The threads that share a command queue of module 2, and the commands    *)
(* they pass through it.  A Command is neither Clone nor Copy, so pushing  *)
(* gives it away, and each is pushed at most once (command.rs and          *)
(* part2/command_queue.rs).  The queues of both parts are used with these. *)
(***************************************************************************)
EXTENDS Integers, FiniteSets

CONSTANTS Commands,   \* what is pushed
          NoCommand,  \* in place of one, for a thread that pushes nothing
          Priority,   \* the u8 that both Ord implementations look at first
          Threads     \* producers and consumers, which any thread may be

ASSUME CommandsAssumption ==
  /\ NoCommand \notin Commands /\ Priority \in [Commands -> Nat]
  /\ IsFiniteSet(Commands) /\ IsFiniteSet(Threads)
====
