------------------------------- MODULE Aggregator -------------------------------
(***************************************************************************)
(* The telemetry aggregator of module3/part1/aggregator.rs: an actor with  *)
(* a bounded mailbox and a bounded buffer, and the calls of its handles.   *)
(* Frames are numbered in the order in which they enter the mailbox.       *)
(***************************************************************************)
EXTENDS Integers, Sequences

CONSTANTS Callers,      \* the tasks that hold a handle
          MailboxSize,  \* of the mailbox
          MaxBuffer,    \* MAX_BUFFER (1000)
          MaxSent       \* bound on the frames sent

ASSUME AggAssumption ==
  MailboxSize \in Nat /\ MaxBuffer \in Nat \ {0} /\ MaxSent \in Nat

VARIABLES
  mailbox,    \* the messages in the channel
  buffer,     \* the frames of run_aggregator
  actor,      \* "running" or "ended"
  call,       \* of each caller: "idle", "frame", "depth", "drain" (waiting for
              \* room), "awaitDepth", "awaitDrain" (for the reply) or "gone"
  sent,       \* the frames that were accepted
  popped,     \* the frames the actor has taken from the mailbox
  drainedTo,  \* the last frame that a drain took out
  lost        \* the last frame that was dropped since, as the buffer was full
aggVars == <<mailbox, buffer, actor, call, sent, popped, drainedTo, lost>>

Requests == {"depth", "drain"}
Await(kind) == IF kind = "depth" THEN "awaitDepth" ELSE "awaitDrain"

AggInit ==
  /\ mailbox = <<>> /\ buffer = <<>> /\ actor = "running"
  /\ call = [c \in Callers |-> "idle"]
  /\ sent = 0 /\ popped = 0 /\ drainedTo = 0 /\ lost = 0

-----------------------------------------------------------------------------
(* AggregatorHandle *)

Call(c) ==
  /\ call[c] = "idle"
  /\ \E kind \in {"frame"} \union Requests : call' = [call EXCEPT ![c] = kind]
  /\ UNCHANGED <<mailbox, buffer, actor, sent, popped, drainedTo, lost>>

Room == Len(mailbox) < MailboxSize

SendFrame(c) ==
  /\ call[c] = "frame" /\ Room /\ sent < MaxSent
  /\ mailbox' = Append(mailbox, [kind |-> "frame", frame |-> sent + 1, reply |-> c])
  /\ sent' = sent + 1
  /\ call' = [call EXCEPT ![c] = "idle"]
  /\ UNCHANGED <<buffer, actor, popped, drainedTo, lost>>

SendRequest(c) ==
  /\ call[c] \in Requests /\ Room
  /\ mailbox' = Append(mailbox, [kind |-> call[c], frame |-> 0, reply |-> c])
  /\ call' = [call EXCEPT ![c] = Await(@)]
  /\ UNCHANGED <<buffer, actor, sent, popped, drainedTo, lost>>

(* A task that is dropped, in a call or between two, drops its handle and the
   receiver of a reply that is due. *)
Leave(c) ==
  /\ call[c] # "gone"
  /\ call' = [call EXCEPT ![c] = "gone"]
  /\ UNCHANGED <<mailbox, buffer, actor, sent, popped, drainedTo, lost>>

-----------------------------------------------------------------------------
(* run_aggregator *)

(* Mutation of Buffered: a full buffer turns the new frame away. *)
BufferedOldest(frames, f) == IF Len(frames) >= MaxBuffer THEN frames ELSE Append(frames, f)

(* A full buffer drops its oldest frame. *)
Buffered(frames, f) == Append(IF Len(frames) >= MaxBuffer THEN Tail(frames) ELSE frames, f)

TakeFrame ==
  /\ mailbox # <<>> /\ Head(mailbox).kind = "frame"
  /\ mailbox' = Tail(mailbox)
  /\ buffer' = Buffered(buffer, Head(mailbox).frame)
  /\ lost' = IF Len(buffer) >= MaxBuffer THEN Head(buffer) ELSE lost
  /\ popped' = popped + 1
  /\ UNCHANGED <<actor, call, sent, drainedTo>>

(* The reply, if somebody waits for it. *)
Reply(m) ==
  call' = [call EXCEPT ![m.reply] = IF @ = Await(m.kind) THEN "idle" ELSE @]

TakeDepth ==
  /\ mailbox # <<>> /\ Head(mailbox).kind = "depth"
  /\ mailbox' = Tail(mailbox)
  /\ Reply(Head(mailbox))
  /\ UNCHANGED <<buffer, actor, sent, popped, drainedTo, lost>>

(* The frames leave the buffer whether or not the reply arrives. *)
TakeDrain ==
  /\ mailbox # <<>> /\ Head(mailbox).kind = "drain"
  /\ mailbox' = Tail(mailbox)
  /\ Reply(Head(mailbox))
  /\ buffer' = <<>> /\ drainedTo' = popped /\ lost' = popped
  /\ UNCHANGED <<actor, sent, popped>>

(* recv returns None when the senders are gone and the mailbox is empty. *)
ActorEnds ==
  /\ actor = "running" /\ mailbox = <<>>
  /\ \A c \in Callers : call[c] = "gone"
  /\ actor' = "ended"
  /\ UNCHANGED <<mailbox, buffer, call, sent, popped, drainedTo, lost>>

ActorStep == actor = "running" /\ (TakeFrame \/ TakeDepth \/ TakeDrain \/ ActorEnds)

AggNext ==
  \/ ActorStep
  \/ \E c \in Callers : Call(c) \/ SendFrame(c) \/ SendRequest(c) \/ Leave(c)

AggSpec == AggInit /\ [][AggNext]_aggVars

-----------------------------------------------------------------------------
FramesWaiting == {i \in DOMAIN mailbox : mailbox[i].kind = "frame"}

(* What is buffered is, in order, the newest frames since the last drain, all of them
   unless there were more than fit; what the actor has not taken waits in the mailbox
   in order, and it does not end before it has taken everything (run_aggregator). *)
AggInv ==
  /\ Len(mailbox) <= MailboxSize
  /\ \A i \in DOMAIN buffer : buffer[i] = popped - Len(buffer) + i
  /\ Len(buffer) = IF popped - drainedTo < MaxBuffer THEN popped - drainedTo ELSE MaxBuffer
  /\ lost + Len(buffer) = popped
  /\ {mailbox[i].frame : i \in FramesWaiting} = (popped + 1)..sent
  /\ \A i, j \in FramesWaiting : i < j => mailbox[i].frame < mailbox[j].frame
  /\ actor = "ended" => popped = sent

(* A request is answered unless its caller goes (depth, drain). *)
Waiting(c) == call[c] \in Requests \union {Await(kind) : kind \in Requests}

(* The actor ends once all handles are gone. *)
AggEnds == (\A c \in Callers : call[c] = "gone") => actor = "ended"
=============================================================================
