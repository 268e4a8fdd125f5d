--------------------------- MODULE TelemetryPipeline ---------------------------
(***************************************************************************)
(* The telemetry pipeline of module 3 (project3): a registry of sources, a *)
(* router with one feed task per source, the priority fan-in, the frame    *)
(* processor and the archive, joined by bounded channels.                  *)
(*                                                                         *)
(* A step is what a task does between two awaits that can suspend it: it   *)
(* takes a message, or hands one on.  A Feed is one call of add_source: it *)
(* names the channel, its task, and the Source that the caller got.  The   *)
(* number of a frame is the model's own: it tells the frames of a feed     *)
(* apart, as Frame::sequence does not.                                     *)
(***************************************************************************)
EXTENDS Integers, Sequences, FiniteSets, SequencesExt

CONSTANTS NumFeeds,     \* bound: the calls of add_source that create a channel
          Keys,         \* the sources: pairs of a kind and an id
          MaxSources,   \* [SourceKind -> Nat]: 48 uplinks, 2 replays
          MaxFrames,    \* bound: the frames fed in all
          CtrlCap,      \* the capacities of the channels
          FeedCap, InternalCap, EmergencyCap, RoutineCap, ProcessCap, BroadcastCap,
          NoFeed, NoFrame

Kinds == {"LiveUplink", "ArchivedReplay"}
Feeds == 1 .. NumFeeds
Frames == [feed : Feeds, seq : Nat, emergency : BOOLEAN]
Messages == [op : {"Add"}, key : Keys, feed : Feeds]
              \union [op : {"Remove"}, key : Keys, feed : {NoFeed}]

ASSUME PipelineAssumption ==
  /\ NumFeeds \in Nat /\ BroadcastCap \in Nat
  /\ IsFiniteSet(Keys) /\ MaxSources \in [Kinds -> Nat]
  /\ NoFeed \notin Feeds /\ NoFrame \notin Frames

VARIABLES
  registry,   \* State of TelemetrySystem: the feed of every source, by key
  ctrl,       \* the control channel
  receiver,   \* where the receiver of a feed is: in a message, in a task, or gone
  callers,    \* the feeds whose Source the caller of add_source still has
  sent,       \* how many frames each feed has accepted
  feedq,      \* the channel of each feed
  hand,       \* the frame a feed task is about to forward
  handles,    \* feed_handles
  cancelled,  \* the feed tasks that were aborted
  internal,   \* the router's internal channel
  router,     \* "select", "send", "drain" or "done"
  routing,    \* the frame the router is sending
  emergency,  \* the channels into priority_fan_in
  routine,
  fanIn,      \* "select", "send" or "done"
  merging,    \* the frame it is sending
  process,    \* the channel into processer_fan_out
  processor,  \* "recv" or "done"
  processed,  \* the frames it has counted and broadcast
  unread,     \* what archive_consumer can still read of the broadcast
  overrun,    \* how many frames it has missed since its last read
  archive,    \* "recv" or "done"
  shutdown    \* the shutdown watch

registryVars == <<registry, callers>>
feedVars == <<receiver, sent, feedq, hand, cancelled>>
routerVars == <<handles, internal, router, routing>>
mergeVars == <<emergency, routine, fanIn, merging>>
tailVars == <<process, processor, processed, unread, overrun, archive>>
vars == <<registryVars, feedVars, ctrl, routerVars, mergeVars, tailVars, shutdown>>

Init ==
  /\ registry = [k \in Keys |-> NoFeed] /\ callers = {}
  /\ ctrl = <<>>
  /\ receiver = [f \in Feeds |-> "unused"]
  /\ sent = [f \in Feeds |-> 0]
  /\ feedq = [f \in Feeds |-> <<>>]
  /\ hand = [f \in Feeds |-> NoFrame]
  /\ handles = [k \in Keys |-> NoFeed] /\ cancelled = {}
  /\ internal = <<>> /\ router = "select" /\ routing = NoFrame
  /\ emergency = <<>> /\ routine = <<>> /\ fanIn = "select" /\ merging = NoFrame
  /\ process = <<>> /\ processor = "recv" /\ processed = <<>>
  /\ unread = 0 /\ overrun = 0 /\ archive = "recv"
  /\ shutdown = FALSE

-----------------------------------------------------------------------------
(* TelemetrySystem.  Every call holds the state mutex, try_send included. *)

Registered(kind) == {k[2] : k \in {k \in Keys : k[1] = kind /\ registry[k] # NoFeed}}

(* Both limits are looked at, whatever the kind of the new source. *)
Refused(id) ==
  \E kind \in Kinds :
    id \notin Registered(kind) /\ Cardinality(Registered(kind)) >= MaxSources[kind]

NextFeed == 1 + Cardinality({f \in Feeds : receiver[f] # "unused"})
CtrlOpen == router # "done" /\ Len(ctrl) < CtrlCap

(* Mutation of AddSource: a source that is there keeps its registry entry. *)
AddKeepsFirst(k, f) ==
  /\ f = NextFeed /\ ~Refused(k[2]) /\ CtrlOpen
  /\ ctrl' = Append(ctrl, [op |-> "Add", key |-> k, feed |-> f])
  /\ receiver' = [receiver EXCEPT ![f] = "ctrl"]
  /\ registry' = [registry EXCEPT ![k] = IF @ = NoFeed THEN f ELSE @]
  /\ callers' = callers \union {f}
  /\ UNCHANGED <<sent, feedq, hand, cancelled, routerVars, mergeVars, tailVars, shutdown>>

AddSource(k, f) ==
  /\ f = NextFeed /\ ~Refused(k[2]) /\ CtrlOpen
  /\ ctrl' = Append(ctrl, [op |-> "Add", key |-> k, feed |-> f])
  /\ receiver' = [receiver EXCEPT ![f] = "ctrl"]
  /\ registry' = [registry EXCEPT ![k] = f]
  /\ callers' = callers \union {f}
  /\ UNCHANGED <<sent, feedq, hand, cancelled, routerVars, mergeVars, tailVars, shutdown>>

(* The entry goes even when the message cannot be sent. *)
RemoveSource(k) ==
  /\ registry[k] # NoFeed
  /\ registry' = [registry EXCEPT ![k] = NoFeed]
  /\ ctrl' = IF CtrlOpen THEN Append(ctrl, [op |-> "Remove", key |-> k, feed |-> NoFeed]) ELSE ctrl
  /\ UNCHANGED <<callers, feedVars, routerVars, mergeVars, tailVars, shutdown>>

Fed == FoldFunction(+, 0, sent)

(* Source::feeding *)
Feeding(f, urgent) ==
  /\ f \in callers /\ Fed < MaxFrames
  /\ receiver[f] # "gone" /\ Len(feedq[f]) < FeedCap
  /\ sent' = [sent EXCEPT ![f] = @ + 1]
  /\ feedq' = [feedq EXCEPT ![f] = Append(@, [feed |-> f, seq |-> sent[f] + 1, emergency |-> urgent])]
  /\ UNCHANGED <<registryVars, receiver, hand, cancelled, ctrl, routerVars, mergeVars, tailVars, shutdown>>

DropSource(f) ==
  /\ f \in callers
  /\ callers' = callers \ {f}
  /\ UNCHANGED <<registry, feedVars, ctrl, routerVars, mergeVars, tailVars, shutdown>>

SignalShutdown ==
  /\ ~shutdown
  /\ shutdown' = TRUE
  /\ UNCHANGED <<registryVars, feedVars, ctrl, routerVars, mergeVars, tailVars>>

(* shutdown_all_sources_feeds *)
ReleaseSources ==
  /\ shutdown /\ registry' = [k \in Keys |-> NoFeed]
  /\ UNCHANGED <<callers, feedVars, ctrl, routerVars, mergeVars, tailVars, shutdown>>

-----------------------------------------------------------------------------
(* The feed tasks *)

Senders(f) == f \in callers \/ \E k \in Keys : registry[k] = f

TaskRecv(f) ==
  /\ receiver[f] = "task" /\ hand[f] = NoFrame /\ feedq[f] # <<>>
  /\ hand' = [hand EXCEPT ![f] = Head(feedq[f])]
  /\ feedq' = [feedq EXCEPT ![f] = Tail(@)]
  /\ UNCHANGED <<registryVars, receiver, sent, cancelled, ctrl, routerVars, mergeVars, tailVars, shutdown>>

(* Mutation of TaskForwards: a send that timed out is tried again, although the
   frame may have got through. *)
TaskForwardsAgain(f) ==
  /\ receiver[f] = "task" /\ hand[f] # NoFrame
  /\ router # "done" /\ Len(internal) < InternalCap
  /\ internal' = Append(internal, hand[f])
  /\ \E left \in {hand[f], NoFrame} : hand' = [hand EXCEPT ![f] = left]
  /\ UNCHANGED <<registryVars, receiver, sent, feedq, cancelled, ctrl, handles, router, routing,
                 mergeVars, tailVars, shutdown>>

TaskForwards(f) ==
  /\ receiver[f] = "task" /\ hand[f] # NoFrame
  /\ router # "done" /\ Len(internal) < InternalCap
  /\ internal' = Append(internal, hand[f])
  /\ hand' = [hand EXCEPT ![f] = NoFrame]
  /\ UNCHANGED <<registryVars, receiver, sent, feedq, cancelled, ctrl, handles, router, routing,
                 mergeVars, tailVars, shutdown>>

(* The task ends when its channel is closed and empty, when the router is
   gone, or when it was aborted; what it has not forwarded is dropped. *)
TaskEnds(f) ==
  /\ receiver[f] = "task"
  /\ \/ hand[f] = NoFrame /\ feedq[f] = <<>> /\ ~Senders(f)
     \/ hand[f] # NoFrame /\ router = "done"
     \/ f \in cancelled
  /\ receiver' = [receiver EXCEPT ![f] = "gone"]
  /\ feedq' = [feedq EXCEPT ![f] = <<>>] /\ hand' = [hand EXCEPT ![f] = NoFrame]
  /\ UNCHANGED <<registryVars, sent, cancelled, ctrl, routerVars, mergeVars, tailVars, shutdown>>

-----------------------------------------------------------------------------
(* router_source *)

(* A handle that is replaced is dropped: its task goes on by itself. *)
RouterAdds ==
  /\ router = "select" /\ ctrl # <<>> /\ Head(ctrl).op = "Add"
  /\ handles' = [handles EXCEPT ![Head(ctrl).key] = Head(ctrl).feed]
  /\ receiver' = [receiver EXCEPT ![Head(ctrl).feed] = "task"]
  /\ ctrl' = Tail(ctrl)
  /\ UNCHANGED <<registryVars, sent, feedq, hand, cancelled, internal, router, routing,
                 mergeVars, tailVars, shutdown>>

(* An aborted task may still go on until its next await. *)
RouterRemoves ==
  /\ router = "select" /\ ctrl # <<>> /\ Head(ctrl).op = "Remove"
  /\ cancelled' = cancelled \union ({handles[Head(ctrl).key]} \ {NoFeed})
  /\ handles' = [handles EXCEPT ![Head(ctrl).key] = NoFeed]
  /\ ctrl' = Tail(ctrl)
  /\ UNCHANGED <<registryVars, receiver, sent, feedq, hand, internal, router, routing,
                 mergeVars, tailVars, shutdown>>

RouterTakes ==
  /\ router = "select" /\ internal # <<>>
  /\ routing' = Head(internal) /\ internal' = Tail(internal)
  /\ router' = "send"
  /\ UNCHANGED <<registryVars, feedVars, ctrl, handles, mergeVars, tailVars, shutdown>>

RouterSends ==
  /\ router = "send"
  /\ IF routing.emergency
       THEN /\ Len(emergency) < EmergencyCap
            /\ emergency' = Append(emergency, routing) /\ UNCHANGED routine
       ELSE /\ Len(routine) < RoutineCap
            /\ routine' = Append(routine, routing) /\ UNCHANGED emergency
  /\ router' = "select" /\ routing' = NoFrame
  /\ UNCHANGED <<registryVars, feedVars, ctrl, handles, internal, fanIn, merging, tailVars, shutdown>>

RouterStops ==
  /\ router = "select" /\ shutdown
  /\ router' = "drain"
  /\ UNCHANGED <<registryVars, feedVars, ctrl, handles, internal, routing, mergeVars, tailVars, shutdown>>

(* Every feed task has ended: the router returns and drops its channels, with
   the feeds whose AddSource it has not read. *)
RouterReturns ==
  /\ router = "drain"
  /\ \A k \in Keys : handles[k] # NoFeed => receiver[handles[k]] = "gone"
  /\ router' = "done"
  /\ internal' = <<>> /\ ctrl' = <<>>
  /\ receiver' = [f \in Feeds |-> IF receiver[f] = "ctrl" THEN "gone" ELSE receiver[f]]
  /\ feedq' = [f \in Feeds |-> IF receiver[f] = "ctrl" THEN <<>> ELSE feedq[f]]
  /\ handles' = [k \in Keys |-> NoFeed]
  /\ UNCHANGED <<registryVars, sent, hand, cancelled, routing, mergeVars, tailVars, shutdown>>

-----------------------------------------------------------------------------
(* priority_fan_in; "biased" looks at the emergency channel first. *)

(* Mutation of FanInTakes: first the urgent frames to the end, then the rest. *)
FanInUrgentOnly ==
  /\ fanIn = "select"
  /\ \/ /\ emergency # <<>>
        /\ merging' = Head(emergency) /\ emergency' = Tail(emergency) /\ UNCHANGED routine
     \/ /\ emergency = <<>> /\ router = "done" /\ routine # <<>>
        /\ merging' = Head(routine) /\ routine' = Tail(routine) /\ UNCHANGED emergency
  /\ fanIn' = "send"
  /\ UNCHANGED <<registryVars, feedVars, ctrl, routerVars, tailVars, shutdown>>

FanInTakes ==
  /\ fanIn = "select"
  /\ \/ /\ emergency # <<>>
        /\ merging' = Head(emergency) /\ emergency' = Tail(emergency) /\ UNCHANGED routine
     \/ /\ emergency = <<>> /\ routine # <<>>
        /\ merging' = Head(routine) /\ routine' = Tail(routine) /\ UNCHANGED emergency
  /\ fanIn' = "send"
  /\ UNCHANGED <<registryVars, feedVars, ctrl, routerVars, tailVars, shutdown>>

(* Mutation of FanInSends: the frame is dropped when the processor lags. *)
FanInTries ==
  /\ fanIn = "send"
  /\ process' = IF Len(process) < ProcessCap THEN Append(process, merging) ELSE process
  /\ fanIn' = "select" /\ merging' = NoFrame
  /\ UNCHANGED <<registryVars, feedVars, ctrl, routerVars, emergency, routine, processor, processed,
                 unread, overrun, archive, shutdown>>

FanInSends ==
  /\ fanIn = "send" /\ Len(process) < ProcessCap
  /\ process' = Append(process, merging)
  /\ fanIn' = "select" /\ merging' = NoFrame
  /\ UNCHANGED <<registryVars, feedVars, ctrl, routerVars, emergency, routine, processor, processed,
                 unread, overrun, archive, shutdown>>

FanInEnds ==
  /\ fanIn = "select" /\ router = "done" /\ emergency = <<>> /\ routine = <<>>
  /\ fanIn' = "done"
  /\ UNCHANGED <<registryVars, feedVars, ctrl, routerVars, emergency, routine, merging, tailVars, shutdown>>

-----------------------------------------------------------------------------
(* processer_fan_out and archive_consumer.  A broadcast never waits: it drops
   the oldest frame that the archive has not read. *)

Processes ==
  /\ processor = "recv" /\ process # <<>>
  /\ process' = Tail(process)
  /\ processed' = Append(processed, Head(process))
  /\ IF unread < BroadcastCap THEN unread' = unread + 1 /\ UNCHANGED overrun
                              ELSE overrun' = overrun + 1 /\ UNCHANGED unread
  /\ UNCHANGED <<registryVars, feedVars, ctrl, routerVars, mergeVars, processor, archive, shutdown>>

ProcessorEnds ==
  /\ processor = "recv" /\ process = <<>> /\ fanIn = "done"
  /\ processor' = "done"
  /\ UNCHANGED <<registryVars, feedVars, ctrl, routerVars, mergeVars, process, processed,
                 unread, overrun, archive, shutdown>>

(* RecvError::Lagged comes first; then the frames that are left. *)
ArchiveReads ==
  /\ archive = "recv" /\ overrun + unread > 0
  /\ overrun' = 0
  /\ unread' = IF overrun > 0 THEN unread ELSE unread - 1
  /\ UNCHANGED <<registryVars, feedVars, ctrl, routerVars, mergeVars, process, processor, processed,
                 archive, shutdown>>

ArchiveEnds ==
  /\ archive = "recv" /\ overrun + unread = 0 /\ processor = "done"
  /\ archive' = "done"
  /\ UNCHANGED <<registryVars, feedVars, ctrl, routerVars, mergeVars, process, processor, processed,
                 unread, overrun, shutdown>>

-----------------------------------------------------------------------------
ClientStep ==
  \/ \E k \in Keys : RemoveSource(k) \/ \E f \in Feeds : AddSource(k, f)
  \/ \E f \in Feeds : DropSource(f) \/ \E urgent \in BOOLEAN : Feeding(f, urgent)
  \/ SignalShutdown \/ ReleaseSources

TaskStep(f) == TaskRecv(f) \/ TaskForwards(f) \/ TaskEnds(f)
RouterStep == RouterAdds \/ RouterRemoves \/ RouterTakes \/ RouterSends \/ RouterStops \/ RouterReturns
FanInStep == FanInTakes \/ FanInSends \/ FanInEnds
ProcessorStep == Processes \/ ProcessorEnds
ArchiveStep == ArchiveReads \/ ArchiveEnds

Next ==
  \/ ClientStep
  \/ \E f \in Feeds : TaskStep(f)
  \/ RouterStep \/ FanInStep \/ ProcessorStep \/ ArchiveStep

Spec == Init /\ [][Next]_vars

(* Tokio runs every task that can go on; nothing is asked of the callers. *)
FairSpec ==
  /\ Spec
  /\ \A f \in Feeds : WF_vars(TaskStep(f))
  /\ WF_vars(RouterStep) /\ WF_vars(FanInStep) /\ WF_vars(ProcessorStep) /\ WF_vars(ArchiveStep)

-----------------------------------------------------------------------------
TypeOK ==
  /\ registry \in [Keys -> Feeds \union {NoFeed}] /\ callers \subseteq Feeds
  /\ ctrl \in Seq(Messages)
  /\ receiver \in [Feeds -> {"unused", "ctrl", "task", "gone"}]
  /\ sent \in [Feeds -> Nat]
  /\ feedq \in [Feeds -> Seq(Frames)] /\ hand \in [Feeds -> Frames \union {NoFrame}]
  /\ handles \in [Keys -> Feeds \union {NoFeed}] /\ cancelled \subseteq Feeds
  /\ internal \in Seq(Frames) /\ router \in {"select", "send", "drain", "done"}
  /\ routing \in Frames \union {NoFrame}
  /\ emergency \in Seq(Frames) /\ routine \in Seq(Frames)
  /\ fanIn \in {"select", "send", "done"} /\ merging \in Frames \union {NoFrame}
  /\ process \in Seq(Frames) /\ processor \in {"recv", "done"} /\ processed \in Seq(Frames)
  /\ unread \in 0 .. BroadcastCap /\ overrun \in Nat
  /\ archive \in {"recv", "done"} /\ shutdown \in BOOLEAN

One(x) == IF x = NoFrame THEN <<>> ELSE <<x>>

(* The frames of one feed and one priority travel through eight stages, the
   first of which is the furthest. *)
Stages(f, urgent) ==
  <<processed, process, One(merging), IF urgent THEN emergency ELSE routine, One(routing),
    internal, One(hand[f]), feedq[f]>>

Of(x, f, urgent) == x.feed = f /\ x.emergency = urgent

InOrder(st, f, urgent) ==
  \A i, j \in DOMAIN st : \A m \in DOMAIN st[i], n \in DOMAIN st[j] :
    (i < j \/ (i = j /\ m < n)) /\ Of(st[i][m], f, urgent) /\ Of(st[j][n], f, urgent)
      => st[i][m].seq < st[j][n].seq

Carried(st, f, urgent) ==
  {x.seq : x \in {x \in UNION {{st[i][m] : m \in DOMAIN st[i]} : i \in DOMAIN st} : Of(x, f, urgent)}}

(* Frames of one source and one priority keep their order all the way and none
   is there twice, although routine frames are overtaken by urgent ones. *)
KeepsOrder ==
  \A f \in Feeds, urgent \in BOOLEAN : InOrder(Stages(f, urgent), f, urgent)

(* No frame that a channel accepted is lost, but by the removal of its source
   or by the shutdown: a replaced source is not removed. *)
NothingLost ==
  \A f \in Feeds :
    f \notin cancelled /\ router \in {"select", "send"} =>
      1 .. sent[f] \subseteq Carried(Stages(f, TRUE), f, TRUE) \union Carried(Stages(f, FALSE), f, FALSE)

(* The last message about a source says what the router will do with it. *)
WillFeed(k, f) ==
  \/ handles[k] = f /\ \A i \in DOMAIN ctrl : ctrl[i].key # k
  \/ \E i \in DOMAIN ctrl : /\ ctrl[i].key = k /\ ctrl[i].feed = f
                            /\ \A j \in DOMAIN ctrl : j > i => ctrl[j].key # k

(* The registry and the router agree up to the messages between them: the
   source that the registry has under a key is the one the router will feed
   from once it has read its messages. *)
RegistryAgrees ==
  router # "done" => \A k \in Keys : registry[k] # NoFeed => WillFeed(k, registry[k])

(* No task ends before the one in front of it, nor with a frame in a channel it
   reads or a frame in its hand; the router is the one that gives frames up. *)
EndsInOrder ==
  /\ routing = NoFrame <=> router # "send"
  /\ merging = NoFrame <=> fanIn # "send"
  /\ router \in {"drain", "done"} => shutdown
  /\ router = "done" => internal = <<>> /\ ctrl = <<>>
  /\ fanIn = "done" => router = "done" /\ emergency = <<>> /\ routine = <<>>
  /\ processor = "done" => fanIn = "done" /\ process = <<>>
  /\ archive = "done" => processor = "done" /\ unread = 0 /\ overrun = 0

(* "Up to 48 Live Uplink sources", "Up to 2 Archived Replay sources". *)
WithinLimits == \A kind \in Kinds : Cardinality(Registered(kind)) <= MaxSources[kind]

PipelineInv == TypeOK /\ KeepsOrder /\ WithinLimits /\ EndsInOrder

(* Every frame that a channel accepted is processed in the end, or its source
   is removed, or the pipeline is shut down.  (The callers feed MaxFrames
   frames at most, so there is a time when none is on its way.)  Once the
   router has returned, the tasks behind it end one after the other, and none
   before it has handed on what it had. *)
Processed(f) == {i \in DOMAIN processed : processed[i].feed = f}

FramesProcessed ==
  /\ []<>(\A f \in Feeds : Cardinality(Processed(f)) = sent[f] \/ f \in cancelled \/ shutdown)
  /\ router = "done" ~> archive = "done" /\ emergency \o routine \o process = <<>>

(* "[watch: shutdown] -> All tasks" (pipeline.rs): after the shutdown, with all
   sources released, the pipeline ends. *)
Released == shutdown /\ callers = {} /\ \A k \in Keys : registry[k] = NoFeed
ShutdownCompletes == []<>~Released \/ <>(archive = "done")
=============================================================================
