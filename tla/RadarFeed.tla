------------------------------- MODULE RadarFeed -------------------------------
(***************************************************************************)
(* The radar receiver of module4/part2/radar_detection.rs: a task that     *)
(* turns datagrams into detections, a task that processes them, and the    *)
(* guard that shuts both down.                                             *)
(***************************************************************************)
EXTENDS Naturals

CONSTANTS Bound,        \* of the channel
          MaxDatagrams  \* bound on the datagrams that arrive

ASSUME RadarAssumption == Bound \in Nat /\ MaxDatagrams \in Nat

VARIABLES
  guard,       \* UdpSysGuard: "live", in close() "joinTransmit", "joinRecv", then
               \* "closed"; or "dropped"
  holds,       \* the guard still has its system, and with it a sender
  cancelled,   \* the token
  transmit,    \* transmit_from_udp: "running" or "ended", with its sender
  recv,        \* RecvEnd: "running" or "ended"
  arrived,     \* datagrams that came
  pending,     \* those in the socket
  detections,  \* detections in the channel
  accepted,    \* detections the channel took
  processed    \* detections that RecvEnd handled
radarVars == <<guard, holds, cancelled, transmit, recv, arrived, pending, detections,
               accepted, processed>>
countVars == <<arrived, pending, detections, accepted, processed>>

RadarInit ==
  /\ guard = "live" /\ holds = TRUE /\ cancelled = FALSE
  /\ transmit = "running" /\ recv = "running"
  /\ arrived = 0 /\ pending = 0 /\ detections = 0 /\ accepted = 0 /\ processed = 0

Arrive ==
  /\ arrived < MaxDatagrams
  /\ arrived' = arrived + 1 /\ pending' = pending + 1
  /\ UNCHANGED <<guard, holds, cancelled, transmit, recv, detections, accepted, processed>>

-----------------------------------------------------------------------------
(* transmit_from_udp; its select is biased towards the token. *)
TransmitStops ==
  /\ transmit = "running" /\ cancelled
  /\ transmit' = "ended"
  /\ UNCHANGED <<guard, holds, cancelled, recv, countVars>>

(* Malformed, without room, or taken. *)
Transmit ==
  /\ transmit = "running" /\ ~cancelled /\ pending > 0
  /\ pending' = pending - 1
  /\ \/ UNCHANGED <<detections, accepted>>
     \/ detections < Bound /\ detections' = detections + 1 /\ accepted' = accepted + 1
  /\ UNCHANGED <<guard, holds, cancelled, transmit, recv, arrived, processed>>

(* RecvEnd::poll *)
Process ==
  /\ recv = "running" /\ detections > 0
  /\ detections' = detections - 1 /\ processed' = processed + 1
  /\ UNCHANGED <<guard, holds, cancelled, transmit, recv, arrived, pending, accepted>>

(* Mutation of SenderClosed: what is queued is left. *)
SenderClosedQueued ==
  /\ recv = "running" /\ ~holds /\ transmit = "ended"
  /\ recv' = "ended"
  /\ UNCHANGED <<guard, holds, cancelled, transmit, countVars>>

(* poll_recv returns None: nothing is queued and no sender is left. *)
SenderClosed ==
  /\ recv = "running" /\ detections = 0
  /\ ~holds /\ transmit = "ended"
  /\ recv' = "ended"
  /\ UNCHANGED <<guard, holds, cancelled, transmit, countVars>>

-----------------------------------------------------------------------------
(* UdpSysGuard::close *)
BeginClose ==
  /\ guard = "live"
  /\ guard' = "joinTransmit" /\ cancelled' = TRUE
  /\ UNCHANGED <<holds, transmit, recv, countVars>>

(* Mutation of TransmitJoined: the system is not dropped before the second wait. *)
TransmitJoinedHolding ==
  /\ guard = "joinTransmit" /\ transmit = "ended"
  /\ guard' = "joinRecv"
  /\ UNCHANGED <<holds, cancelled, transmit, recv, countVars>>

(* The guard's own sender goes before it waits for the receiver. *)
TransmitJoined ==
  /\ guard = "joinTransmit" /\ transmit = "ended"
  /\ guard' = "joinRecv" /\ holds' = FALSE
  /\ UNCHANGED <<cancelled, transmit, recv, countVars>>

RecvJoined ==
  /\ guard = "joinRecv" /\ recv = "ended"
  /\ guard' = "closed"
  /\ UNCHANGED <<holds, cancelled, transmit, recv, countVars>>

(* Drop, of a guard nobody closed or of one whose close() was given up. *)
DropGuard ==
  /\ guard \in {"live", "joinTransmit", "joinRecv"}
  /\ guard' = "dropped" /\ holds' = FALSE /\ cancelled' = TRUE
  /\ UNCHANGED <<transmit, recv, countVars>>

TaskStep == TransmitStops \/ SenderClosed
CloseStep == TransmitJoined \/ RecvJoined

RadarNext ==
  \/ Arrive \/ Transmit \/ Process \/ TaskStep \/ BeginClose \/ CloseStep \/ DropGuard

RadarSpec == RadarInit /\ [][RadarNext]_radarVars

-----------------------------------------------------------------------------
(* A guard that closed left no task behind, and no detection that was taken into the
   channel is lost, whichever way it ends (UdpSysGuard::close, RecvEnd). *)
RadarInv ==
  /\ accepted = processed + detections /\ detections <= Bound
  /\ guard = "closed" => transmit = "ended" /\ recv = "ended" /\ processed = accepted
  /\ recv = "ended" => transmit = "ended" /\ processed = accepted

(* close() returns, and a guard that is dropped takes both tasks with it. *)
RadarEnds ==
  guard # "live" => transmit = "ended" /\ recv = "ended" /\ guard \in {"closed", "dropped"}
=============================================================================
