--------------------------------- MODULE Broker ---------------------------------
(***************************************************************************)
(* The telemetry broker of module 1 (module1/project1.rs and               *)
(* bin/async_telemetry_broker.rs): a session task per station that puts    *)
(* what it reads into a broadcast channel, handler tasks that receive from *)
(* it, and a main task that accepts, and drains all of them on shutdown.   *)
(***************************************************************************)
EXTENDS Integers

CONSTANTS Stations,     \* the stations that connect, each of them once
          Handlers,     \* the downstream handlers (5)
          Retained,     \* frames that the broadcast channel keeps (256)
          MaxBroadcast  \* bound on the frames that are broadcast

ASSUME BrokerAssumption == Retained \in Nat

VARIABLES
  main,      \* "accept", "drain", "drained" or "forced"
  ctrlC,     \* the watch channel
  sessions,  \* per station "none", "backlog", "reading", "ended"
  half,      \* half a frame of the station was read
  gone,      \* the station has closed its end
  tail,      \* frames broadcast so far
  receiver,  \* of each handler: "receiving" or "ended"
  cursor,    \* its position in the channel
  got,       \* the frames it received
  missed     \* the frames it was told it missed
brokerVars == <<main, ctrlC, sessions, half, gone, tail, receiver, cursor, got, missed>>
sessionVars == <<sessions, half, gone>>
receiverVars == <<receiver, cursor, got, missed>>

BrokerInit ==
  /\ main = "accept" /\ ctrlC = FALSE
  /\ sessions = [s \in Stations |-> "none"]
  /\ half = [s \in Stations |-> FALSE] /\ gone = [s \in Stations |-> FALSE]
  /\ tail = 0
  /\ receiver = [h \in Handlers |-> "receiving"]
  /\ cursor = [h \in Handlers |-> 0]
  /\ got = [h \in Handlers |-> 0] /\ missed = [h \in Handlers |-> 0]

Exited == main \in {"drained", "forced"}

-----------------------------------------------------------------------------
(* The stations and the operator. *)

ConnectStation(s) ==
  /\ sessions[s] = "none" /\ ~Exited
  /\ sessions' = [sessions EXCEPT ![s] = "backlog"]
  /\ UNCHANGED <<main, ctrlC, half, gone, tail, receiverVars>>

Disconnect(s) ==
  /\ sessions[s] \in {"backlog", "reading"} /\ ~gone[s]
  /\ gone' = [gone EXCEPT ![s] = TRUE]
  /\ UNCHANGED <<main, ctrlC, sessions, half, tail, receiverVars>>

CtrlC ==
  /\ ~ctrlC
  /\ ctrlC' = TRUE
  /\ UNCHANGED <<main, sessionVars, tail, receiverVars>>

-----------------------------------------------------------------------------
(* handle_connection *)

(* read_frame has the length, or a part of the payload. *)
ReadHalf(s) ==
  /\ sessions[s] = "reading" /\ ~gone[s] /\ ~half[s] /\ tail < MaxBroadcast
  /\ half' = [half EXCEPT ![s] = TRUE]
  /\ UNCHANGED <<main, ctrlC, sessions, gone, tail, receiverVars>>

EndStationSession(s) ==
  /\ sessions' = [sessions EXCEPT ![s] = "ended"]
  /\ half' = [half EXCEPT ![s] = FALSE]
  /\ UNCHANGED <<main, ctrlC, gone, tail, receiverVars>>

(* The frame is complete; without a receiver the session ends. *)
Broadcast(s) ==
  /\ sessions[s] = "reading" /\ half[s] /\ tail < MaxBroadcast
  /\ IF \E h \in Handlers : receiver[h] = "receiving"
     THEN /\ tail' = tail + 1
          /\ half' = [half EXCEPT ![s] = FALSE]
          /\ UNCHANGED <<main, ctrlC, sessions, gone, receiverVars>>
     ELSE EndStationSession(s)

ConnectionClosed(s) ==
  /\ sessions[s] = "reading" /\ gone[s]
  /\ EndStationSession(s)

(* The select prefers a frame that is complete to the shutdown; half a frame is
   dropped with the future that was reading it. *)
SessionSeesShutdown(s) ==
  /\ sessions[s] = "reading" /\ ctrlC
  /\ EndStationSession(s)

-----------------------------------------------------------------------------
(* spawn_handler *)

(* The channel has overwritten frames: the cursor moves to the oldest one it has. *)
Lagged(h) ==
  /\ receiver[h] = "receiving" /\ tail - cursor[h] > Retained
  /\ cursor' = [cursor EXCEPT ![h] = tail - Retained]
  /\ missed' = [missed EXCEPT ![h] = @ + (tail - Retained - cursor[h])]
  /\ UNCHANGED <<main, ctrlC, sessionVars, tail, receiver, got>>

Receive(h) ==
  /\ receiver[h] = "receiving" /\ cursor[h] < tail /\ tail - cursor[h] <= Retained
  /\ cursor' = [cursor EXCEPT ![h] = @ + 1]
  /\ got' = [got EXCEPT ![h] = @ + 1]
  /\ UNCHANGED <<main, ctrlC, sessionVars, tail, receiver, missed>>

(* Mutation of Closed: the handler ends with frames left in the channel. *)
ClosedUnread(h) ==
  /\ receiver[h] = "receiving"
  /\ main # "accept" /\ \A s \in Stations : sessions[s] # "reading"
  /\ receiver' = [receiver EXCEPT ![h] = "ended"]
  /\ UNCHANGED <<main, ctrlC, sessionVars, tail, cursor, got, missed>>

(* The senders are those of the sessions and, until it drains, main's own. *)
Closed(h) ==
  /\ receiver[h] = "receiving" /\ cursor[h] = tail
  /\ main # "accept" /\ \A s \in Stations : sessions[s] # "reading"
  /\ receiver' = [receiver EXCEPT ![h] = "ended"]
  /\ UNCHANGED <<main, ctrlC, sessionVars, tail, cursor, got, missed>>

ReceiverStep(h) == Lagged(h) \/ Receive(h) \/ Closed(h)

-----------------------------------------------------------------------------
(* main *)

AcceptStation(s) ==
  /\ main = "accept" /\ sessions[s] = "backlog"
  /\ sessions' = [sessions EXCEPT ![s] = "reading"]
  /\ UNCHANGED <<main, ctrlC, half, gone, tail, receiverVars>>

(* It leaves the loop and drops its sender. *)
StopBroker ==
  /\ main = "accept" /\ ctrlC
  /\ main' = "drain"
  /\ UNCHANGED <<ctrlC, sessionVars, tail, receiverVars>>

(* The handlers are awaited first, then the sessions. *)
AllDrained ==
  /\ main = "drain"
  /\ \A h \in Handlers : receiver[h] = "ended"
  /\ \A s \in Stations : sessions[s] # "reading"
  /\ main' = "drained"
  /\ UNCHANGED <<ctrlC, sessionVars, tail, receiverVars>>

(* The ten seconds are over: the process exits with what is left. *)
Deadline ==
  /\ main = "drain"
  /\ main' = "forced"
  /\ UNCHANGED <<ctrlC, sessionVars, tail, receiverVars>>

BrokerNext ==
  \/ ~Exited /\ \/ CtrlC \/ StopBroker \/ AllDrained \/ Deadline
                \/ \E h \in Handlers : ReceiverStep(h)
                \/ \E s \in Stations :
                     \/ ReadHalf(s) \/ Broadcast(s) \/ ConnectionClosed(s)
                     \/ SessionSeesShutdown(s) \/ AcceptStation(s) \/ ConnectStation(s) \/ Disconnect(s)

BrokerSpec == BrokerInit /\ [][BrokerNext]_brokerVars

-----------------------------------------------------------------------------
(* Each frame up to its cursor was received by a handler or counted as missed, and the
   frames counted as missed are none of those the channel keeps: it has broadcast
   as many more; a handler ends only with every frame behind it; a clean drain leaves
   no session reading, and half a frame is held only by a session that reads
   (spawn_handler, handle_connection, main). *)
BrokerInv ==
  /\ \A h \in Handlers :
       /\ got[h] + missed[h] = cursor[h] /\ cursor[h] <= tail
       /\ missed[h] > 0 => missed[h] + Retained <= tail
       /\ receiver[h] = "ended" => cursor[h] = tail
  /\ main = "drained" => \A s \in Stations : sessions[s] # "reading"
  /\ \A s \in Stations : half[s] => sessions[s] = "reading"

(* After a shutdown the broker exits. *)
BrokerEnds == ctrlC => Exited
=============================================================================
