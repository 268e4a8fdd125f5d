----------------------------- MODULE StationServer -----------------------------
(***************************************************************************)
(* The ground station server of module4/part1/connection_processing.rs: an *)
(* accept loop, a handler per connection, and the bounded channel to the   *)
(* consumer.  A frame is the number its station gave it.                   *)
(***************************************************************************)
EXTENDS Integers, Sequences

CONSTANTS GroundStations,  \* the stations, each of which connects once
          ChannelSize,     \* room of the frame channel
          MaxNumbered,     \* bound on the frames of a station
          NoFrame          \* "no frame"

ASSUME StationAssumption ==
  ChannelSize \in Nat /\ MaxNumbered \in Nat /\ NoFrame \notin Nat

VARIABLES
  server,    \* run_tcp_server: "accepting" or "returned"
  shutdown,  \* the watch channel
  reader,    \* per station: "none", "backlog", "reading", "sending", "ended"
  frame,     \* the frame a handler is sending
  incoming,  \* frames the station sent that were not read
  silent,    \* the station closed its end, was cut off or says nothing any more
  channel,   \* frames in the channel, each with its station
  consumer,  \* "receiving" or "gone"
  numbered,  \* the last frame that each station sent
  consumed   \* the last frame of each station that was received
stationVars == <<server, shutdown, reader, frame, incoming, silent, channel,
                 consumer, numbered, consumed>>
wireVars == <<incoming, silent, numbered>>
consumerVars == <<consumer, consumed>>

StationInit ==
  /\ server = "accepting" /\ shutdown = FALSE
  /\ reader = [s \in GroundStations |-> "none"]
  /\ frame = [s \in GroundStations |-> NoFrame]
  /\ incoming = [s \in GroundStations |-> <<>>]
  /\ silent = [s \in GroundStations |-> FALSE]
  /\ channel = <<>> /\ consumer = "receiving"
  /\ numbered = [s \in GroundStations |-> 0]
  /\ consumed = [s \in GroundStations |-> 0]

-----------------------------------------------------------------------------
(* The stations, the operator and the consumer. *)

StationConnects(s) ==
  /\ reader[s] = "none" /\ server = "accepting"
  /\ reader' = [reader EXCEPT ![s] = "backlog"]
  /\ UNCHANGED <<server, shutdown, frame, wireVars, channel, consumerVars>>

StationSends(s) ==
  /\ reader[s] \notin {"none", "ended"} /\ ~silent[s] /\ numbered[s] < MaxNumbered
  /\ numbered' = [numbered EXCEPT ![s] = @ + 1]
  /\ incoming' = [incoming EXCEPT ![s] = Append(@, numbered[s] + 1)]
  /\ UNCHANGED <<server, shutdown, reader, frame, silent, channel, consumerVars>>

StationFallsSilent(s) ==
  /\ reader[s] \notin {"none", "ended"} /\ ~silent[s]
  /\ silent' = [silent EXCEPT ![s] = TRUE]
  /\ UNCHANGED <<server, shutdown, reader, frame, incoming, numbered, channel, consumerVars>>

SignalShutdown ==
  /\ ~shutdown
  /\ shutdown' = TRUE
  /\ UNCHANGED <<server, reader, frame, wireVars, channel, consumerVars>>

Consume ==
  /\ consumer = "receiving" /\ channel # <<>>
  /\ consumed' = [consumed EXCEPT ![Head(channel)[1]] = Head(channel)[2]]
  /\ channel' = Tail(channel)
  /\ UNCHANGED <<server, shutdown, reader, frame, wireVars, consumer>>

(* The consumer of the example ends at a payload that is not UTF-8. *)
ConsumerGoes ==
  /\ consumer = "receiving"
  /\ consumer' = "gone" /\ channel' = <<>>
  /\ UNCHANGED <<server, shutdown, reader, frame, wireVars, consumed>>

-----------------------------------------------------------------------------
(* run_tcp_server *)

SpawnHandler(s) ==
  /\ server = "accepting" /\ reader[s] = "backlog"
  /\ reader' = [reader EXCEPT ![s] = "reading"]
  /\ UNCHANGED <<server, shutdown, frame, wireVars, channel, consumerVars>>

(* The loop ends and returns without its handlers; the backlog is closed. *)
StopAccepting ==
  /\ server = "accepting" /\ shutdown
  /\ server' = "returned"
  /\ reader' = [s \in GroundStations |->
                  IF reader[s] = "backlog" THEN "ended" ELSE reader[s]]
  /\ UNCHANGED <<shutdown, frame, wireVars, channel, consumerVars>>

-----------------------------------------------------------------------------
(* connection_handler *)

ReadStationFrame(s) ==
  /\ reader[s] = "reading" /\ incoming[s] # <<>>
  /\ reader' = [reader EXCEPT ![s] = "sending"]
  /\ frame' = [frame EXCEPT ![s] = Head(incoming[s])]
  /\ incoming' = [incoming EXCEPT ![s] = Tail(@)]
  /\ UNCHANGED <<server, shutdown, silent, numbered, channel, consumerVars>>

Release(s, where) ==
  /\ reader' = [reader EXCEPT ![s] = where]
  /\ frame' = [frame EXCEPT ![s] = NoFrame]

(* frame_tx.send waits for room, whatever the shutdown says. *)
ForwardFrame(s) ==
  /\ reader[s] = "sending" /\ consumer = "receiving" /\ Len(channel) < ChannelSize
  /\ channel' = Append(channel, <<s, frame[s]>>)
  /\ Release(s, "reading")
  /\ UNCHANGED <<server, shutdown, wireVars, consumerVars>>

ForwardFails(s) ==
  /\ reader[s] = "sending" /\ consumer = "gone"
  /\ Release(s, "ended")
  /\ UNCHANGED <<server, shutdown, wireVars, channel, consumerVars>>

(* End of the stream, sixty seconds without a frame, or a read error, which loses
   what was on its way. *)
SessionEnds(s) ==
  /\ reader[s] = "reading" /\ silent[s]
  /\ Release(s, "ended")
  /\ incoming' = [incoming EXCEPT ![s] = <<>>]
  /\ UNCHANGED <<server, shutdown, silent, numbered, channel, consumerVars>>

(* Mutation of HandlerSeesShutdown: a frame that waits for room is given up. *)
HandlerSeesShutdownSending(s) ==
  /\ reader[s] \in {"reading", "sending"} /\ shutdown
  /\ Release(s, "reading")
  /\ UNCHANGED <<server, shutdown, wireVars, channel, consumerVars>>

(* The biased select looks at the shutdown when there is nothing to read. *)
HandlerSeesShutdown(s) ==
  /\ reader[s] = "reading" /\ incoming[s] = <<>> /\ shutdown
  /\ Release(s, "ended")
  /\ UNCHANGED <<server, shutdown, wireVars, channel, consumerVars>>

StationHandlerStep(s) ==
  \/ ReadStationFrame(s) \/ ForwardFrame(s) \/ ForwardFails(s)
  \/ SessionEnds(s) \/ HandlerSeesShutdown(s)

StationNext ==
  \/ SignalShutdown \/ StopAccepting \/ Consume \/ ConsumerGoes
  \/ \E s \in GroundStations :
       SpawnHandler(s) \/ StationHandlerStep(s)
       \/ StationConnects(s) \/ StationSends(s) \/ StationFallsSilent(s)

StationSpec == StationInit /\ [][StationNext]_stationVars

-----------------------------------------------------------------------------
InChannel(s) == {channel[i][2] : i \in {j \in DOMAIN channel : channel[j][1] = s}}

(* The last frame of the station that its handler is done with. *)
Forwarded(s) == numbered[s] - Len(incoming[s]) - (IF frame[s] = NoFrame THEN 0 ELSE 1)

(* The frames of a station are received in order and without a gap while the consumer
   is there: what was consumed, what is in the channel, what the handler holds and
   what is unread follow each other, shutdown or not, up to the last frame sent
   unless the connection broke (connection_handler). *)
StationInv ==
  /\ Len(channel) <= ChannelSize
  /\ \A s \in GroundStations :
       /\ reader[s] = "sending" <=> frame[s] # NoFrame
       /\ frame[s] # NoFrame => frame[s] = Forwarded(s) + 1
       /\ \A i \in DOMAIN incoming[s] :
            incoming[s][i] = numbered[s] - Len(incoming[s]) + i
       /\ consumer = "receiving" =>
            /\ \E last \in 0..numbered[s] :
                 /\ InChannel(s) = (consumed[s] + 1)..last /\ consumed[s] <= last
                 /\ reader[s] # "ended" \/ incoming[s] # <<>> => last = Forwarded(s)
            /\ \A i, j \in DOMAIN channel :
                 i < j /\ channel[i][1] = s /\ channel[j][1] = s =>
                   channel[i][2] < channel[j][2]

(* After a shutdown the server returns and every handler ends, those that wait for
   room included, if the stations pause. *)
StationEnds ==
  shutdown =>
    server = "returned" /\ \A s \in GroundStations : reader[s] \in {"none", "ended"}
=============================================================================
