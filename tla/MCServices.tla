------------------------------- MODULE MCServices -------------------------------
(***************************************************************************)
(* The services around the pipeline for TLC: the expiring store, the       *)
(* ground link, the batching server and its framing, the aggregator, the   *)
(* radar feed, the broker and the station server.  They share nothing, so  *)
(* a behaviour is one of them, chosen at the start; the variables of the   *)
(* others do not change.                                                   *)
(***************************************************************************)
EXTENDS ExpiringDb, GroundLink, BatchServer, FrameStream, Aggregator, RadarFeed,
        Broker, StationServer

CONSTANTS s1, s2    \* keys, setters, clients, callers, handlers, stations: two of each

VARIABLE service

Peers == {s1, s2}
MCDurations == 0..2

servicesVars == <<service, dbVars, linkVars, batchVars, streamVars, aggVars, radarVars,
                  brokerVars, stationVars>>

(* Two headers of one kind and different age, one of another kind, one in error. *)
MCHeaders ==
  {[satellite_id |-> 1, sequence |-> 1, timestamp_ms |-> 1, error |-> FALSE],
   [satellite_id |-> 1, sequence |-> 1, timestamp_ms |-> 2, error |-> FALSE],
   [satellite_id |-> 2, sequence |-> 1, timestamp_ms |-> 1, error |-> FALSE],
   [satellite_id |-> 2, sequence |-> 1, timestamp_ms |-> 1, error |-> TRUE]}

(* Frames with and without a length, with line ends and halves of them inside. *)
MCFrames ==
  {[count |-> 0, payload |-> <<>>], [count |-> 0, payload |-> <<13>>],
   [count |-> 0, payload |-> <<10>>], [count |-> 1, payload |-> <<13>>],
   [count |-> 2, payload |-> <<13, 10>>], [count |-> 2, payload |-> <<65, 13>>]}

ServicesInit ==
  /\ service \in {"db", "link", "batch", "stream", "aggregator", "radar", "broker", "station"}
  /\ DbInit /\ LinkInit /\ BatchInit /\ StreamInit
  /\ AggInit /\ RadarInit /\ BrokerInit /\ StationInit

(* The service is s, and the variables of the others stay as they are. *)
Only(s) ==
  /\ service = s /\ UNCHANGED service
  /\ (s # "db" => UNCHANGED dbVars)
  /\ (s # "link" => UNCHANGED linkVars)
  /\ (s # "batch" => UNCHANGED batchVars)
  /\ (s # "stream" => UNCHANGED streamVars)
  /\ (s # "aggregator" => UNCHANGED aggVars)
  /\ (s # "radar" => UNCHANGED radarVars)
  /\ (s # "broker" => UNCHANGED brokerVars)
  /\ (s # "station" => UNCHANGED stationVars)

ServicesNext ==
  \/ Only("db") /\ DbNext
  \/ Only("link") /\ LinkNext
  \/ Only("batch") /\ BatchNext
  \/ Only("stream") /\ StreamNext
  \/ Only("aggregator") /\ AggNext
  \/ Only("radar") /\ RadarNext
  \/ Only("broker") /\ BrokerNext
  \/ Only("station") /\ StationNext

-----------------------------------------------------------------------------
Its(s) == service = s /\ service' = s

(* The variables that change. *)
activeVars == CASE service = "db" -> dbVars
                [] service = "link" -> linkVars
                [] service = "batch" -> batchVars
                [] service = "stream" -> streamVars
                [] service = "aggregator" -> aggVars
                [] service = "radar" -> radarVars
                [] service = "broker" -> brokerVars
                [] service = "station" -> stationVars

(* Tasks run on.  The actions of different services share a definition, since only
   one of them can be enabled. *)
Working ==
  \/ Its("db") /\ PurgeTask
  \/ Its("link") /\ ClientStep
  \/ Its("batch") /\ Drained
  \/ Its("aggregator") /\ ActorStep
  \/ Its("radar") /\ TaskStep
  \/ Its("broker") /\ StopBroker
  \/ Its("station") /\ StopAccepting

Helping ==
  \/ Its("db") /\ Notifications
  \/ Its("link") /\ ServerStep
  \/ Its("radar") /\ Process
  \/ Its("broker") /\ AllDrained
  \/ Its("station") /\ Consume

Finishing ==
  \/ Its("link") /\ FetchReturns
  \/ Its("radar") /\ CloseStep

Leaving ==
  \/ Its("link") /\ \E l \in serving : AcceptLoopStops(l)

(* A connection that was closed is noticed. *)
Noticing == Its("link") /\ conn = "closed" /\ SessionLost

PeerWorking(p) ==
  \/ Its("batch") /\ ConnectionStep(p)
  \/ Its("broker") /\ ~Exited /\ ReceiverStep(p)
  \/ Its("station") /\ StationHandlerStep(p)

PeerTurning(p) ==
  \/ Its("batch") /\ (ConnectSender(p) \/ SenderConnectFails(p))
  \/ Its("broker") /\ ~Exited /\ (SessionSeesShutdown(p) \/ ConnectionClosed(p))

PeerWaking(p) == Its("batch") /\ SenderWakes(p)

(* A select looks at its branches again and again, in random order where it is not
   biased, and a ticker is due once a period and not at every look: the branch
   beside it is taken if it is ready time and again.  A channel with room takes the
   send that waits longest. *)
PeerPatient(p) ==
  \/ Its("batch") /\ RecvShutdown(p)
  \/ Its("aggregator") /\ SendRequest(p)
  \/ Its("station") /\ (ForwardFrame(p) \/ ForwardFails(p))

SessionPatient == Its("link") /\ (SayGoodbye \/ EndSession)
RefreshPatient == Its("link") /\ RefreshStops
ServerPatient == Its("link") /\ ServerQuits

ServicesFairness ==
  /\ WF_activeVars(Working) /\ WF_activeVars(Helping) /\ WF_activeVars(Finishing)
  /\ WF_activeVars(Leaving) /\ WF_activeVars(Noticing)
  /\ \A p \in Peers : WF_activeVars(PeerWorking(p)) /\ WF_activeVars(PeerTurning(p))
                      /\ WF_activeVars(PeerWaking(p))
  /\ SF_activeVars(PeerPatient(s1) \/ SessionPatient)
  /\ SF_activeVars(PeerPatient(s2) \/ RefreshPatient)
  /\ SF_activeVars(ServerPatient)

ServicesSpec == ServicesInit /\ [][ServicesNext]_servicesVars /\ ServicesFairness

-----------------------------------------------------------------------------
(* Nobody waits for ever: a key that has expired for its purge, a client for its
   server or for the end of its window, a caller of the aggregator for its answer. *)
RequestsServed ==
  /\ \A p \in Peers :
       []<>(~Overdue(p) /\ ~Waiting(p) /\ (service = "batch" => ~SenderConnecting(p)))
  /\ []<>(service = "link" => ~LinkConnecting)

(* Each service ends when it is told to.  What it is told stays, and so does its end,
   so this says that the one leads to the other. *)
ServicesEnd ==
  []<>(/\ PurgeTaskEnds /\ LinkEnds /\ BatchEnds /\ AggEnds
       /\ RadarEnds /\ BrokerEnds /\ StationEnds)
=============================================================================
