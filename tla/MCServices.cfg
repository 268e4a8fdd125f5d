SPECIFICATION ServicesSpec
CONSTANTS
  s1 = s1
  s2 = s2
  Keys <- Peers
  Setters <- Peers
  Durations <- MCDurations
  MaxTime = 3
  Never = Never
  Window = 300
  ConnectTimes = {0, 100}
  MaxInFlight = 1
  QueueSize = 1
  Clients <- Peers
  MaxConnections = 1
  BatchSize = 2
  Headers <- MCHeaders
  MaxUnread = 1
  RetryWindow = 180
  AttemptTimes = {0, 100}
  HeaderSize = 2
  Frames <- MCFrames
  MaxWritten = 2
  Callers <- Peers
  MailboxSize = 2
  MaxBuffer = 2
  MaxSent = 4
  Bound = 2
  MaxDatagrams = 4
  Stations <- Peers
  Handlers <- Peers
  Retained = 1
  MaxBroadcast = 3
  GroundStations <- Peers
  ChannelSize = 1
  MaxNumbered = 2
  NoFrame = NoFrame
INVARIANTS
  DbInv
  LinkInv
  BatchInv
  StreamInv
  AggInv
  RadarInv
  BrokerInv
  StationInv
PROPERTIES
  RequestsServed
  ServicesEnd
CHECK_DEADLOCK FALSE
