------------------------------ MODULE GroundLink ------------------------------
(***************************************************************************)
(* A ground station and its mission control link: the client of            *)
(* module4/project4/gs_client.rs with its TLE refresh task and its frame   *)
(* consumer, the server of gs_server.rs, and the connection between them   *)
(* (frame.rs).  Seconds pass only while the client sleeps or connects.     *)
(***************************************************************************)
EXTENDS Integers

CONSTANTS Window,        \* the reconnect window in seconds (300)
          ConnectTimes,  \* how long a failing connect may take
          MaxInFlight,   \* bound on the frames in flight
          QueueSize      \* room of the frame channel (256)

ASSUME LinkAssumption ==
  /\ Window \in Nat /\ ConnectTimes \subseteq Nat
  /\ MaxInFlight \in Nat /\ QueueSize \in Nat

VARIABLES
  client,   \* where run_client is
  attempt,  \* its attempt counter
  elapsed,  \* start_at.elapsed()
  session,  \* the SessionState that is published
  refresh,  \* where the TLE refresh task of the session is
  tries,    \* the attempts of fetch_tle
  stopped,  \* the session_shutdown watch
  queued,   \* frames in the channel to frame_receiver
  conn,     \* the connection: "none", "backlog", "open", "closed" (by the server)
  wire,     \* frames the server sent that the client has not read
  goodbye,  \* GOODBYE is on its way to the server
  hungUp,   \* the client has shut its half of the stream
  serving,  \* the accept loops that run
  quit      \* who was told to shut down
linkVars == <<client, attempt, elapsed, session, refresh, tries, stopped, queued,
              conn, wire, goodbye, hungUp, serving, quit>>
connVars == <<conn, wire, goodbye, hungUp>>
refreshVars == <<refresh, tries, stopped>>

LinkInit ==
  /\ client = "top" /\ attempt = 0 /\ elapsed = 0 /\ session = "Stopped"
  /\ refresh = "none" /\ tries = 0 /\ stopped = FALSE /\ queued = 0
  /\ conn = "none" /\ wire = 0 /\ goodbye = FALSE /\ hungUp = FALSE
  /\ serving = {"tcp", "http"} /\ quit = {}

(* backoff_delay, jitter left out: 2 to the power of n, with n capped at 5. *)
BackoffDelay(n) == <<1, 2, 4, 8, 16, 32>>[(IF n < 5 THEN n ELSE 5) + 1]

Quit(side) ==
  /\ side \notin quit
  /\ quit' = quit \union {side}
  /\ UNCHANGED <<client, attempt, elapsed, session, refreshVars, queued, connVars, serving>>

-----------------------------------------------------------------------------
(* The loop of run_client. *)
Top ==
  /\ client = "top"
  /\ CASE "client" \in quit -> client' = "ended" /\ UNCHANGED session
       [] "client" \notin quit /\ elapsed > Window ->
            client' = "ended" /\ session' = "Failed"
       [] OTHER -> client' = "connect" /\ session' = "Connecting"
  /\ UNCHANGED <<attempt, elapsed, refreshVars, queued, connVars, serving, quit>>

(* The listener's backlog takes the connection; run_session starts its refresh task. *)
ConnectOk ==
  /\ client = "connect" /\ "tcp" \in serving /\ conn = "none"
  /\ client' = "session" /\ attempt' = 0 /\ session' = "Connected"
  /\ conn' = "backlog" /\ wire' = 0 /\ goodbye' = FALSE /\ hungUp' = FALSE
  /\ refresh' = "tick" /\ tries' = 0 /\ stopped' = FALSE
  /\ UNCHANGED <<elapsed, queued, serving, quit>>

Reconnect ==
  /\ client' = "sleep" /\ attempt' = attempt + 1 /\ session' = "Reconnecting"

ClientConnectFails ==
  /\ client = "connect"
  /\ \E d \in ConnectTimes : elapsed' = elapsed + d
  /\ Reconnect
  /\ UNCHANGED <<refreshVars, queued, connVars, serving, quit>>

(* Nothing interrupts the sleep. *)
ClientWakes ==
  /\ client = "sleep"
  /\ client' = "top" /\ elapsed' = elapsed + BackoffDelay(attempt)
  /\ UNCHANGED <<attempt, session, refreshVars, queued, connVars, serving, quit>>

(* read_frame has a frame; one that the pipeline has no room for is dropped. *)
ClientReadsFrame ==
  /\ client = "session" /\ wire > 0
  /\ wire' = wire - 1
  /\ queued' = IF queued < QueueSize THEN queued + 1 ELSE queued
  /\ UNCHANGED <<client, attempt, elapsed, session, refreshVars, conn, goodbye, hungUp,
                 serving, quit>>

LeaveSession == client' = "join" /\ stopped' = TRUE

(* The peer closed, the read failed (what was on its way is lost), or nothing came for
   60 seconds. *)
SessionLost ==
  /\ client = "session"
  /\ LeaveSession /\ wire' = 0
  /\ UNCHANGED <<attempt, elapsed, session, refresh, tries, queued, conn, goodbye, hungUp,
                 serving, quit>>

(* The select is biased: the shutdown is seen when there is nothing to read. *)
SayGoodbye ==
  /\ client = "session" /\ wire = 0 /\ conn # "closed" /\ "client" \in quit
  /\ LeaveSession
  /\ goodbye' = TRUE /\ hungUp' = TRUE
  /\ UNCHANGED <<attempt, elapsed, session, refresh, tries, queued, conn, wire, serving, quit>>

(* Mutation of EndSession: the refresh task is left running. *)
EndSessionAtOnce ==
  /\ client = "join"
  /\ elapsed' = 0 /\ hungUp' = TRUE
  /\ conn' = IF conn = "closed" THEN "none" ELSE conn
  /\ IF "client" \in quit
     THEN client' = "ended" /\ UNCHANGED <<attempt, session>>
     ELSE Reconnect
  /\ UNCHANGED <<refreshVars, queued, wire, goodbye, serving, quit>>

(* The refresh task is awaited before the session ends and its stream is dropped. *)
EndSession ==
  /\ client = "join" /\ refresh = "none"
  /\ elapsed' = 0 /\ hungUp' = TRUE
  /\ conn' = IF conn = "closed" THEN "none" ELSE conn
  /\ IF "client" \in quit
     THEN client' = "ended" /\ UNCHANGED <<attempt, session>>
     ELSE Reconnect
  /\ UNCHANGED <<refreshVars, queued, wire, goodbye, serving, quit>>

ClientStep ==
  Top \/ ConnectOk \/ ClientConnectFails \/ ClientWakes \/ ClientReadsFrame \/ SayGoodbye
  \/ EndSession

-----------------------------------------------------------------------------
(* The refresh task looks at the shutdown of its session between two fetches only. *)
RefreshTick ==
  /\ refresh = "tick"
  /\ refresh' = "fetch" /\ tries' = 1
  /\ UNCHANGED <<client, attempt, elapsed, session, stopped, queued, connVars, serving, quit>>

RefreshStops ==
  /\ refresh = "tick" /\ stopped
  /\ refresh' = "none" /\ tries' = 0
  /\ UNCHANGED <<client, attempt, elapsed, session, stopped, queued, connVars, serving, quit>>

(* fetch_tle: a server error, a refused connection or a timeout is tried again,
   three times in all; any other answer or error ends the fetch. *)
FetchReturns ==
  /\ refresh = "fetch"
  /\ \/ tries < 3 /\ tries' = tries + 1 /\ UNCHANGED refresh
     \/ refresh' = "tick" /\ tries' = 0
  /\ UNCHANGED <<client, attempt, elapsed, session, stopped, queued, connVars, serving, quit>>

FrameReceiver ==
  /\ queued > 0
  /\ queued' = queued - 1
  /\ UNCHANGED <<client, attempt, elapsed, session, refreshVars, connVars, serving, quit>>

-----------------------------------------------------------------------------
(* tcp_task spawns run_connection. *)
TcpAccept ==
  /\ conn = "backlog" /\ "tcp" \in serving
  /\ conn' = "open"
  /\ UNCHANGED <<client, attempt, elapsed, session, refreshVars, queued, wire, goodbye,
                 hungUp, serving, quit>>

(* The server ends its side: half-close, then the stream is dropped. *)
Close == conn' = IF hungUp /\ client # "session" THEN "none" ELSE "closed"

(* The accept loop of tcp_task or of http_task ends and drops its listener, with what
   is in its backlog. *)
LeaveAcceptLoop(l) ==
  /\ l \in serving
  /\ serving' = serving \ {l}
  /\ IF l = "tcp" /\ conn = "backlog" THEN Close ELSE UNCHANGED conn
  /\ UNCHANGED <<client, attempt, elapsed, session, refreshVars, queued, wire, goodbye,
                 hungUp, quit>>

AcceptLoopStops(l) == "server" \in quit /\ LeaveAcceptLoop(l)

(* An error of accept() ends the loop as well. *)
AcceptLoopFails(l) == "server" \notin quit /\ LeaveAcceptLoop(l)

(* run_connection: a tick writes a frame, and fails if the client has gone. *)
ServerTick ==
  /\ conn = "open"
  /\ \/ wire < MaxInFlight /\ wire' = wire + 1 /\ UNCHANGED conn
     \/ hungUp /\ Close /\ UNCHANGED wire
  /\ UNCHANGED <<client, attempt, elapsed, session, refreshVars, queued, goodbye, hungUp,
                 serving, quit>>

(* It reads GOODBYE as any message, and ends at the end of the stream. *)
ServerReads ==
  /\ conn = "open"
  /\ \/ goodbye /\ goodbye' = FALSE /\ UNCHANGED conn
     \/ ~goodbye /\ hungUp /\ Close /\ UNCHANGED goodbye
  /\ UNCHANGED <<client, attempt, elapsed, session, refreshVars, queued, wire, hungUp,
                 serving, quit>>

(* "server shut down" is one more frame for the client. *)
ServerQuits ==
  /\ conn = "open" /\ "server" \in quit
  /\ wire' = IF client = "session" THEN wire + 1 ELSE wire
  /\ Close
  /\ UNCHANGED <<client, attempt, elapsed, session, refreshVars, queued, goodbye, hungUp,
                 serving, quit>>

(* main returns when both accept loops have, and no connection outlives it. *)
ServerExits ==
  /\ serving = {} /\ conn = "open"
  /\ Close
  /\ UNCHANGED <<client, attempt, elapsed, session, refreshVars, queued, wire, goodbye,
                 hungUp, serving, quit>>

ServerStep == TcpAccept \/ ServerReads \/ ServerQuits \/ ServerExits

LinkNext ==
  \/ ClientStep \/ SessionLost \/ RefreshTick \/ RefreshStops \/ FetchReturns \/ FrameReceiver
  \/ ServerStep \/ ServerTick
  \/ \E l \in serving : AcceptLoopStops(l) \/ AcceptLoopFails(l)
  \/ \E side \in {"client", "server"} : Quit(side)

LinkSpec == LinkInit /\ [][LinkNext]_linkVars

-----------------------------------------------------------------------------
(* What is published agrees with what happens: connected in a session, failed only
   after the window and as many failures in a row as its delays have room for,
   thirteen in 300 seconds; a client that ended otherwise was told to; and no refresh
   task outlives its session (run_client, run_session). *)
LinkInv ==
  /\ client = "session" => session = "Connected" /\ attempt = 0
  /\ session = "Failed" => client = "ended" /\ elapsed > Window
  /\ client = "ended" /\ session # "Failed" => "client" \in quit
  /\ 32 * attempt <= Window + 130
  /\ refresh # "none" => client \in {"session", "join"}
  /\ goodbye => "client" \in quit

(* The state of a client that looks for its server: it finds it, or gives up. *)
LinkConnecting == client \in {"top", "connect", "sleep"}

(* A client that is told to stop ends, and a server that is told to stop serves
   nobody in the end (run_client, tcp_task, run_connection). *)
LinkEnds ==
  /\ "client" \in quit => client = "ended"
  /\ "server" \in quit => serving = {} /\ conn \in {"none", "closed"}
=============================================================================
