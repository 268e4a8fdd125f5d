------------------------------ MODULE BatchServer ------------------------------
(***************************************************************************)
(* The batching TCP server of module5/project5 and its clients: server.rs, *)
(* connection.rs, shutdown.rs, client.rs and the framing and filtering of  *)
(* frame.rs.  A connection has its client's name.                          *)
(***************************************************************************)
EXTENDS Integers, Sequences, FiniteSets

CONSTANTS Clients,         \* the client processes
          MaxConnections,  \* permits of the semaphore (256)
          BatchSize,       \* headers in a full batch (1000)
          Headers,         \* records: satellite_id, sequence, timestamp_ms, error
          MaxUnread,       \* bound on the frames a connection holds unread
          RetryWindow,     \* the client's reconnection window in seconds (180)
          AttemptTimes     \* seconds a failed connect takes, with the jitter of the delay
                           \* after it

ASSUME BatchAssumption ==
  /\ IsFiniteSet(Clients) /\ MaxConnections \in Nat /\ BatchSize \in Nat \ {0}
  /\ \A h \in Headers : h.timestamp_ms \in Nat /\ h.error \in BOOLEAN
  /\ MaxUnread \in Nat /\ RetryWindow \in Nat /\ AttemptTimes \subseteq Nat

VARIABLES
  listener,  \* Listener::run: "acquire", "accept"; then "draining" and "done"
  permits,   \* permits left in limit_connections
  handler,   \* the handler task of each connection
  batch,     \* the valid headers it has collected
  link,      \* the connection: "none", "backlog", "open", "over"
  unread,    \* the frames sent and not read, in order
  sender,    \* where each client is
  retries,   \* its attempt counter
  waited     \* start.elapsed() of Client::connect
batchVars == <<listener, permits, handler, batch, link, unread, sender, retries, waited>>
serverVars == <<listener, permits, handler, batch>>
clientVars == <<sender, retries, waited>>

BatchInit ==
  /\ listener = "acquire" /\ permits = MaxConnections
  /\ handler = [c \in Clients |-> "none"] /\ batch = [c \in Clients |-> <<>>]
  /\ link = [c \in Clients |-> "none"]
  /\ unread = [c \in Clients |-> <<>>]
  /\ sender = [c \in Clients |-> "connect"]
  /\ retries = [c \in Clients |-> 0] /\ waited = [c \in Clients |-> 0]

-----------------------------------------------------------------------------
(* What a full batch becomes. *)

(* The first header of each (satellite_id, sequence). *)
DeduplicateIndices(headers) ==
  {i \in DOMAIN headers :
     \A j \in 1..(i - 1) : \/ headers[j].satellite_id # headers[i].satellite_id
                           \/ headers[j].sequence # headers[i].sequence}

(* Any order of them by time: the sort is not stable. *)
SortIndicesByTimestamp(indices, headers) ==
  {s \in [1..Cardinality(indices) -> indices] :
     /\ \A i \in indices : \E j \in DOMAIN s : s[j] = i
     /\ \A i, j \in DOMAIN s :
          i < j => headers[s[i]].timestamp_ms <= headers[s[j]].timestamp_ms}

-----------------------------------------------------------------------------
(* Listener *)

(* A permit first, then a connection. *)
Acquire ==
  /\ listener = "acquire" /\ permits > 0
  /\ listener' = "accept" /\ permits' = permits - 1
  /\ UNCHANGED <<handler, batch, link, unread, clientVars>>

AcceptConnection(c) ==
  /\ listener = "accept" /\ link[c] = "backlog"
  /\ listener' = "acquire"
  /\ link' = [link EXCEPT ![c] = "open"]
  /\ handler' = [handler EXCEPT ![c] = "reading"]
  /\ UNCHANGED <<permits, batch, unread, clientVars>>

(* Mutation of AcceptFails: the permit is kept. *)
AcceptFailsForgetting ==
  /\ listener = "accept"
  /\ listener' = "acquire"
  /\ UNCHANGED <<permits, handler, batch, link, unread, clientVars>>

(* accept() failed: its permit goes with the iteration. *)
AcceptFails ==
  /\ listener = "accept"
  /\ listener' = "acquire" /\ permits' = permits + 1
  /\ UNCHANGED <<handler, batch, link, unread, clientVars>>

(* The shutdown future wins: Listener::run is dropped where it is, then the senders. *)
StopServer ==
  /\ listener \in {"acquire", "accept"}
  /\ permits' = IF listener = "accept" THEN permits + 1 ELSE permits
  /\ listener' = "draining"
  /\ UNCHANGED <<handler, batch, link, unread, clientVars>>

Alive == {c \in Clients : handler[c] \in {"reading", "processing"}}

(* shutdown_complete_rx: the last handler's sender is gone, run returns and the
   listening socket is closed with its backlog. *)
Drained ==
  /\ listener = "draining" /\ Alive = {}
  /\ listener' = "done"
  /\ link' = [c \in Clients |-> IF link[c] = "backlog" THEN "over" ELSE link[c]]
  /\ UNCHANGED <<permits, handler, batch, unread, clientVars>>

-----------------------------------------------------------------------------
(* Handler::run *)

(* The handler returns; what it has collected goes with it, and its permit is
   given back whatever the result is. *)
HandlerEnds(c) ==
  /\ handler' = [handler EXCEPT ![c] = "ended"]
  /\ batch' = [batch EXCEPT ![c] = <<>>]
  /\ link' = [link EXCEPT ![c] = "over"]
  /\ permits' = permits + 1
  /\ UNCHANGED <<listener, unread, clientVars>>

CollectFrame(c) ==
  /\ handler[c] = "reading" /\ unread[c] # <<>>
  /\ LET header == Head(unread[c])
         collected == IF header.error THEN batch[c] ELSE Append(batch[c], header)
     IN /\ batch' = [batch EXCEPT ![c] = collected]
        /\ handler' = [handler EXCEPT ![c] =
                         IF Len(collected) >= BatchSize THEN "processing" ELSE "reading"]
  /\ unread' = [unread EXCEPT ![c] = Tail(@)]
  /\ UNCHANGED <<listener, permits, link, clientVars>>

(* The end of the stream: None, or an error if half a frame is before it. *)
ReadEnd(c) ==
  /\ handler[c] = "reading" /\ unread[c] = <<>> /\ sender[c] = "ended"
  /\ HandlerEnds(c)

(* read_frame fails: the connection was reset, or its framing is broken. *)
HandlerReadFails(c) ==
  /\ handler[c] = "reading"
  /\ HandlerEnds(c)

(* Shutdown::recv: the sender was dropped. *)
RecvShutdown(c) ==
  /\ handler[c] = "reading" /\ listener = "draining"
  /\ HandlerEnds(c)

(* spawn_blocking is awaited; its result is counted and the batch begins again. *)
Processed(c) ==
  /\ handler[c] = "processing"
  /\ handler' = [handler EXCEPT ![c] = "reading"]
  /\ batch' = [batch EXCEPT ![c] = <<>>]
  /\ UNCHANGED <<listener, permits, link, unread, clientVars>>

ConnectionStep(c) == CollectFrame(c) \/ ReadEnd(c) \/ RecvShutdown(c) \/ Processed(c)

-----------------------------------------------------------------------------
(* Client *)

(* backoff_delay_plus_jitter without its jitter, which is part of AttemptTimes: 2 to
   the power of n, capped at 5. *)
RetryDelay(n) == <<1, 2, 4, 8, 16, 32>>[(IF n < 5 THEN n ELSE 5) + 1]

ConnectSender(c) ==
  /\ sender[c] = "connect" /\ listener # "done"
  /\ sender' = [sender EXCEPT ![c] = "sending"]
  /\ retries' = [retries EXCEPT ![c] = 0] /\ waited' = [waited EXCEPT ![c] = 0]
  /\ link' = [link EXCEPT ![c] = "backlog"]
  /\ UNCHANGED <<serverVars, unread>>

(* TcpStream::connect has no timeout; it may take longer than the window. *)
SenderConnectFails(c) ==
  /\ sender[c] = "connect"
  /\ sender' = [sender EXCEPT ![c] = "sleep"]
  /\ retries' = [retries EXCEPT ![c] = @ + 1]
  /\ \E d \in AttemptTimes : waited' = [waited EXCEPT ![c] = @ + d]
  /\ UNCHANGED <<serverVars, link, unread>>

(* run waits for connect before it looks at its shutdown, and drops the sender
   that could interrupt the sleep after that. *)
SenderWakes(c) ==
  /\ sender[c] = "sleep"
  /\ LET w == waited[c] + RetryDelay(retries[c])
     IN /\ waited' = [waited EXCEPT ![c] = w]
        /\ sender' = [sender EXCEPT ![c] = IF w > RetryWindow THEN "ended" ELSE "connect"]
  /\ UNCHANGED <<serverVars, link, unread, retries>>

Send(c) ==
  /\ sender[c] = "sending" /\ link[c] # "over" /\ Len(unread[c]) < MaxUnread
  /\ \E h \in Headers : unread' = [unread EXCEPT ![c] = Append(@, h)]
  /\ UNCHANGED <<serverVars, link, clientVars>>

SendFails(c) ==
  /\ sender[c] = "sending" /\ link[c] = "over"
  /\ sender' = [sender EXCEPT ![c] = "ended"]
  /\ UNCHANGED <<serverVars, link, unread, retries, waited>>

(* The shutdown drops sending(), perhaps within a frame. *)
StopClient(c) ==
  /\ sender[c] = "sending"
  /\ sender' = [sender EXCEPT ![c] = "ended"]
  /\ UNCHANGED <<serverVars, link, unread, retries, waited>>

BatchNext ==
  \/ Acquire \/ AcceptFails \/ StopServer \/ Drained
  \/ \E c \in Clients :
       \/ AcceptConnection(c) \/ ConnectionStep(c) \/ HandlerReadFails(c)
       \/ ConnectSender(c) \/ SenderConnectFails(c) \/ SenderWakes(c)
       \/ Send(c) \/ SendFails(c) \/ StopClient(c)

BatchSpec == BatchInit /\ [][BatchNext]_batchVars

-----------------------------------------------------------------------------
Kinds(headers, indices) ==
  {<<headers[i].satellite_id, headers[i].sequence>> : i \in indices}

(* A permit is free, with the listener or with a live handler, so that failed accepts
   and handlers that end in error cost none; a server that has returned left no
   handler behind; a connection loses less than a batch when it ends; a full batch
   becomes one header of each kind (server.rs); and a client gives up without having
   found its server only after its window, in which it tries no more often than the
   backoff allows, nine times in 180 seconds, however long a try takes (client.rs). *)
BatchInv ==
  /\ permits + Cardinality(Alive) + (IF listener = "accept" THEN 1 ELSE 0) = MaxConnections
  /\ listener = "done" => Alive = {} /\ \A c \in Clients : link[c] # "backlog"
  /\ \A c \in Clients :
       /\ handler[c] # "processing" => Len(batch[c]) < BatchSize
       /\ handler[c] = "processing" =>
            \A s \in SortIndicesByTimestamp(DeduplicateIndices(batch[c]), batch[c]) :
              /\ Kinds(batch[c], {s[j] : j \in DOMAIN s}) = Kinds(batch[c], DOMAIN batch[c])
              /\ Len(s) = Cardinality(Kinds(batch[c], DOMAIN batch[c]))
       /\ handler[c] \in {"reading", "processing"} <=> link[c] = "open"
       /\ sender[c] = "ended" /\ link[c] = "none" => waited[c] > RetryWindow
       /\ 32 * retries[c] <= RetryWindow + 130

(* The state of a client that looks for its server: it finds it, or gives up. *)
SenderConnecting(c) == sender[c] \in {"connect", "sleep"}

(* A server told to stop returns although clients go on sending (server::run). *)
BatchEnds == listener # "draining"
=============================================================================
