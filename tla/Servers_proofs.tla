---------------------------- MODULE Servers_proofs ----------------------------
(***************************************************************************)
(* Proofs about the servers and their clients: the ground link, the        *)
(* batching server, the broker and the station server.  Each part has an   *)
(* inductive invariant of its component, named after it.                   *)
(***************************************************************************)
EXTENDS GroundLink, BatchServer, Broker, StationServer, FiniteSetTheorems,
        SequenceTheorems, NaturalsInduction, WellFoundedInduction, TLAPS

-----------------------------------------------------------------------------
(* The ground link *)

LinkTypeOK ==
  /\ client \in {"top", "connect", "sleep", "session", "join", "ended"}
  /\ attempt \in Nat /\ elapsed \in Nat
  /\ session \in {"Stopped", "Connecting", "Connected", "Reconnecting", "Failed"}
  /\ refresh \in {"none", "tick", "fetch"}
  /\ goodbye \in BOOLEAN

(* The time that n delays take at least, as a client in the loop has slept them all. *)
Slept(n) == IF n <= 4 THEN <<0, 2, 6, 14, 30>>[n + 1] ELSE 32 * n - 98

(* The delays of all attempts, but for the one that failed last, are in elapsed. *)
DelaysCount ==
  /\ client \in {"top", "connect"} => Slept(attempt) <= elapsed
  /\ client = "connect" => elapsed <= Window
  /\ client = "sleep" => attempt >= 1 /\ Slept(attempt - 1) <= elapsed
  /\ client \in {"session", "join"} => attempt = 0
  /\ 32 * attempt <= Window + 130

(* The state that is published, and why the client ended. *)
PublishedAgrees ==
  /\ client \in {"session", "join"} => session = "Connected"
  /\ session = "Failed" => client = "ended" /\ elapsed > Window
  /\ client = "ended" /\ session # "Failed" => "client" \in quit
  /\ refresh # "none" => client \in {"session", "join"}
  /\ goodbye => "client" \in quit

LinkIInv == LinkTypeOK /\ DelaysCount /\ PublishedAgrees

(* What BackoffDelay returns, and how it adds up. *)
LEMMA BackoffAddsUp ==
  ASSUME NEW n \in Nat \ {0}
  PROVE  BackoffDelay(n) \in Nat /\ Slept(n - 1) + BackoffDelay(n) = Slept(n)
<1>1. CASE n <= 4
  <2>1. n = 1 \/ n = 2 \/ n = 3 \/ n = 4
    BY <1>1
  <2> QED BY <2>1 DEF BackoffDelay, Slept
<1>2. CASE n > 4
  <2>1. BackoffDelay(n) = 32
    BY <1>2 DEF BackoffDelay
  <2>2. CASE n = 5
    BY <2>1, <2>2 DEF Slept
  <2>3. CASE n > 5
    BY <2>1, <2>3 DEF Slept
  <2> QED BY <1>2, <2>2, <2>3
<1> QED BY <1>1, <1>2

(* A client that has slept no longer than its window has few attempts behind it. *)
LEMMA FewAttempts ==
  ASSUME NEW n \in Nat, NEW w \in Nat, NEW e \in Nat, Slept(n) <= e, e <= w
  PROVE  32 * (n + 1) <= w + 130
<1>1. CASE n <= 4
  <2>1. n = 0 \/ n = 1 \/ n = 2 \/ n = 3 \/ n = 4
    BY <1>1
  <2> QED BY <2>1 DEF Slept
<1>2. CASE n > 4
  BY <1>2 DEF Slept
<1> QED BY <1>1, <1>2

(* An action of anybody but the loop of run_client. *)
LEMMA OthersKeepLink ==
  ASSUME LinkIInv, UNCHANGED <<client, attempt, elapsed, session>>,
         quit \subseteq quit', LinkTypeOK', refresh = "none" => refresh' = "none",
         goodbye' = goodbye \/ goodbye' = FALSE
  PROVE  LinkIInv'
  BY DEF LinkIInv, DelaysCount, PublishedAgrees

(* The loop of run_client keeps its invariant. *)
LEMMA ClientKeepsLink ==
  ASSUME LinkIInv, ClientStep \/ SessionLost
  PROVE  LinkIInv'
<1> USE LinkAssumption DEF LinkIInv, connVars, refreshVars
<1>0. Slept(0) = 0
  BY DEF Slept
<1>1. CASE Top
  BY <1>1 DEF Top, LinkTypeOK, DelaysCount, PublishedAgrees
<1>2. CASE ConnectOk
  <2>1. LinkTypeOK' /\ PublishedAgrees'
    BY <1>2 DEF ConnectOk, LinkTypeOK, PublishedAgrees
  <2>2. DelaysCount'
    BY <1>2 DEF ConnectOk, DelaysCount
  <2> QED BY <2>1, <2>2
<1>3. CASE ClientConnectFails
  <2>1. PICK d \in ConnectTimes : elapsed' = elapsed + d
    BY <1>3 DEF ClientConnectFails
  <2>2. elapsed' \in Nat /\ elapsed <= elapsed' /\ attempt' = attempt + 1
    BY <1>3, <2>1 DEF ClientConnectFails, Reconnect, LinkTypeOK
  <2>3. Slept(attempt) <= elapsed /\ elapsed <= Window
    BY <1>3 DEF ClientConnectFails, DelaysCount
  <2>4. 32 * attempt' <= Window + 130
    BY <2>2, <2>3, FewAttempts DEF LinkTypeOK
  <2>5. Slept(attempt' - 1) = Slept(attempt) /\ Slept(attempt) \in Int
    BY <2>2 DEF LinkTypeOK, Slept
  <2> QED BY <1>3, <2>2, <2>3, <2>4, <2>5
             DEF ClientConnectFails, Reconnect, LinkTypeOK, DelaysCount, PublishedAgrees
<1>4. CASE ClientWakes
  <2>1. attempt \in Nat \ {0} /\ Slept(attempt - 1) <= elapsed /\ elapsed \in Nat
    BY <1>4 DEF ClientWakes, LinkTypeOK, DelaysCount
  <2>2. Slept(attempt - 1) \in Int
    BY <2>1 DEF Slept
  <2>3. BackoffDelay(attempt) \in Nat
        /\ Slept(attempt) <= elapsed + BackoffDelay(attempt)
    BY <2>1, <2>2, BackoffAddsUp
  <2> QED BY <1>4, <2>1, <2>3
             DEF ClientWakes, LinkTypeOK, DelaysCount, PublishedAgrees
<1>5. CASE ClientReadsFrame
  <2>1. UNCHANGED <<client, attempt, elapsed, session, refresh, goodbye, quit>>
    BY <1>5 DEF ClientReadsFrame
  <2>2. LinkTypeOK'
    BY <2>1 DEF LinkTypeOK
  <2> QED BY <2>1, <2>2, OthersKeepLink
<1>6. CASE SayGoodbye
  BY <1>6 DEF SayGoodbye, LeaveSession, LinkTypeOK, DelaysCount, PublishedAgrees
<1>7. CASE EndSession
  <2>1. attempt = 0 /\ client = "join"
    BY <1>7 DEF EndSession, DelaysCount
  <2>2. CASE "client" \in quit
    <3>1. client' = "ended" /\ elapsed' = 0 /\ session = "Connected"
          /\ UNCHANGED <<attempt, session, refresh, goodbye, quit>> /\ refresh = "none"
      BY <1>7, <2>1, <2>2 DEF EndSession, PublishedAgrees
    <3> QED BY <2>1, <2>2, <3>1 DEF LinkTypeOK, DelaysCount, PublishedAgrees
  <2>3. CASE "client" \notin quit
    <3>1. client' = "sleep" /\ elapsed' = 0 /\ attempt' = 1 /\ session' = "Reconnecting"
          /\ UNCHANGED <<refresh, goodbye, quit>> /\ refresh = "none"
      BY <1>7, <2>1, <2>3 DEF EndSession, Reconnect
    <3>2. LinkTypeOK' /\ PublishedAgrees'
      BY <3>1 DEF LinkTypeOK, PublishedAgrees
    <3>3. DelaysCount'
      BY <1>0, <3>1 DEF DelaysCount
    <3> QED BY <3>2, <3>3
  <2> QED BY <2>2, <2>3
<1>8. CASE SessionLost
  BY <1>8 DEF SessionLost, LeaveSession, LinkTypeOK, DelaysCount, PublishedAgrees
<1> QED BY <1>1, <1>2, <1>3, <1>4, <1>5, <1>6, <1>7, <1>8 DEF ClientStep

LEMMA LinkStepKeeps ==
  ASSUME LinkIInv, [LinkNext]_linkVars
  PROVE  LinkIInv'
<1> USE DEF connVars, refreshVars
<1>0. LinkTypeOK
  BY DEF LinkIInv
<1>1. CASE ClientStep \/ SessionLost
  BY <1>1, ClientKeepsLink
<1>2. CASE RefreshTick \/ RefreshStops \/ FetchReturns
  <2>1. /\ UNCHANGED <<client, attempt, elapsed, session, goodbye, quit>>
        /\ refresh # "none" /\ refresh' \in {"none", "tick", "fetch"}
    BY <1>2 DEF RefreshTick, RefreshStops, FetchReturns
  <2>2. LinkTypeOK'
    BY <1>0, <2>1 DEF LinkTypeOK
  <2> QED BY <2>1, <2>2, OthersKeepLink
<1>3. ASSUME UNCHANGED <<client, attempt, elapsed, session, refresh>>,
             quit \subseteq quit', goodbye' = goodbye \/ goodbye' = FALSE
      PROVE  LinkIInv'
  <2>1. LinkTypeOK'
    BY <1>0, <1>3 DEF LinkTypeOK
  <2> QED BY <1>3, <2>1, OthersKeepLink
<1>4. CASE FrameReceiver \/ ServerTick
  BY <1>3, <1>4 DEF FrameReceiver, ServerTick
<1>5. CASE ServerStep
  BY <1>3, <1>5 DEF ServerStep, TcpAccept, ServerReads, ServerQuits, ServerExits
<1>6. CASE \E l \in serving : AcceptLoopStops(l) \/ AcceptLoopFails(l)
  BY <1>3, <1>6 DEF AcceptLoopStops, AcceptLoopFails, LeaveAcceptLoop
<1>7. CASE \E side \in {"client", "server"} : Quit(side)
  BY <1>3, <1>7 DEF Quit
<1>8. CASE UNCHANGED linkVars
  BY <1>3, <1>8 DEF linkVars
<1> QED BY <1>1, <1>2, <1>4, <1>5, <1>6, <1>7, <1>8 DEF LinkNext

(* What the client publishes is what it does; a session that failed has waited for the
   window, and its attempts are as few as the delays allow; no refresh task is left
   behind (run_client, run_session). *)
THEOREM LinkPublishesTruly == LinkSpec => []LinkInv
<1>1. LinkInit => LinkIInv
  <2> SUFFICES ASSUME LinkInit PROVE LinkIInv
    OBVIOUS
  <2>1. LinkTypeOK /\ PublishedAgrees
    BY DEF LinkInit, LinkTypeOK, PublishedAgrees
  <2>2. Slept(0) = 0
    BY DEF Slept
  <2>3. DelaysCount
    BY <2>2, LinkAssumption DEF LinkInit, DelaysCount
  <2> QED BY <2>1, <2>3 DEF LinkIInv
<1>2. LinkIInv /\ [LinkNext]_linkVars => LinkIInv'
  BY LinkStepKeeps
<1>3. LinkIInv => LinkInv
  BY DEF LinkIInv, LinkInv, DelaysCount, PublishedAgrees
<1> QED BY <1>1, <1>2, <1>3, PTL DEF LinkSpec

-----------------------------------------------------------------------------
(* The batching server *)

BatchTypeOK ==
  /\ listener \in {"acquire", "accept", "draining", "done"} /\ permits \in Int
  /\ handler \in [Clients -> {"none", "reading", "processing", "ended"}]
  /\ batch \in [Clients -> Seq(Headers)] /\ unread \in [Clients -> Seq(Headers)]
  /\ link \in [Clients -> {"none", "backlog", "open", "over"}]
  /\ sender \in [Clients -> {"connect", "sleep", "sending", "ended"}]
  /\ retries \in [Clients -> Nat] /\ waited \in [Clients -> Nat]

PermitsAccounted ==
  permits + Cardinality(Alive) + (IF listener = "accept" THEN 1 ELSE 0) = MaxConnections

(* A connection has a handler while it is open, and a client that looks for its
   server has none yet. *)
LinksAgree ==
  \A c \in Clients :
    /\ handler[c] \in {"reading", "processing"} <=> link[c] = "open"
    /\ sender[c] \in {"connect", "sleep"} => link[c] = "none"
    /\ sender[c] = "sending" => link[c] # "none"

NobodyLeft == listener = "done" => Alive = {} /\ \A c \in Clients : link[c] # "backlog"

BatchesAreSmall ==
  \A c \in Clients : handler[c] # "processing" => Len(batch[c]) < BatchSize

(* The sleeps alone count for the tries: a try may take no time, or any time. *)
TriesCount ==
  \A c \in Clients :
    /\ sender[c] = "connect" => Slept(retries[c]) <= waited[c] /\ waited[c] <= RetryWindow
    /\ sender[c] = "sleep" =>
         /\ retries[c] >= 1
         /\ Slept(retries[c] - 1) <= waited[c] /\ Slept(retries[c] - 1) <= RetryWindow
    /\ sender[c] = "ended" /\ link[c] = "none" => waited[c] > RetryWindow
    /\ 32 * retries[c] <= RetryWindow + 130

BatchIInv ==
  /\ BatchTypeOK /\ PermitsAccounted /\ LinksAgree /\ NobodyLeft /\ BatchesAreSmall
  /\ TriesCount

LEMMA LeastExists ==
  ASSUME NEW T \in SUBSET Nat, T # {}
  PROVE  \E x \in T : \A y \in T : x <= y
<1> DEFINE R == {ss \in Nat \X Nat : ss[1] < ss[2]}
<1>1. IsWellFoundedOn(R, Nat)
  BY NatLessThanWellFounded, Zenon DEF OpToRel
<1>2. \E x \in T : \A y \in T : ~ (<<y, x>> \in R)
  <2> HIDE DEF R
  <2> QED BY <1>1, WFMin, Zenon
<1>3. PICK x \in T : \A y \in T : ~ (<<y, x>> \in R)
  BY <1>2
<1>4. ASSUME NEW y \in T PROVE x <= y
  <2>1. <<y, x>> \in Nat \X Nat /\ x \in Nat /\ y \in Nat
    OBVIOUS
  <2>2. ~(y < x)
    BY <2>1, <1>3
  <2> QED BY <2>1, <2>2
<1> QED BY <1>4

(* Every header has the kind of one that deduplicate_indices keeps. *)
LEMMA EachKindIsKept ==
  ASSUME NEW headers \in Seq(Headers), NEW i \in DOMAIN headers
  PROVE  \E d \in DeduplicateIndices(headers) :
           /\ headers[d].satellite_id = headers[i].satellite_id
           /\ headers[d].sequence = headers[i].sequence
<1> DEFINE S == {j \in DOMAIN headers : /\ headers[j].satellite_id = headers[i].satellite_id
                                       /\ headers[j].sequence = headers[i].sequence}
<1>1. S \in SUBSET Nat /\ i \in S
  OBVIOUS
<1>2. PICK d \in S : \A j \in S : d <= j
  BY <1>1, LeastExists
<1>3. ASSUME NEW j \in 1..(d - 1)
      PROVE  \/ headers[j].satellite_id # headers[d].satellite_id
             \/ headers[j].sequence # headers[d].sequence
  <2>1. j \in DOMAIN headers /\ ~(d <= j)
    BY <1>1
  <2>2. j \notin S
    BY <1>2, <2>1
  <2> QED BY <2>1, <2>2
<1> QED BY <1>2, <1>3 DEF DeduplicateIndices

(* What a full batch becomes: one header of each kind. *)
LEMMA OneOfEachKind ==
  ASSUME NEW headers \in Seq(Headers),
         NEW s \in SortIndicesByTimestamp(DeduplicateIndices(headers), headers)
  PROVE  /\ Kinds(headers, {s[j] : j \in DOMAIN s}) = Kinds(headers, DOMAIN headers)
         /\ Len(s) = Cardinality(Kinds(headers, DOMAIN headers))
<1> DEFINE D == DeduplicateIndices(headers)
           K == Kinds(headers, D)
           f == [d \in D |-> <<headers[d].satellite_id, headers[d].sequence>>]
<1>1. D \in SUBSET (1..Len(headers)) /\ DOMAIN headers = 1..Len(headers)
  BY DEF DeduplicateIndices
<1>2. IsFiniteSet(D) /\ Cardinality(D) \in Nat
  <2>1. Len(headers) \in Int
    OBVIOUS
  <2>2. IsFiniteSet(1..Len(headers))
    BY <2>1, FS_Interval
  <2>3. IsFiniteSet(D)
    BY <1>1, <2>2, FS_Subset
  <2> QED BY <2>3, FS_CardinalityType
<1>3. s \in [1..Cardinality(D) -> D] /\ \A i \in D : \E j \in DOMAIN s : s[j] = i
  BY DEF SortIndicesByTimestamp
<1>4. {s[j] : j \in DOMAIN s} = D
  BY <1>3
<1>5. Len(s) = Cardinality(D)
  BY <1>2, <1>3
<1>6. K = Kinds(headers, DOMAIN headers)
  BY <1>1, EachKindIsKept DEF Kinds
<1>7. f \in Surjection(D, K)
  BY DEF Surjection, Kinds
<1>8. ASSUME NEW d \in D, NEW e \in D, f[d] = f[e], d < e PROVE FALSE
  <2>1. d \in 1..(e - 1)
    BY <1>1, <1>8
  <2> QED BY <1>8, <2>1 DEF DeduplicateIndices
<1>9. f \in Injection(D, K)
  <2>1. \A d, e \in D : f[d] = f[e] => d = e
    BY <1>1, <1>8
  <2> QED BY <1>7, <2>1 DEF Injection, IsInjective, Surjection
<1>10. Cardinality(K) = Cardinality(D)
  BY <1>2, <1>7, <1>9, FS_Surjection
<1> QED BY <1>4, <1>5, <1>6, <1>10

LEMMA AliveIsCounted ==
  ASSUME BatchTypeOK
  PROVE  IsFiniteSet(Alive) /\ Cardinality(Alive) \in Nat
<1>1. Alive \in SUBSET Clients
  BY DEF Alive
<1>2. IsFiniteSet(Alive)
  BY <1>1, BatchAssumption, FS_Subset
<1> QED BY <1>2, FS_CardinalityType

(* A handler more, and a handler less. *)
LEMMA HandlerBegins ==
  ASSUME BatchTypeOK, NEW c \in Clients, c \notin Alive,
         handler' = [handler EXCEPT ![c] = "reading"]
  PROVE  Cardinality(Alive') = Cardinality(Alive) + 1
<1>1. Alive' = Alive \union {c}
  BY DEF Alive, BatchTypeOK
<1> QED BY <1>1, AliveIsCounted, FS_AddElement

LEMMA HandlerGoes ==
  ASSUME BatchTypeOK, NEW c \in Clients, c \in Alive,
         handler' = [handler EXCEPT ![c] = "ended"]
  PROVE  /\ Cardinality(Alive') = Cardinality(Alive) - 1
         /\ Alive' \subseteq Alive
<1>1. Alive' = Alive \ {c}
  BY DEF Alive, BatchTypeOK
<1> QED BY <1>1, AliveIsCounted, FS_RemoveElement

(* An action of the listener other than AcceptConnection. *)
LEMMA ListenerKeeps ==
  ASSUME BatchIInv, Acquire \/ AcceptFails \/ StopServer \/ Drained
  PROVE  BatchIInv'
<1> USE DEF BatchIInv, clientVars
<1>0. Cardinality(Alive) \in Nat /\ MaxConnections \in Nat /\ permits \in Int
  BY AliveIsCounted, BatchAssumption DEF BatchTypeOK
<1>1. CASE Acquire
  <2>1. Alive' = Alive
    BY <1>1 DEF Acquire, Alive
  <2>2. PermitsAccounted'
    BY <1>0, <1>1, <2>1 DEF Acquire, PermitsAccounted
  <2> QED BY <1>1, <2>2
             DEF Acquire, BatchTypeOK, LinksAgree, NobodyLeft, BatchesAreSmall, TriesCount
<1>2. CASE AcceptFails
  <2>1. Alive' = Alive
    BY <1>2 DEF AcceptFails, Alive
  <2>2. PermitsAccounted'
    BY <1>0, <1>2, <2>1 DEF AcceptFails, PermitsAccounted
  <2> QED BY <1>2, <2>2
             DEF AcceptFails, BatchTypeOK, LinksAgree, NobodyLeft, BatchesAreSmall, TriesCount
<1>3. CASE StopServer
  <2>1. Alive' = Alive
    BY <1>3 DEF StopServer, Alive
  <2>2. PermitsAccounted'
    BY <1>0, <1>3, <2>1 DEF StopServer, PermitsAccounted
  <2> QED BY <1>3, <2>2
             DEF StopServer, BatchTypeOK, LinksAgree, NobodyLeft, BatchesAreSmall, TriesCount
<1>4. CASE Drained
  <2>1. Alive' = Alive
    BY <1>4 DEF Drained, Alive
  <2>2. PermitsAccounted'
    BY <1>0, <1>4, <2>1 DEF Drained, PermitsAccounted
  <2>3. BatchTypeOK' /\ BatchesAreSmall' /\ TriesCount'
    BY <1>4 DEF Drained, BatchTypeOK, BatchesAreSmall, TriesCount
  <2>4. LinksAgree' /\ NobodyLeft'
    BY <1>4, <2>1 DEF Drained, BatchTypeOK, LinksAgree, NobodyLeft
  <2> QED BY <2>2, <2>3, <2>4
<1> QED BY <1>1, <1>2, <1>3, <1>4

(* Actions of the handlers, with the accept that starts one. *)
LEMMA HandlersKeep ==
  ASSUME BatchIInv, NEW c \in Clients,
         AcceptConnection(c) \/ ConnectionStep(c) \/ HandlerReadFails(c)
  PROVE  BatchIInv'
<1> USE BatchAssumption DEF BatchIInv, clientVars
<1>0. Cardinality(Alive) \in Nat /\ MaxConnections \in Nat /\ permits \in Int
  BY AliveIsCounted DEF BatchTypeOK
<1>1. CASE AcceptConnection(c)
  <2>1. c \notin Alive
    BY <1>1 DEF AcceptConnection, Alive, LinksAgree
  <2>2. Cardinality(Alive') = Cardinality(Alive) + 1
    BY <1>1, <2>1, HandlerBegins DEF AcceptConnection
  <2>3. PermitsAccounted'
    BY <1>0, <1>1, <2>2 DEF AcceptConnection, PermitsAccounted
  <2>4. BatchTypeOK' /\ TriesCount' /\ NobodyLeft'
    BY <1>1 DEF AcceptConnection, BatchTypeOK, TriesCount, NobodyLeft
  <2>5. BatchesAreSmall' /\ LinksAgree'
    BY <1>1 DEF AcceptConnection, BatchTypeOK, BatchesAreSmall, LinksAgree
  <2> QED BY <2>3, <2>4, <2>5
<1>2. ASSUME HandlerEnds(c), handler[c] = "reading" PROVE BatchIInv'
  <2>1. c \in Alive
    BY <1>2 DEF Alive
  <2>2. Cardinality(Alive') = Cardinality(Alive) - 1 /\ Alive' \subseteq Alive
    BY <1>2, <2>1, HandlerGoes DEF HandlerEnds
  <2>3. PermitsAccounted'
    BY <1>0, <1>2, <2>2 DEF HandlerEnds, PermitsAccounted
  <2>4. BatchTypeOK' /\ TriesCount'
    BY <1>2 DEF HandlerEnds, BatchTypeOK, TriesCount
  <2>5. NobodyLeft'
    BY <1>2, <2>2 DEF HandlerEnds, BatchTypeOK, NobodyLeft
  <2>6. BatchesAreSmall' /\ LinksAgree'
    BY <1>2 DEF HandlerEnds, BatchTypeOK, BatchesAreSmall, LinksAgree
  <2> QED BY <2>3, <2>4, <2>5, <2>6
<1>3. CASE ReadEnd(c) \/ RecvShutdown(c) \/ HandlerReadFails(c)
  BY <1>2, <1>3 DEF ReadEnd, RecvShutdown, HandlerReadFails
<1>4. ASSUME handler[c] \in {"reading", "processing"}, NEW collected \in Seq(Headers),
             batch' = [batch EXCEPT ![c] = collected],
             \/ handler' = [handler EXCEPT ![c] = "processing"]
             \/ handler' = [handler EXCEPT ![c] = "reading"] /\ Len(collected) < BatchSize,
             unread' \in [Clients -> Seq(Headers)],
             UNCHANGED <<listener, permits, link, clientVars>>
      PROVE  BatchIInv'
  <2>1. Alive' = Alive
    BY <1>4 DEF Alive, BatchTypeOK
  <2>2. PermitsAccounted' /\ NobodyLeft' /\ TriesCount'
    BY <1>4, <2>1 DEF PermitsAccounted, NobodyLeft, TriesCount
  <2>3. BatchTypeOK'
    BY <1>4 DEF BatchTypeOK
  <2>4. BatchesAreSmall' /\ LinksAgree'
    BY <1>4 DEF BatchTypeOK, BatchesAreSmall, LinksAgree
  <2> QED BY <2>2, <2>3, <2>4
<1>5. CASE CollectFrame(c)
  <2> DEFINE header == Head(unread[c])
             collected == IF header.error THEN batch[c] ELSE Append(batch[c], header)
  <2>1. unread[c] \in Seq(Headers) /\ unread[c] # <<>> /\ batch[c] \in Seq(Headers)
    BY <1>5 DEF CollectFrame, BatchTypeOK
  <2>2. header \in Headers /\ Tail(unread[c]) \in Seq(Headers)
    BY <2>1
  <2>3. collected \in Seq(Headers) /\ Len(collected) \in Nat
    BY <2>1, <2>2
  <2>4. /\ batch' = [batch EXCEPT ![c] = collected]
        /\ handler' = [handler EXCEPT ![c] =
                          IF Len(collected) >= BatchSize THEN "processing" ELSE "reading"]
        /\ unread' = [unread EXCEPT ![c] = Tail(unread[c])]
        /\ handler[c] = "reading" /\ UNCHANGED <<listener, permits, link, clientVars>>
    BY <1>5 DEF CollectFrame
  <2>5. unread' \in [Clients -> Seq(Headers)]
    BY <2>2, <2>4 DEF BatchTypeOK
  <2> HIDE DEF collected, header
  <2>6. CASE Len(collected) >= BatchSize
    BY <1>4, <2>3, <2>4, <2>5, <2>6
  <2>7. CASE Len(collected) < BatchSize
    BY <1>4, <2>3, <2>4, <2>5, <2>7
  <2> QED BY <2>3, <2>6, <2>7
<1>6. CASE Processed(c)
  <2>1. <<>> \in Seq(Headers) /\ Len(<<>>) < BatchSize /\ unread' \in [Clients -> Seq(Headers)]
    BY <1>6 DEF Processed, BatchTypeOK
  <2> QED BY <1>4, <1>6, <2>1 DEF Processed
<1> QED BY <1>1, <1>3, <1>5, <1>6 DEF ConnectionStep

(* Actions of the clients. *)
LEMMA SendersKeep ==
  ASSUME BatchIInv, NEW c \in Clients,
         \/ ConnectSender(c) \/ SenderConnectFails(c) \/ SenderWakes(c)
         \/ Send(c) \/ SendFails(c) \/ StopClient(c)
  PROVE  BatchIInv'
<1> USE BatchAssumption DEF BatchIInv, serverVars, clientVars
<1> UNCHANGED serverVars
  BY DEF ConnectSender, SenderConnectFails, SenderWakes, Send, SendFails, StopClient
<1>0. Alive' = Alive /\ PermitsAccounted' /\ BatchesAreSmall'
  BY DEF Alive, PermitsAccounted, BatchesAreSmall
<1>1. CASE ConnectSender(c)
  <2>1. Slept(0) = 0
    BY DEF Slept
  <2>2. BatchTypeOK' /\ TriesCount'
    BY <1>1, <2>1, SMTT(30) DEF ConnectSender, BatchTypeOK, TriesCount
  <2>3. LinksAgree' /\ NobodyLeft'
    BY <1>0, <1>1 DEF ConnectSender, BatchTypeOK, LinksAgree, NobodyLeft
  <2> QED BY <1>0, <2>2, <2>3
<1>2. CASE SenderConnectFails(c)
  <2>1. /\ retries[c] \in Nat /\ waited[c] \in Nat
        /\ Slept(retries[c]) <= waited[c] /\ waited[c] <= RetryWindow
    BY <1>2 DEF SenderConnectFails, BatchTypeOK, TriesCount
  <2>2. 32 * (retries[c] + 1) <= RetryWindow + 130
    BY <2>1, FewAttempts
  <2>3. BatchTypeOK' /\ LinksAgree' /\ NobodyLeft'
    BY <1>0, <1>2 DEF SenderConnectFails, BatchTypeOK, LinksAgree, NobodyLeft
  <2>4. (retries[c] + 1) - 1 = retries[c] /\ Slept(retries[c]) \in Int
    BY <2>1 DEF Slept
  <2>5. PICK d \in AttemptTimes : waited' = [waited EXCEPT ![c] = @ + d]
    BY <1>2 DEF SenderConnectFails
  <2>6. Slept(retries[c]) <= waited[c] + d /\ Slept(retries[c]) <= RetryWindow
    BY <2>1, <2>4
  <2>7. TriesCount'
    BY <1>2, <2>1, <2>2, <2>4, <2>5, <2>6 DEF SenderConnectFails, BatchTypeOK, TriesCount
  <2> QED BY <1>0, <2>3, <2>7
<1>3. CASE SenderWakes(c)
  <2> DEFINE w == waited[c] + RetryDelay(retries[c])
  <2>1. /\ retries[c] \in Nat \ {0} /\ waited[c] \in Nat
        /\ Slept(retries[c] - 1) <= waited[c]
    BY <1>3 DEF SenderWakes, BatchTypeOK, TriesCount
  <2>2. RetryDelay(retries[c]) = BackoffDelay(retries[c])
    BY DEF RetryDelay, BackoffDelay
  <2>3. RetryDelay(retries[c]) \in Nat
    BY <2>1 DEF RetryDelay
  <2>4. Slept(retries[c] - 1) \in Int
    BY <2>1 DEF Slept
  <2>5. w \in Nat /\ Slept(retries[c]) <= w
    BY <2>1, <2>2, <2>3, <2>4, BackoffAddsUp
  <2>6. /\ waited' = [waited EXCEPT ![c] = w]
        /\ sender' = [sender EXCEPT ![c] = IF w > RetryWindow THEN "ended" ELSE "connect"]
        /\ UNCHANGED <<link, unread, retries>>
        /\ sender[c] = "sleep"
    BY <1>3 DEF SenderWakes
  <2> HIDE DEF w
  <2>7. BatchTypeOK' /\ LinksAgree' /\ NobodyLeft'
    BY <1>0, <2>5, <2>6 DEF BatchTypeOK, LinksAgree, NobodyLeft
  <2>8. TriesCount'
    BY <2>5, <2>6 DEF BatchTypeOK, TriesCount
  <2> QED BY <1>0, <2>7, <2>8
<1>4. CASE Send(c)
  BY <1>0, <1>4 DEF Send, BatchTypeOK, LinksAgree, NobodyLeft, TriesCount
<1>5. CASE SendFails(c) \/ StopClient(c)
  <2>1. sender' = [sender EXCEPT ![c] = "ended"] /\ UNCHANGED <<link, unread, retries, waited>>
    BY <1>5 DEF SendFails, StopClient
  <2>2. link[c] # "none"
    BY <1>5 DEF SendFails, StopClient, LinksAgree
  <2>3. BatchTypeOK' /\ LinksAgree' /\ NobodyLeft'
    BY <1>0, <2>1, <2>2 DEF BatchTypeOK, LinksAgree, NobodyLeft
  <2>4. TriesCount'
    BY <2>1, <2>2 DEF BatchTypeOK, TriesCount
  <2> QED BY <1>0, <2>3, <2>4
<1> QED BY <1>1, <1>2, <1>3, <1>4, <1>5

(* Permits are neither lost nor made up, no handler outlives the server, no full batch
   is lost, a batch is left with one header of each kind, and a client that gives
   up has looked for its server as long as its window and no more often than the
   backoff allows, however long a failed connect takes (server.rs, client.rs). *)
THEOREM PermitsAndBatchesKept == BatchSpec => []BatchInv
<1>1. BatchInit => BatchIInv
  <2> SUFFICES ASSUME BatchInit PROVE BatchIInv
    OBVIOUS
  <2>1. Slept(0) = 0
    BY DEF Slept
  <2>2. Alive = {}
    BY DEF BatchInit, Alive
  <2>3. Cardinality(Alive) = 0
    BY <2>2, FS_EmptySet
  <2>4. BatchTypeOK /\ PermitsAccounted
    BY <2>3, BatchAssumption DEF BatchInit, BatchTypeOK, PermitsAccounted
  <2>5. LinksAgree /\ NobodyLeft /\ BatchesAreSmall /\ TriesCount
    BY <2>1, BatchAssumption
       DEF BatchInit, LinksAgree, NobodyLeft, BatchesAreSmall, TriesCount
  <2> QED BY <2>4, <2>5 DEF BatchIInv
<1>2. BatchIInv /\ [BatchNext]_batchVars => BatchIInv'
  <2>1. CASE UNCHANGED batchVars
    <3>1. Alive' = Alive
      BY <2>1 DEF batchVars, Alive
    <3> QED BY <2>1, <3>1 DEF batchVars, BatchIInv, BatchTypeOK, PermitsAccounted,
                              LinksAgree, NobodyLeft, BatchesAreSmall, TriesCount
  <2> QED BY <2>1, ListenerKeeps, HandlersKeep, SendersKeep DEF BatchNext
<1>3. BatchIInv => BatchInv
  <2> SUFFICES ASSUME BatchIInv PROVE BatchInv
    OBVIOUS
  <2>1. \A c \in Clients : batch[c] \in Seq(Headers)
    BY DEF BatchIInv, BatchTypeOK
  <2> QED BY <2>1, OneOfEachKind
             DEF BatchIInv, BatchInv, PermitsAccounted, LinksAgree, NobodyLeft,
                 BatchesAreSmall, TriesCount
<1> QED BY <1>1, <1>2, <1>3, PTL DEF BatchSpec

-----------------------------------------------------------------------------
(* The broker *)

SessionStates == {"none", "backlog", "reading", "ended"}

BrokerTypeOK ==
  /\ main \in {"accept", "drain", "drained", "forced"} /\ ctrlC \in BOOLEAN
  /\ sessions \in [Stations -> SessionStates]
  /\ half \in [Stations -> BOOLEAN] /\ gone \in [Stations -> BOOLEAN]
  /\ tail \in Nat
  /\ receiver \in [Handlers -> {"receiving", "ended"}]
  /\ cursor \in [Handlers -> Nat]
  /\ got \in [Handlers -> Nat] /\ missed \in [Handlers -> Nat]

NobodyReads == \A s \in Stations : sessions[s] # "reading"

(* Each frame up to the cursor was received or counted. *)
Accounted ==
  \A h \in Handlers : got[h] + missed[h] = cursor[h] /\ cursor[h] <= tail
                      /\ (missed[h] > 0 => missed[h] + Retained <= tail)

(* A handler ends when nobody is left who could send, and nobody comes any more. *)
EndsLast ==
  \A h \in Handlers : receiver[h] = "ended" => cursor[h] = tail /\ main # "accept" /\ NobodyReads

HalfIsRead == \A s \in Stations : half[s] => sessions[s] = "reading"

BrokerIInv ==
  BrokerTypeOK /\ Accounted /\ EndsLast /\ HalfIsRead /\ (main = "drained" => NobodyReads)

LEMMA BrokerInitially == BrokerInit => BrokerIInv
<1> SUFFICES ASSUME BrokerInit PROVE BrokerIInv
  OBVIOUS
<1> USE DEF BrokerInit
<1>1. BrokerTypeOK
  BY DEF BrokerTypeOK, SessionStates
<1>2. Accounted
  BY DEF Accounted
<1>3. EndsLast /\ HalfIsRead /\ main # "drained"
  BY DEF EndsLast, HalfIsRead
<1> QED BY <1>1, <1>2, <1>3 DEF BrokerIInv

LEMMA SessionKeeps ==
  ASSUME BrokerIInv, NEW s \in Stations,
         \/ ReadHalf(s) \/ Broadcast(s) \/ ConnectionClosed(s) \/ SessionSeesShutdown(s)
         \/ AcceptStation(s) \/ ConnectStation(s) \/ Disconnect(s)
  PROVE  BrokerIInv'
<1> USE DEF BrokerIInv, receiverVars
<1>1. CASE ReadHalf(s)
  BY <1>1 DEF ReadHalf, BrokerTypeOK, Accounted, EndsLast, HalfIsRead, NobodyReads
<1>2. ASSUME EndStationSession(s), sessions[s] = "reading" PROVE BrokerIInv'
  BY <1>2 DEF EndStationSession, BrokerTypeOK, SessionStates, Accounted, EndsLast, HalfIsRead, NobodyReads
<1>3. CASE Broadcast(s)
  <2>1. CASE EndStationSession(s)
    BY <1>2, <1>3, <2>1 DEF Broadcast
  <2>2. CASE tail' = tail + 1 /\ half' = [half EXCEPT ![s] = FALSE]
             /\ UNCHANGED <<main, ctrlC, sessions, gone, receiverVars>>
    <3>1. sessions[s] = "reading"
      BY <1>3 DEF Broadcast
    <3>2. BrokerTypeOK' /\ HalfIsRead' /\ (main = "drained" => NobodyReads)'
      BY <2>2 DEF BrokerTypeOK, HalfIsRead, NobodyReads
    <3>3. EndsLast'
      BY <2>2, <3>1 DEF EndsLast, NobodyReads, BrokerTypeOK
    <3>4. ASSUME NEW h \in Handlers
          PROVE (got[h] + missed[h] = cursor[h] /\ cursor[h] <= tail
                 /\ (missed[h] > 0 => missed[h] + Retained <= tail))'
      <4>1. cursor[h] \in Nat /\ missed[h] \in Nat /\ tail \in Nat
        BY DEF BrokerTypeOK
      <4>2. cursor[h] <= tail + 1
        BY <4>1 DEF Accounted
      <4>3. missed[h] > 0 => missed[h] + Retained <= tail + 1
        BY <1>3, <4>1, BrokerAssumption DEF Accounted
      <4> QED BY <2>2, <4>2, <4>3 DEF Accounted
    <3> QED BY <3>2, <3>3, <3>4 DEF Accounted
  <2> QED BY <1>3, <2>1, <2>2 DEF Broadcast
<1>4. CASE ConnectionClosed(s)
  BY <1>2, <1>4 DEF ConnectionClosed
<1>5. CASE SessionSeesShutdown(s)
  BY <1>2, <1>5 DEF SessionSeesShutdown
<1>6. CASE AcceptStation(s)
  BY <1>6 DEF AcceptStation, BrokerTypeOK, SessionStates, Accounted, EndsLast, HalfIsRead, NobodyReads
<1>7. CASE ConnectStation(s)
  BY <1>7 DEF ConnectStation, BrokerTypeOK, SessionStates, Accounted, EndsLast, HalfIsRead, NobodyReads
<1>8. CASE Disconnect(s)
  BY <1>8 DEF Disconnect, BrokerTypeOK, Accounted, EndsLast, HalfIsRead, NobodyReads
<1> QED BY <1>1, <1>3, <1>4, <1>5, <1>6, <1>7, <1>8

LEMMA ReceiverKeeps ==
  ASSUME BrokerIInv, NEW h \in Handlers, ReceiverStep(h)
  PROVE  BrokerIInv'
<1> USE DEF BrokerIInv
<1> UNCHANGED <<main, ctrlC, sessions, half, gone, tail>>
  BY DEF ReceiverStep, Lagged, Receive, Closed, sessionVars
<1>1. HalfIsRead' /\ (main = "drained" => NobodyReads)'
  BY DEF HalfIsRead, NobodyReads
<1>2. tail \in Nat /\ cursor[h] \in Nat /\ got[h] \in Nat /\ missed[h] \in Nat
      /\ got[h] + missed[h] = cursor[h] /\ cursor[h] <= tail
  BY DEF BrokerTypeOK, Accounted
<1>3. CASE Lagged(h)
  <2> DEFINE n == tail - Retained
  <2>1. n \in Nat /\ cursor[h] < n /\ n <= tail /\ tail > Retained
    BY <1>2, <1>3, BrokerAssumption DEF Lagged
  <2>2. missed[h] + (n - cursor[h]) \in Nat /\ got[h] + (missed[h] + (n - cursor[h])) = n
        /\ (missed[h] + (n - cursor[h])) + Retained <= tail
    BY <1>2, <2>1, BrokerAssumption
  <2>3. receiver[h] = "receiving" /\ cursor' = [cursor EXCEPT ![h] = n]
        /\ missed' = [missed EXCEPT ![h] = @ + (n - cursor[h])]
        /\ UNCHANGED <<receiver, got>>
    BY <1>3 DEF Lagged
  <2> HIDE DEF n
  <2>4. BrokerTypeOK'
    BY <2>1, <2>2, <2>3 DEF BrokerTypeOK
  <2>5. Accounted'
    BY <2>1, <2>2, <2>3 DEF BrokerTypeOK, Accounted
  <2>6. EndsLast'
    BY <2>3 DEF BrokerTypeOK, EndsLast, NobodyReads
  <2> QED BY <1>1, <2>4, <2>5, <2>6
<1>4. CASE Receive(h)
  <2>1. receiver[h] = "receiving" /\ cursor' = [cursor EXCEPT ![h] = @ + 1]
        /\ got' = [got EXCEPT ![h] = @ + 1] /\ UNCHANGED <<receiver, missed>>
        /\ cursor[h] < tail
    BY <1>4 DEF Receive
  <2>2. BrokerTypeOK'
    BY <2>1 DEF BrokerTypeOK
  <2>3. cursor[h] + 1 <= tail /\ (got[h] + 1) + missed[h] = cursor[h] + 1
    BY <1>2, <2>1
  <2>4. Accounted'
    BY <2>1, <2>3 DEF BrokerTypeOK, Accounted
  <2>5. EndsLast'
    BY <2>1 DEF BrokerTypeOK, EndsLast, NobodyReads
  <2> QED BY <1>1, <2>2, <2>4, <2>5
<1>5. CASE Closed(h)
  BY <1>1, <1>5 DEF Closed, BrokerTypeOK, Accounted, EndsLast, NobodyReads
<1> QED BY <1>3, <1>4, <1>5 DEF ReceiverStep

LEMMA BrokerStepKeeps ==
  ASSUME BrokerIInv, [BrokerNext]_brokerVars
  PROVE  BrokerIInv'
<1> USE DEF BrokerIInv, sessionVars, receiverVars
<1>1. CASE CtrlC
  BY <1>1 DEF CtrlC, BrokerTypeOK, Accounted, EndsLast, HalfIsRead, NobodyReads
<1>2. CASE StopBroker
  BY <1>2 DEF StopBroker, BrokerTypeOK, Accounted, EndsLast, HalfIsRead, NobodyReads
<1>3. CASE AllDrained
  BY <1>3 DEF AllDrained, BrokerTypeOK, Accounted, EndsLast, HalfIsRead, NobodyReads
<1>4. CASE Deadline
  BY <1>4 DEF Deadline, BrokerTypeOK, Accounted, EndsLast, HalfIsRead, NobodyReads
<1>5. CASE UNCHANGED brokerVars
  BY <1>5 DEF brokerVars, BrokerTypeOK, Accounted, EndsLast, HalfIsRead, NobodyReads
<1> QED BY <1>1, <1>2, <1>3, <1>4, <1>5, ReceiverKeeps, SessionKeeps DEF BrokerNext

(* Each frame up to its cursor was received by a handler or counted as missed, those
   that the channel keeps are not missed, a handler ends only with every frame behind
   it, a clean drain leaves no session, and only a session that reads has half a
   frame (spawn_handler, handle_connection, main). *)
THEOREM FramesAccounted == BrokerSpec => []BrokerInv
<1>1. BrokerInit => BrokerIInv
  BY BrokerInitially
<1>2. BrokerIInv /\ [BrokerNext]_brokerVars => BrokerIInv'
  BY BrokerStepKeeps
<1>3. BrokerIInv => BrokerInv
  BY DEF BrokerIInv, BrokerInv, Accounted, EndsLast, HalfIsRead, NobodyReads
<1> QED BY <1>1, <1>2, <1>3, PTL DEF BrokerSpec

-----------------------------------------------------------------------------
(* The station server *)

StationTypeOK ==
  /\ server \in {"accepting", "returned"} /\ shutdown \in BOOLEAN
  /\ reader \in [GroundStations -> {"none", "backlog", "reading", "sending", "ended"}]
  /\ frame \in [GroundStations -> Nat \union {NoFrame}]
  /\ incoming \in [GroundStations -> Seq(Nat)] /\ silent \in [GroundStations -> BOOLEAN]
  /\ channel \in Seq(GroundStations \X Nat) /\ consumer \in {"receiving", "gone"}
  /\ numbered \in [GroundStations -> Nat] /\ consumed \in [GroundStations -> Nat]

(* What a handler holds and what is unread are the last frames that were sent. *)
HandlerHolds ==
  \A s \in GroundStations :
    /\ reader[s] = "sending" <=> frame[s] # NoFrame
    /\ frame[s] # NoFrame => frame[s] = Forwarded(s) + 1
    /\ \A i \in DOMAIN incoming[s] :
         incoming[s][i] = numbered[s] - Len(incoming[s]) + i

(* What is in the channel of a station: the frames after the last one consumed. *)
ChannelHolds(s, last) ==
  /\ InChannel(s) = (consumed[s] + 1)..last /\ consumed[s] <= last
  /\ reader[s] # "ended" \/ incoming[s] # <<>> => last = Forwarded(s)

NoGap == \A s \in GroundStations : \E last \in 0..numbered[s] : ChannelHolds(s, last)

InOrder ==
  \A i, j \in DOMAIN channel :
    i < j /\ channel[i][1] = channel[j][1] => channel[i][2] < channel[j][2]

StationIInv ==
  /\ StationTypeOK /\ Len(channel) <= ChannelSize /\ HandlerHolds
  /\ consumer = "receiving" => NoGap /\ InOrder

(* A frame that enters the channel, and one that leaves it. *)
LEMMA ChannelTakes ==
  ASSUME StationTypeOK, NEW s \in GroundStations, NEW n \in Nat,
         channel' = Append(channel, <<s, n>>)
  PROVE  \A u \in GroundStations :
           InChannel(u)' = IF u = s THEN InChannel(u) \union {n} ELSE InChannel(u)
<1>1. /\ DOMAIN channel' = 1..Len(channel) + 1 /\ DOMAIN channel = 1..Len(channel)
      /\ \A i \in 1..Len(channel) : channel'[i] = channel[i]
      /\ channel'[Len(channel) + 1] = <<s, n>> /\ Len(channel) \in Nat
  <2>1. <<s, n>> \in GroundStations \X Nat
    OBVIOUS
  <2> QED BY <2>1 DEF StationTypeOK
<1> QED BY <1>1 DEF InChannel

LEMMA ChannelGives ==
  ASSUME StationTypeOK, InOrder, channel # <<>>, channel' = Tail(channel)
  PROVE  /\ Head(channel)[1] \in GroundStations /\ Head(channel)[2] \in Nat
         /\ \A u \in GroundStations :
              IF u = Head(channel)[1]
              THEN /\ InChannel(u)' = InChannel(u) \ {Head(channel)[2]}
                   /\ Head(channel)[2] \in InChannel(u)
                   /\ \A n \in InChannel(u) : Head(channel)[2] <= n
              ELSE InChannel(u)' = InChannel(u)
<1>1. /\ Len(channel) \in Nat \ {0} /\ DOMAIN channel = 1..Len(channel)
      /\ DOMAIN channel' = 1..Len(channel) - 1
      /\ \A i \in 1..Len(channel) - 1 : channel'[i] = channel[i + 1]
      /\ Head(channel) = channel[1]
  BY DEF StationTypeOK
<1>2. \A i \in 1..Len(channel) : channel[i] \in GroundStations \X Nat
  BY DEF StationTypeOK
<1>3. \A i \in 2..Len(channel) :
        channel[i][1] = channel[1][1] => channel[1][2] < channel[i][2]
  BY <1>1 DEF InOrder
<1>4. ASSUME NEW u \in GroundStations
      PROVE  InChannel(u)' = {channel[i][2] : i \in {j \in 2..Len(channel) : channel[j][1] = u}}
  <2>1. ASSUME NEW i \in 2..Len(channel), channel[i][1] = u
        PROVE  channel[i][2] \in InChannel(u)'
    <3>1. i - 1 \in 1..Len(channel) - 1 /\ (i - 1) + 1 = i
      BY <1>1
    <3>2. channel'[i - 1] = channel[i]
      BY <1>1, <3>1
    <3> QED BY <1>1, <2>1, <3>1, <3>2 DEF InChannel
  <2>2. ASSUME NEW i \in 1..Len(channel) - 1, channel'[i][1] = u
        PROVE  \E j \in 2..Len(channel) : channel[j][1] = u /\ channel[j][2] = channel'[i][2]
    <3>1. i + 1 \in 2..Len(channel) /\ channel'[i] = channel[i + 1]
      BY <1>1
    <3> QED BY <2>2, <3>1
  <2> QED BY <1>1, <2>1, <2>2 DEF InChannel
<1>5. ASSUME NEW u \in GroundStations
      PROVE  InChannel(u) = {channel[i][2] : i \in {j \in 1..Len(channel) : channel[j][1] = u}}
  BY <1>1 DEF InChannel
<1>6. 1..Len(channel) = {1} \union 2..Len(channel)
  BY <1>1
<1>7. ASSUME NEW u \in GroundStations, u # channel[1][1] PROVE InChannel(u)' = InChannel(u)
  BY <1>4, <1>5, <1>6, <1>7
<1>8. ASSUME NEW u \in GroundStations, u = channel[1][1]
      PROVE  /\ InChannel(u)' = InChannel(u) \ {channel[1][2]}
             /\ channel[1][2] \in InChannel(u)
             /\ \A n \in InChannel(u) : channel[1][2] <= n
  <2>1. InChannel(u) = InChannel(u)' \union {channel[1][2]}
    BY <1>4, <1>5, <1>6, <1>8
  <2>2. \A n \in InChannel(u)' : n \in Nat /\ channel[1][2] < n
    BY <1>2, <1>3, <1>4, <1>8
  <2>3. channel[1][2] \in Nat
    BY <1>1, <1>2
  <2> QED BY <2>1, <2>2, <2>3
<1> QED BY <1>1, <1>2, <1>7, <1>8

(* A step that changes what one station sends or its handler holds, and puts nothing
   into the channel. *)
LEMMA LineKeeps ==
  ASSUME StationIInv, StationTypeOK', NEW s \in GroundStations,
         UNCHANGED <<channel, consumer, consumed>>,
         \A u \in GroundStations \ {s} :
           UNCHANGED <<reader[u], frame[u], incoming[u], numbered[u]>>,
         reader'[s] = "sending" <=> frame'[s] # NoFrame,
         frame'[s] # NoFrame => frame'[s] = Forwarded(s)' + 1,
         \A i \in DOMAIN incoming'[s] :
           incoming'[s][i] = numbered'[s] - Len(incoming'[s]) + i,
         numbered[s] <= numbered'[s],
         \/ reader'[s] = "ended" /\ incoming'[s] = <<>>
         \/ Forwarded(s)' = Forwarded(s) /\ reader[s] # "ended"
  PROVE  StationIInv'
<1> USE DEF StationIInv
<1>1. \A u \in GroundStations : InChannel(u)' = InChannel(u)
  BY DEF InChannel
<1>2. \A u \in GroundStations \ {s} : Forwarded(u)' = Forwarded(u)
  BY DEF Forwarded
<1>3. HandlerHolds'
  BY <1>2 DEF HandlerHolds
<1>4. ASSUME consumer = "receiving", NEW u \in GroundStations
      PROVE  (\E last \in 0..numbered[u] : ChannelHolds(u, last))'
  <2>1. PICK last \in 0..numbered[u] : ChannelHolds(u, last)
    BY <1>4 DEF NoGap
  <2>2. last \in 0..numbered'[u]
    <3>1. numbered[u] \in Nat /\ numbered'[u] \in Nat /\ numbered[u] <= numbered'[u]
      <4>1. numbered \in [GroundStations -> Nat] /\ numbered' \in [GroundStations -> Nat]
        BY DEF StationTypeOK
      <4> QED BY <4>1
    <3> QED BY <3>1
  <2>3. ChannelHolds(u, last)'
    BY <1>1, <1>2, <2>1 DEF ChannelHolds
  <2> QED BY <2>2, <2>3
<1>5. consumer' = "receiving" => NoGap' /\ InOrder'
  BY <1>4 DEF NoGap, InOrder
<1> QED BY <1>3, <1>5

(* The stations and the accept loop. *)
LEMMA StationsKeep ==
  ASSUME StationIInv, NEW s \in GroundStations,
         \/ StationConnects(s) \/ StationSends(s) \/ StationFallsSilent(s) \/ SpawnHandler(s)
  PROVE  StationIInv'
<1> USE DEF wireVars, consumerVars
<1>0. /\ StationTypeOK /\ numbered[s] \in Nat /\ incoming[s] \in Seq(Nat)
      /\ reader[s] = "sending" <=> frame[s] # NoFrame
      /\ frame[s] # NoFrame => frame[s] = Forwarded(s) + 1
      /\ \A i \in DOMAIN incoming[s] :
           incoming[s][i] = numbered[s] - Len(incoming[s]) + i
  BY DEF StationIInv, HandlerHolds, StationTypeOK
<1>1. ASSUME UNCHANGED <<channel, consumer, consumed, frame, incoming, numbered>>,
             StationTypeOK', reader'[s] # "sending", reader[s] \notin {"sending", "ended"},
             \A u \in GroundStations \ {s} : reader'[u] = reader[u]
      PROVE  StationIInv'
  <2>1. Forwarded(s)' = Forwarded(s)
    BY <1>1 DEF Forwarded
  <2> QED BY <1>0, <1>1, <2>1, LineKeeps
<1>2. CASE StationConnects(s)
  <2>1. StationTypeOK'
    BY <1>0, <1>2 DEF StationConnects, StationTypeOK
  <2> QED BY <1>0, <1>1, <1>2, <2>1 DEF StationConnects, StationTypeOK
<1>3. CASE SpawnHandler(s)
  <2>1. StationTypeOK'
    BY <1>0, <1>3 DEF SpawnHandler, StationTypeOK
  <2> QED BY <1>0, <1>1, <1>3, <2>1 DEF SpawnHandler, StationTypeOK
<1>4. CASE StationFallsSilent(s)
  <2>1. StationTypeOK' /\ UNCHANGED <<channel, consumer, consumed, frame, incoming,
                                     numbered, reader>>
    BY <1>0, <1>4 DEF StationFallsSilent, StationTypeOK
  <2>2. Forwarded(s)' = Forwarded(s) /\ reader[s] # "ended"
    BY <1>4, <2>1 DEF Forwarded, StationFallsSilent
  <2> QED BY <1>0, <2>1, <2>2, LineKeeps
<1>5. CASE StationSends(s)
  <2> DEFINE more == Append(incoming[s], numbered[s] + 1)
  <2>1. /\ numbered' = [numbered EXCEPT ![s] = @ + 1]
        /\ incoming' = [incoming EXCEPT ![s] = more] /\ reader[s] # "ended"
        /\ UNCHANGED <<server, shutdown, reader, frame, silent, channel, consumer, consumed>>
    BY <1>5 DEF StationSends
  <2>2. more \in Seq(Nat) /\ Len(more) = Len(incoming[s]) + 1 /\ Len(incoming[s]) \in Nat
        /\ DOMAIN more = 1..Len(incoming[s]) + 1
        /\ \A i \in DOMAIN more : more[i] = IF i <= Len(incoming[s]) THEN incoming[s][i]
                                            ELSE numbered[s] + 1
    BY <1>0
  <2>3. incoming'[s] = more /\ numbered'[s] = numbered[s] + 1
    BY <1>0, <2>1 DEF StationTypeOK
  <2> HIDE DEF more
  <2>4. StationTypeOK'
    BY <1>0, <2>1, <2>2 DEF StationTypeOK
  <2>5. Forwarded(s)' = Forwarded(s)
    BY <1>0, <2>1, <2>2, <2>3 DEF Forwarded
  <2>6. ASSUME NEW i \in DOMAIN more
        PROVE  more[i] = numbered'[s] - Len(more) + i
    <3>1. CASE i <= Len(incoming[s])
      <4>1. i \in Int /\ i \in DOMAIN incoming[s]
        BY <1>0, <2>2, <3>1
      <4>2. more[i] = numbered[s] - Len(incoming[s]) + i
        BY <1>0, <2>2, <3>1, <4>1
      <4>3. /\ numbered[s] \in Int /\ Len(incoming[s]) \in Int
            /\ numbered'[s] = numbered[s] + 1 /\ Len(more) = Len(incoming[s]) + 1
        BY <1>0, <2>2, <2>3
      <4> QED BY <4>1, <4>2, <4>3
    <3>2. CASE ~(i <= Len(incoming[s]))
      <4>1. i = Len(incoming[s]) + 1 /\ more[i] = numbered[s] + 1
        BY <2>2, <3>2
      <4> QED BY <1>0, <2>2, <2>3, <4>1
    <3> QED BY <3>1, <3>2
  <2>7. \A u \in GroundStations \ {s} :
          UNCHANGED <<reader[u], frame[u], incoming[u], numbered[u]>>
    BY <1>0, <2>1 DEF StationTypeOK
  <2>8. numbered[s] <= numbered'[s]
    BY <1>0, <2>3
  <2>9. \A i \in DOMAIN incoming'[s] :
          incoming'[s][i] = numbered'[s] - Len(incoming'[s]) + i
    BY <2>3, <2>6
  <2>10. /\ UNCHANGED <<channel, consumer, consumed>>
         /\ reader'[s] = reader[s] /\ frame'[s] = frame[s]
    BY <2>1
  <2> QED BY <1>0, <2>1, <2>4, <2>5, <2>7, <2>8, <2>9, <2>10, LineKeeps
<1> QED BY <1>2, <1>3, <1>4, <1>5

(* connection_handler *)
LEMMA StationHandlerKeeps ==
  ASSUME StationIInv, NEW s \in GroundStations, StationHandlerStep(s)
  PROVE  StationIInv'
<1> USE DEF wireVars, consumerVars, Release
<1>0. /\ StationTypeOK /\ numbered[s] \in Nat /\ incoming[s] \in Seq(Nat)
      /\ reader[s] = "sending" <=> frame[s] # NoFrame
      /\ frame[s] # NoFrame => frame[s] = Forwarded(s) + 1
      /\ \A i \in DOMAIN incoming[s] :
           incoming[s][i] = numbered[s] - Len(incoming[s]) + i
  BY DEF StationIInv, HandlerHolds, StationTypeOK
<1>1. CASE ReadStationFrame(s)
  <2>1. /\ reader[s] = "reading" /\ incoming[s] # <<>>
        /\ reader' = [reader EXCEPT ![s] = "sending"]
        /\ frame' = [frame EXCEPT ![s] = Head(incoming[s])]
        /\ incoming' = [incoming EXCEPT ![s] = Tail(incoming[s])]
        /\ UNCHANGED <<server, shutdown, silent, numbered, channel, consumer, consumed>>
    BY <1>1 DEF ReadStationFrame
  <2>2. /\ Tail(incoming[s]) \in Seq(Nat) /\ Len(incoming[s]) \in Nat \ {0}
        /\ Len(Tail(incoming[s])) = Len(incoming[s]) - 1
        /\ \A i \in DOMAIN Tail(incoming[s]) :
             i \in Nat /\ i + 1 \in DOMAIN incoming[s] /\ Tail(incoming[s])[i] = incoming[s][i + 1]
        /\ Head(incoming[s]) = incoming[s][1] /\ 1 \in DOMAIN incoming[s]
        /\ Head(incoming[s]) \in Nat
    BY <1>0, <2>1
  <2>3. /\ incoming'[s] = Tail(incoming[s]) /\ frame'[s] = Head(incoming[s])
        /\ reader'[s] = "sending" /\ frame[s] = NoFrame /\ numbered'[s] = numbered[s]
    BY <1>0, <2>1 DEF StationTypeOK
  <2>4. StationTypeOK'
    BY <1>0, <2>1, <2>2 DEF StationTypeOK
  <2>5. frame'[s] # NoFrame
    BY <2>2, <2>3, StationAssumption
  <2>6. frame'[s] = numbered[s] - Len(incoming[s]) + 1
    BY <1>0, <2>2, <2>3
  <2>7. Forwarded(s)' = Forwarded(s) /\ Forwarded(s) = numbered[s] - Len(incoming[s])
    BY <1>0, <2>2, <2>3, <2>5 DEF Forwarded
  <2>8. \A i \in DOMAIN incoming'[s] :
          incoming'[s][i] = numbered'[s] - Len(incoming'[s]) + i
    BY <1>0, <2>2, <2>3
  <2>9. \A u \in GroundStations \ {s} :
          UNCHANGED <<reader[u], frame[u], incoming[u], numbered[u]>>
    BY <1>0, <2>1 DEF StationTypeOK
  <2>10. frame'[s] = Forwarded(s)' + 1
    BY <2>6, <2>7
  <2>11. numbered[s] <= numbered'[s] /\ reader[s] # "ended"
    BY <1>0, <2>1, <2>3
  <2>12. UNCHANGED <<channel, consumer, consumed>>
    BY <2>1
  <2> QED BY <2>3, <2>4, <2>5, <2>7, <2>8, <2>9, <2>10, <2>11, <2>12, LineKeeps
<1>2. ASSUME Release(s, "ended"), incoming' = [incoming EXCEPT ![s] = <<>>],
             UNCHANGED <<server, shutdown, silent, numbered, channel, consumer, consumed>>
      PROVE  StationIInv'
  <2>1. /\ incoming'[s] = <<>> /\ frame'[s] = NoFrame /\ reader'[s] = "ended"
        /\ numbered'[s] = numbered[s]
        /\ \A u \in GroundStations \ {s} :
             UNCHANGED <<reader[u], frame[u], incoming[u], numbered[u]>>
    BY <1>0, <1>2 DEF StationTypeOK
  <2>2. StationTypeOK'
    BY <1>0, <1>2 DEF StationTypeOK
  <2>3. DOMAIN incoming'[s] = {} /\ numbered[s] <= numbered'[s]
    BY <1>0, <2>1
  <2> QED BY <1>2, <2>1, <2>2, <2>3, LineKeeps
<1>3. CASE SessionEnds(s)
  BY <1>2, <1>3 DEF SessionEnds
<1>4. CASE HandlerSeesShutdown(s)
  <2>1. incoming = [incoming EXCEPT ![s] = <<>>]
    BY <1>0, <1>4 DEF HandlerSeesShutdown, StationTypeOK
  <2> QED BY <1>2, <1>4, <2>1 DEF HandlerSeesShutdown
<1>5. CASE ForwardFails(s)
  <2>1. /\ consumer = "gone" /\ Release(s, "ended")
        /\ UNCHANGED <<server, shutdown, incoming, silent, numbered, channel, consumer, consumed>>
    BY <1>5 DEF ForwardFails
  <2>2. StationTypeOK'
    BY <1>0, <2>1 DEF StationTypeOK
  <2>3. \A u \in GroundStations \ {s} : reader'[u] = reader[u] /\ frame'[u] = frame[u]
    BY <1>0, <2>1 DEF StationTypeOK
  <2>4. frame'[s] = NoFrame /\ reader'[s] = "ended"
    BY <1>0, <2>1 DEF StationTypeOK
  <2>5. HandlerHolds'
    BY <2>1, <2>3, <2>4 DEF StationIInv, HandlerHolds, Forwarded
  <2> QED BY <2>1, <2>2, <2>5 DEF StationIInv
<1>6. CASE ForwardFrame(s)
  <2>1. /\ reader[s] = "sending" /\ consumer = "receiving" /\ Len(channel) < ChannelSize
        /\ channel' = Append(channel, <<s, frame[s]>>) /\ Release(s, "reading")
        /\ UNCHANGED <<server, shutdown, incoming, silent, numbered, consumer, consumed>>
    BY <1>6 DEF ForwardFrame
  <2>2. frame[s] = Forwarded(s) + 1 /\ frame[s] \in Nat /\ frame[s] # NoFrame
    BY <1>0, <2>1, StationAssumption DEF StationTypeOK
  <2>3. frame'[s] = NoFrame /\ reader'[s] = "reading"
        /\ \A u \in GroundStations \ {s} : reader'[u] = reader[u] /\ frame'[u] = frame[u]
    BY <1>0, <2>1 DEF StationTypeOK
  <2>4. StationTypeOK' /\ Len(channel') <= ChannelSize
    <3>1. <<s, frame[s]>> \in GroundStations \X Nat
      BY <2>2
    <3>2. channel' \in Seq(GroundStations \X Nat) /\ Len(channel') = Len(channel) + 1
          /\ Len(channel) \in Nat
      BY <1>0, <2>1, <3>1 DEF StationTypeOK
    <3>3. Len(channel') <= ChannelSize
      BY <2>1, <3>2, StationAssumption
    <3>4. StationTypeOK'
      BY <1>0, <2>1, <3>2 DEF StationTypeOK
    <3> QED BY <3>3, <3>4
  <2>5. Len(incoming[s]) \in Nat
    BY <1>0
  <2>6. /\ Forwarded(s)' = frame[s] /\ frame[s] <= numbered[s]
        /\ \A u \in GroundStations \ {s} : Forwarded(u)' = Forwarded(u)
    BY <1>0, <2>1, <2>2, <2>3, <2>5 DEF Forwarded
  <2>7. HandlerHolds'
    BY <2>1, <2>3, <2>6 DEF StationIInv, HandlerHolds
  <2>8. \A u \in GroundStations :
          InChannel(u)' = IF u = s THEN InChannel(u) \union {frame[s]} ELSE InChannel(u)
    BY <1>0, <2>1, <2>2, ChannelTakes
  <2>9. ASSUME NEW u \in GroundStations, u # s
        PROVE  (\E last \in 0..numbered[u] : ChannelHolds(u, last))'
    <3>1. PICK last \in 0..numbered[u] : ChannelHolds(u, last)
      BY <2>1 DEF StationIInv, NoGap
    <3>2. ChannelHolds(u, last)'
      BY <2>1, <2>3, <2>6, <2>8, <2>9, <3>1 DEF ChannelHolds
    <3> QED BY <2>1, <3>2
  <2>10. PICK last \in 0..numbered[s] : ChannelHolds(s, last)
    BY <2>1 DEF StationIInv, NoGap
  <2>11. PICK n \in Nat : n = frame[s]
    BY <2>2
  <2>12. /\ last \in Nat /\ last + 1 = n /\ consumed[s] <= last /\ consumed[s] \in Nat
         /\ InChannel(s) = (consumed[s] + 1)..last
    BY <1>0, <2>1, <2>2, <2>10, <2>11 DEF ChannelHolds, StationTypeOK
  <2>13. NoGap'
    <3>1. InChannel(s)' = InChannel(s) \union {n}
      BY <2>8, <2>11
    <3>2. InChannel(s)' = (consumed[s] + 1)..n
      BY <2>12, <3>1
    <3>3. ChannelHolds(s, n)'
      BY <2>1, <2>6, <2>11, <2>12, <3>2 DEF ChannelHolds
    <3>4. n \in 0..numbered'[s]
      BY <1>0, <2>1, <2>6, <2>11
    <3> QED BY <2>9, <3>3, <3>4 DEF NoGap
  <2>14. InOrder'
    <3>1. /\ DOMAIN channel' = 1..Len(channel) + 1 /\ DOMAIN channel = 1..Len(channel)
          /\ \A i \in 1..Len(channel) : channel'[i] = channel[i]
          /\ channel'[Len(channel) + 1] = <<s, frame[s]>> /\ Len(channel) \in Nat
      <4>1. <<s, frame[s]>> \in GroundStations \X Nat
        BY <2>2
      <4> QED BY <1>0, <2>1, <4>1 DEF StationTypeOK
    <3>2. ASSUME NEW i \in 1..Len(channel), channel[i][1] = s PROVE channel[i][2] < frame[s]
      <4>1. channel[i][2] \in InChannel(s)
        BY <3>1, <3>2 DEF InChannel
      <4> QED BY <2>11, <2>12, <4>1
    <3>3. ASSUME NEW i \in DOMAIN channel', NEW j \in DOMAIN channel', i < j,
                 channel'[i][1] = channel'[j][1]
          PROVE  channel'[i][2] < channel'[j][2]
      <4>1. CASE j = Len(channel) + 1
        BY <3>1, <3>2, <3>3, <4>1
      <4>2. CASE j # Len(channel) + 1
        BY <2>1, <3>1, <3>3, <4>2 DEF StationIInv, InOrder
      <4> QED BY <4>1, <4>2
    <3> QED BY <3>3 DEF InOrder
  <2> QED BY <2>4, <2>7, <2>13, <2>14 DEF StationIInv
<1> QED BY <1>1, <1>3, <1>4, <1>5, <1>6 DEF StationHandlerStep

(* The consumer takes the next frame of some station. *)
LEMMA ConsumeKeeps ==
  ASSUME StationIInv, Consume
  PROVE  StationIInv'
<1> USE DEF wireVars
<1> DEFINE h == Head(channel)[1]
           n == Head(channel)[2]
<1>0. /\ StationTypeOK /\ NoGap /\ InOrder /\ channel # <<>>
      /\ channel' = Tail(channel) /\ consumed' = [consumed EXCEPT ![h] = n]
      /\ UNCHANGED <<server, shutdown, reader, frame, incoming, silent, numbered, consumer>>
  BY DEF StationIInv, Consume
<1>1. /\ h \in GroundStations /\ n \in Nat
      /\ \A u \in GroundStations :
           IF u = h THEN /\ InChannel(u)' = InChannel(u) \ {n} /\ n \in InChannel(u)
                         /\ \A m \in InChannel(u) : n <= m
                    ELSE InChannel(u)' = InChannel(u)
  BY <1>0, ChannelGives
<1> HIDE DEF h, n
<1>2. /\ channel' \in Seq(GroundStations \X Nat) /\ Len(channel) \in Nat
      /\ Len(channel') = Len(channel) - 1 /\ DOMAIN channel' = 1..Len(channel) - 1
      /\ DOMAIN channel = 1..Len(channel)
      /\ \A i \in 1..Len(channel) - 1 : channel'[i] = channel[i + 1]
  BY <1>0 DEF StationTypeOK
<1>3. StationTypeOK' /\ Len(channel') <= ChannelSize
  <2>1. Len(channel') <= ChannelSize
    BY <1>2, StationAssumption DEF StationIInv
  <2>2. StationTypeOK'
    BY <1>0, <1>1, <1>2 DEF StationTypeOK
  <2> QED BY <2>1, <2>2
<1>4. \A u \in GroundStations : Forwarded(u)' = Forwarded(u)
  BY <1>0 DEF Forwarded
<1>5. HandlerHolds'
  BY <1>0, <1>4 DEF StationIInv, HandlerHolds
<1>6. InOrder'
  <2>1. ASSUME NEW i \in DOMAIN channel', NEW j \in DOMAIN channel', i < j,
               channel'[i][1] = channel'[j][1]
        PROVE  channel'[i][2] < channel'[j][2]
    <3>1. /\ i + 1 \in DOMAIN channel /\ j + 1 \in DOMAIN channel /\ i + 1 < j + 1
          /\ channel'[i] = channel[i + 1] /\ channel'[j] = channel[j + 1]
      BY <1>2, <2>1
    <3> QED BY <1>0, <2>1, <3>1 DEF InOrder
  <2> QED BY <2>1 DEF InOrder
<1>7. ASSUME NEW u \in GroundStations
      PROVE  (\E last \in 0..numbered[u] : ChannelHolds(u, last))'
  <2>1. PICK last \in 0..numbered[u] : ChannelHolds(u, last)
    BY <1>0 DEF NoGap
  <2>2. CASE u # h
    <3>1. consumed'[u] = consumed[u] /\ InChannel(u)' = InChannel(u)
      BY <1>0, <1>1, <2>2 DEF StationTypeOK
    <3> QED BY <1>0, <1>4, <2>1, <3>1 DEF ChannelHolds
  <2>3. CASE u = h
    <3>1. consumed'[u] = n /\ consumed[u] \in Nat
      BY <1>0, <1>1, <2>3 DEF StationTypeOK
    <3>2. n = consumed[u] + 1 /\ n <= last
      <4>1. InChannel(u) = (consumed[u] + 1)..last /\ n \in InChannel(u)
        BY <1>1, <2>1, <2>3 DEF ChannelHolds
      <4>2. consumed[u] + 1 \in InChannel(u)
        BY <3>1, <4>1
      <4>3. n <= consumed[u] + 1
        BY <1>1, <2>3, <4>2
      <4> QED BY <1>1, <3>1, <4>1, <4>3
    <3>3. InChannel(u)' = (n + 1)..last
      <4>1. InChannel(u)' = ((consumed[u] + 1)..last) \ {n}
        BY <1>1, <2>1, <2>3 DEF ChannelHolds
      <4> QED BY <3>1, <3>2, <4>1
    <3>4. ChannelHolds(u, last)'
      BY <1>0, <1>4, <2>1, <3>1, <3>2, <3>3 DEF ChannelHolds
    <3> QED BY <1>0, <3>4
  <2> QED BY <2>2, <2>3
<1> QED BY <1>3, <1>5, <1>6, <1>7 DEF StationIInv, NoGap

LEMMA StationStepKeeps ==
  ASSUME StationIInv, [StationNext]_stationVars
  PROVE  StationIInv'
<1> USE DEF wireVars, consumerVars
<1>0. StationTypeOK
  BY DEF StationIInv
<1>1. ASSUME UNCHANGED <<reader, frame, incoming, silent, channel, consumer, numbered, consumed>>,
             StationTypeOK'
      PROVE  StationIInv'
  BY <1>1 DEF StationIInv, HandlerHolds, NoGap, InOrder, ChannelHolds, InChannel, Forwarded
<1>2. CASE SignalShutdown
  BY <1>0, <1>1, <1>2 DEF SignalShutdown, StationTypeOK
<1>3. CASE UNCHANGED stationVars
  BY <1>0, <1>1, <1>3 DEF stationVars, StationTypeOK
<1>4. CASE Consume
  BY <1>4, ConsumeKeeps
<1>5. CASE ConsumerGoes
  <2>1. StationTypeOK' /\ Len(channel') <= ChannelSize /\ consumer' = "gone"
    BY <1>0, <1>5, StationAssumption DEF ConsumerGoes, StationTypeOK
  <2>2. HandlerHolds'
    BY <1>5 DEF ConsumerGoes, StationIInv, HandlerHolds, Forwarded
  <2> QED BY <2>1, <2>2 DEF StationIInv
<1>6. CASE StopAccepting
  <2>1. UNCHANGED <<frame, incoming, silent, numbered, channel, consumer, consumed>>
    BY <1>6 DEF StopAccepting
  <2>0. ASSUME NEW s \in GroundStations
        PROVE  reader'[s] = reader[s] \/ (reader[s] = "backlog" /\ reader'[s] = "ended")
    <3>1. reader'[s] = IF reader[s] = "backlog" THEN "ended" ELSE reader[s]
      BY <1>6 DEF StopAccepting
    <3> QED BY <3>1
  <2>2. StationTypeOK'
    BY <1>0, <1>6 DEF StopAccepting, StationTypeOK
  <2>3. \A s \in GroundStations : /\ Forwarded(s)' = Forwarded(s)
                                 /\ InChannel(s)' = InChannel(s)
    BY <2>1 DEF Forwarded, InChannel
  <2>4. HandlerHolds'
    BY <2>0, <2>1, <2>3 DEF StationIInv, HandlerHolds
  <2>5. ASSUME consumer = "receiving" PROVE NoGap' /\ InOrder'
    <3>1. ASSUME NEW s \in GroundStations, NEW last \in 0..numbered[s], ChannelHolds(s, last)
          PROVE  ChannelHolds(s, last)'
      BY <2>0, <2>1, <2>3, <3>1 DEF ChannelHolds
    <3> QED BY <2>1, <2>5, <3>1 DEF StationIInv, NoGap, InOrder
  <2> QED BY <2>1, <2>2, <2>4, <2>5 DEF StationIInv
<1> QED BY <1>2, <1>3, <1>4, <1>5, <1>6, StationsKeep, StationHandlerKeeps DEF StationNext

(* What a station sent reaches the consumer in order and without a gap, whatever the
   shutdown, up to the last frame its handler was done with (connection_handler). *)
THEOREM StationFramesFollow == StationSpec => []StationInv
<1>1. StationInit => StationIInv
  <2> SUFFICES ASSUME StationInit PROVE StationIInv
    OBVIOUS
  <2>1. StationTypeOK
    <3>1. channel \in Seq(GroundStations \X Nat) /\ <<>> \in Seq(Nat) /\ FALSE \in BOOLEAN
      BY DEF StationInit
    <3> QED BY <3>1 DEF StationInit, StationTypeOK
  <2>2. HandlerHolds /\ InOrder
    BY DEF StationInit, HandlerHolds, InOrder
  <2>3. ASSUME NEW s \in GroundStations PROVE 0 \in 0..numbered[s] /\ ChannelHolds(s, 0)
    BY <2>3 DEF StationInit, ChannelHolds, InChannel, Forwarded
  <2>4. Len(channel) <= ChannelSize
    BY StationAssumption DEF StationInit
  <2> QED BY <2>1, <2>2, <2>3, <2>4 DEF StationIInv, NoGap
<1>2. StationIInv /\ [StationNext]_stationVars => StationIInv'
  BY StationStepKeeps
<1>3. StationIInv => StationInv
  BY DEF StationIInv, StationInv, HandlerHolds, NoGap, InOrder, ChannelHolds
<1> QED BY <1>1, <1>2, <1>3, PTL DEF StationSpec
===============================================================================
