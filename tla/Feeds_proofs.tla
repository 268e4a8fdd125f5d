------------------------------ MODULE Feeds_proofs ------------------------------
(***************************************************************************)
(* Proofs about the parts that keep, collect or cut up what arrives: the   *)
(* expiring store, the radar receiver, the aggregator and the framing of   *)
(* module 5.                                                               *)
(***************************************************************************)
EXTENDS ExpiringDb, RadarFeed, Aggregator, FrameStream, SequenceTheorems,
        NaturalsInduction, WellFoundedInduction, TLAPS

-----------------------------------------------------------------------------
(* The expiring store *)

Instants == Nat \union {Never}

DbTypeOK ==
  /\ now \in Nat
  /\ \A k \in Present : entries[k] \in Instants
  /\ wakeup \in Instants
  /\ permit \in BOOLEAN /\ shut \in BOOLEAN

Agree == expirations = {<<entries[k], k>> : k \in {j \in Present : entries[j] # Never}}

(* A task that waits has a deadline that no expiration is before. *)
Timely ==
  /\ wakeup = Never => expirations = {}
  /\ wakeup # Never => \A e \in expirations : wakeup <= e[1]

Unwarned == ~permit /\ notifying = {}

(* The shutdown is announced to a task that does not look at the flag any more. *)
Announced == shut /\ task \in {"purge", "wait"} => ~Unwarned

DbIInv ==
  /\ DbTypeOK /\ Agree /\ Announced
  /\ task = "wait" /\ Unwarned => Timely

LEMMA DbInitially == DbInit => DbIInv
<1> SUFFICES ASSUME DbInit PROVE DbIInv
  OBVIOUS
<1> USE DEF DbInit
<1>1. Present = {}
  BY DEF Present
<1>2. DbTypeOK
  BY <1>1 DEF DbTypeOK, Instants
<1>3. Agree
  BY <1>1 DEF Agree
<1> QED BY <1>2, <1>3 DEF DbIInv, Announced

LEMMA EarliestExists ==
  ASSUME NEW T \in SUBSET Nat, T # {}
  PROVE  \E x \in T : \A y \in T : x <= y
<1> DEFINE R == {ss \in Nat \X Nat : ss[1] < ss[2]}
<1>1. IsWellFoundedOn(R, Nat)
  BY NatLessThanWellFounded, Zenon DEF OpToRel
<1>2. \E x \in T : \A y \in T : ~ (<<y, x>> \in R)
  <2> HIDE DEF R
  <2> QED BY <1>1, WFMin, Zenon
<1>3. PICK x \in T : \A y \in T : ~ (<<y, x>> \in R)
  BY <1>2
<1>4. ASSUME NEW y \in T PROVE x <= y
  <2>1. <<y, x>> \in Nat \X Nat /\ x \in Nat /\ y \in Nat
    OBVIOUS
  <2>2. ~(y < x)
    BY <2>1, <1>3
  <2> QED BY <2>1, <2>2
<1> QED BY <1>4

(* An expiration is a pair of an instant and a key. *)
LEMMA ExpirationsAreInstants ==
  ASSUME DbTypeOK, Agree
  PROVE  /\ \A e \in expirations : e[1] \in Nat /\ e[1] # Never
         /\ \A e \in expirations : e[2] \in Present /\ e = <<entries[e[2]], e[2]>>
  BY DbAssumption DEF DbTypeOK, Agree, Instants

(* set keeps the collections together. *)
LEMMA SetAgrees ==
  ASSUME DbTypeOK, Agree,
         NEW c, NEW k, NEW when \in Instants, Set(c, k, when)
  PROVE  Agree'
<1> DEFINE rest == {e \in expirations : ~(k \in Present /\ e = <<entries[k], k>>)}
           new == IF when = Never THEN {} ELSE {<<when, k>>}
<1>1. Present' = Present \union {k} /\ entries'[k] = when
      /\ \A j \in Present : j # k => entries'[j] = entries[j]
  BY DEF Set, Present
<1>2. rest = {<<entries[j], j>> : j \in {i \in Present : entries[i] # Never /\ i # k}}
  BY ExpirationsAreInstants DEF Agree
<1>3. expirations' = rest \union new
  BY DEF Set
<1>4. {<<entries'[j], j>> : j \in {i \in Present' : entries'[i] # Never}} = rest \union new
  BY <1>1, <1>2
<1> QED BY <1>3, <1>4 DEF Agree

LEMMA SetKeeps ==
  ASSUME DbIInv, NEW c, NEW k, NEW when \in Instants, Set(c, k, when)
  PROVE  DbIInv'
<1> USE DEF DbIInv
<1>1. UNCHANGED <<now, permit, shut, task, wakeup>>
  BY DEF Set
<1>2. DbTypeOK'
  BY <1>1 DEF Set, DbTypeOK, Present
<1>3. Agree'
  BY SetAgrees
<1>4. Unwarned' => Unwarned
  BY <1>1 DEF Set, Unwarned
<1>5. Announced'
  BY <1>1, <1>4 DEF Announced
<1>6. ASSUME task' = "wait", Unwarned' PROVE Timely'
  <2>1. Timely
    BY <1>1, <1>4, <1>6
  <2>2. CASE when = Never
    <3>1. expirations' \subseteq expirations
      BY <2>2 DEF Set
    <3> QED BY <1>1, <2>1, <3>1 DEF Timely
  <2>3. CASE when # Never
    <3>1. ~Later(when)
      BY <1>6, <2>3 DEF Set, Unwarned
    <3>2. PICK e \in expirations : ~(e[1] > when)
      BY <3>1 DEF Later
    <3>3. wakeup \in Nat /\ wakeup # Never /\ wakeup <= e[1]
      BY <2>1, <3>2 DEF Timely, DbTypeOK, Instants
    <3>4. e[1] \in Nat /\ when \in Nat
      BY <2>3, ExpirationsAreInstants DEF Instants
    <3>5. wakeup <= when
      BY <3>2, <3>3, <3>4
    <3>6. \A f \in expirations' : f \in expirations \/ f = <<when, k>>
      BY <2>3 DEF Set
    <3>7. \A f \in expirations' : wakeup <= f[1]
      BY <2>1, <3>3, <3>5, <3>6 DEF Timely
    <3> QED BY <1>1, <3>3, <3>7 DEF Timely
  <2> QED BY <2>2, <2>3
<1> QED BY <1>2, <1>3, <1>5, <1>6

LEMMA PurgeKeeps ==
  ASSUME DbIInv, Purge
  PROVE  DbIInv'
<1> USE DEF DbIInv
<1>1. task = "purge" /\ task' = "wait" /\ UNCHANGED <<now, permit, shut, notifying>>
  BY DEF Purge
<1>2. Unwarned' = Unwarned
  BY <1>1 DEF Unwarned
<1>3. Announced'
  BY <1>1, <1>2 DEF Announced
<1>4. CASE shut
  <2>1. wakeup' = Never /\ UNCHANGED <<entries, expirations>>
    BY <1>4 DEF Purge
  <2>2. DbTypeOK' /\ Agree'
    BY <1>1, <2>1 DEF DbTypeOK, Instants, Agree, Present
  <2>3. ~Unwarned'
    BY <1>1, <1>2, <1>4 DEF Announced
  <2> QED BY <1>3, <2>2, <2>3
<1>5. CASE ~shut
  <2> DEFINE rest == {e \in expirations : ~Expired(e[1])}
             kept == {j \in Present : ~\E e \in expirations \ rest : e[2] = j}
  <2>1. expirations' = rest /\ entries' = [k \in kept |-> entries[k]]
    BY <1>5 DEF Purge
  <2>2. Present' = kept /\ \A k \in kept : entries'[k] = entries[k]
    BY <2>1 DEF Present
  <2>3. rest = {<<entries[k], k>> : k \in {j \in kept : entries[j] # Never}}
    <3>1. ASSUME NEW e \in rest
          PROVE  e[2] \in kept /\ entries[e[2]] # Never /\ e = <<entries[e[2]], e[2]>>
      BY ExpirationsAreInstants
    <3>2. ASSUME NEW k \in kept, entries[k] # Never
          PROVE  <<entries[k], k>> \in rest
      <4>1. <<entries[k], k>> \in expirations
        BY <3>2 DEF Agree
      <4> QED BY <4>1
    <3> QED BY <3>1, <3>2
  <2>4. Agree'
    BY <2>1, <2>2, <2>3 DEF Agree
  <2>5. CASE rest = {}
    <3>1. wakeup' = Never
      BY <1>5, <2>5 DEF Purge
    <3>2. DbTypeOK'
      BY <1>1, <2>2, <3>1 DEF DbTypeOK, Instants
    <3> QED BY <1>3, <2>1, <2>4, <2>5, <3>1, <3>2 DEF Timely
  <2>6. CASE rest # {}
    <3> DEFINE first == CHOOSE e \in rest : \A f \in rest : e[1] <= f[1]
               instants == {e[1] : e \in rest}
    <3>1. wakeup' = first[1]
      BY <1>5, <2>6 DEF Purge
    <3>2. instants \in SUBSET Nat /\ instants # {}
      BY <2>6, ExpirationsAreInstants
    <3>3. \E x \in instants : \A y \in instants : x <= y
      BY <3>2, EarliestExists
    <3>4. \E e \in rest : \A f \in rest : e[1] <= f[1]
      BY <3>3
    <3>5. first \in rest /\ \A f \in rest : first[1] <= f[1]
      BY <3>4
    <3>6. wakeup' \in Nat /\ wakeup' # Never
      BY <3>1, <3>5, ExpirationsAreInstants
    <3>7. DbTypeOK'
      BY <1>1, <2>2, <3>6 DEF DbTypeOK, Instants
    <3>8. Timely'
      BY <2>1, <3>1, <3>5, <3>6 DEF Timely
    <3> QED BY <1>3, <2>4, <3>7, <3>8
  <2> QED BY <2>5, <2>6
<1> QED BY <1>4, <1>5

LEMMA DbStepKeeps ==
  ASSUME DbIInv, [DbNext]_dbVars
  PROVE  DbIInv'
<1> USE DEF DbIInv
<1>1. CASE Tick
  BY <1>1 DEF Tick, DbTypeOK, Present, Agree, Announced, Unwarned, Timely
<1>2. CASE DropDb
  <2>1. ~Unwarned'
    BY <1>2 DEF DropDb, Unwarned
  <2>2. DbTypeOK' /\ Agree'
    BY <1>2 DEF DropDb, DbTypeOK, Present, Agree
  <2> QED BY <2>1, <2>2 DEF Announced
<1>3. CASE Notifications
  <2>1. ~Unwarned'
    BY <1>3 DEF Notifications, NotifyOne, Unwarned
  <2>2. DbTypeOK' /\ Agree'
    BY <1>3 DEF Notifications, NotifyOne, DbTypeOK, Present, Agree
  <2> QED BY <2>1, <2>2 DEF Announced
<1>4. CASE CheckShutdown
  BY <1>4 DEF CheckShutdown, DbTypeOK, Present, Agree, Announced, Unwarned
<1>5. CASE Purge
  BY <1>5, PurgeKeeps
<1>6. CASE Woken
  <2>1. task' = "check"
    BY <1>6 DEF Woken
  <2>2. DbTypeOK' /\ Agree'
    BY <1>6 DEF Woken, DbTypeOK, Present, Agree, Instants
  <2> QED BY <2>1, <2>2 DEF Announced
<1>7. ASSUME NEW c \in Setters, NEW k \in Keys, Set(c, k, Never) PROVE DbIInv'
  BY <1>7, SetKeeps DEF Instants
<1>8. ASSUME NEW c \in Setters, NEW k \in Keys, NEW d \in Durations, Set(c, k, now + d)
      PROVE  DbIInv'
  <2>1. now + d \in Instants
    BY DbAssumption DEF DbTypeOK, Instants
  <2> QED BY <1>8, <2>1, SetKeeps
<1>9. CASE UNCHANGED dbVars
  BY <1>9 DEF dbVars, DbTypeOK, Present, Agree, Announced, Unwarned, Timely
<1> QED BY <1>1, <1>2, <1>3, <1>4, <1>5, <1>6, <1>7, <1>8, <1>9 DEF DbNext, PurgeTask

(* The purge task is never asleep past the earliest expiration, nor past the shutdown,
   unless a notification is under way; and the two collections agree (set,
   shutdown_purge_task, purge_expired_tasks). *)
THEOREM NeverAsleepTooLong == DbSpec => []DbInv
<1>1. DbInit => DbIInv
  BY DbInitially
<1>2. DbIInv /\ [DbNext]_dbVars => DbIInv'
  BY DbStepKeeps
<1>3. DbIInv => DbInv
  BY DEF DbIInv, DbInv, Agree, Announced, Unwarned, Timely
<1> QED BY <1>1, <1>2, <1>3, PTL DEF DbSpec

-----------------------------------------------------------------------------
(* The radar receiver *)

(* close() waits for the task that sends before the one that receives, which ends
   only with the channel empty and nobody left to fill it. *)
RadarIInv ==
  /\ guard \in {"live", "joinTransmit", "joinRecv", "closed", "dropped"}
  /\ transmit \in {"running", "ended"} /\ recv \in {"running", "ended"}
  /\ detections \in Nat /\ accepted \in Nat /\ processed \in Nat
  /\ accepted = processed + detections /\ detections <= Bound
  /\ guard \in {"joinRecv", "closed"} => transmit = "ended"
  /\ guard = "closed" => recv = "ended"
  /\ recv = "ended" => transmit = "ended" /\ detections = 0

LEMMA RadarStepKeeps ==
  ASSUME RadarIInv, [RadarNext]_radarVars
  PROVE  RadarIInv'
<1> USE RadarAssumption DEF RadarIInv, countVars
<1>1. CASE Arrive
  BY <1>1 DEF Arrive
<1>2. CASE Transmit
  <2>1. CASE UNCHANGED <<detections, accepted>>
    BY <1>2, <2>1 DEF Transmit
  <2>2. CASE detections < Bound /\ detections' = detections + 1 /\ accepted' = accepted + 1
    BY <1>2, <2>2 DEF Transmit
  <2> QED BY <1>2, <2>1, <2>2 DEF Transmit
<1>3. CASE Process
  BY <1>3 DEF Process
<1>4. CASE TaskStep
  BY <1>4 DEF TaskStep, TransmitStops, SenderClosed
<1>5. CASE BeginClose
  BY <1>5 DEF BeginClose
<1>6. CASE CloseStep
  BY <1>6 DEF CloseStep, TransmitJoined, RecvJoined
<1>7. CASE DropGuard
  BY <1>7 DEF DropGuard
<1>8. CASE UNCHANGED radarVars
  BY <1>8 DEF radarVars
<1> QED BY <1>1, <1>2, <1>3, <1>4, <1>5, <1>6, <1>7, <1>8 DEF RadarNext

(* No detection that the channel took is lost, and a guard that closed left no task
   behind (UdpSysGuard::close, RecvEnd::poll). *)
THEOREM DetectionsProcessed == RadarSpec => []RadarInv
<1>1. RadarInit => RadarIInv
  BY RadarAssumption DEF RadarInit, RadarIInv
<1>2. RadarIInv /\ [RadarNext]_radarVars => RadarIInv'
  BY RadarStepKeeps
<1>3. RadarIInv => RadarInv
  BY DEF RadarIInv, RadarInv
<1> QED BY <1>1, <1>2, <1>3, PTL DEF RadarSpec

-----------------------------------------------------------------------------
(* The aggregator *)

Messages == [kind : {"frame", "depth", "drain"}, frame : Nat, reply : Callers]

AggTypeOK ==
  /\ mailbox \in Seq(Messages) /\ buffer \in Seq(Nat) /\ actor \in {"running", "ended"}
  /\ call \in [Callers -> {"idle", "frame", "depth", "drain", "awaitDepth", "awaitDrain",
                           "gone"}]
  /\ sent \in Nat /\ popped \in Nat /\ drainedTo \in Nat /\ lost \in Nat

FramesIn == {mailbox[i].frame : i \in FramesWaiting}

MailOrdered ==
  \A i, j \in FramesWaiting : i < j => mailbox[i].frame < mailbox[j].frame

(* The mailbox holds the frames the actor has not taken. *)
MailHolds ==
  /\ Len(mailbox) <= MailboxSize /\ popped <= sent
  /\ FramesIn = (popped + 1)..sent /\ MailOrdered

(* The buffer holds the last ones it took, since the last drain. *)
BufferHolds ==
  /\ drainedTo <= popped
  /\ \A i \in DOMAIN buffer : buffer[i] = popped - Len(buffer) + i
  /\ Len(buffer) = IF popped - drainedTo < MaxBuffer THEN popped - drainedTo ELSE MaxBuffer
  /\ lost + Len(buffer) = popped

EndsEmpty ==
  actor = "ended" => mailbox = <<>> /\ \A c \in Callers : call[c] = "gone"

AggIInv == AggTypeOK /\ MailHolds /\ BufferHolds /\ EndsEmpty

(* What a message adds to the mailbox, and what leaves it with the first one. *)
LEMMA MailboxTakes ==
  ASSUME AggTypeOK, MailOrdered, NEW m \in Messages, mailbox' = Append(mailbox, m),
         m.kind = "frame" => \A n \in FramesIn : n < m.frame
  PROVE  /\ mailbox' \in Seq(Messages) /\ Len(mailbox') = Len(mailbox) + 1
         /\ FramesIn' = FramesIn \union (IF m.kind = "frame" THEN {m.frame} ELSE {})
         /\ MailOrdered'
<1>1. /\ DOMAIN mailbox' = 1..Len(mailbox) + 1 /\ DOMAIN mailbox = 1..Len(mailbox)
      /\ \A i \in 1..Len(mailbox) : mailbox'[i] = mailbox[i]
      /\ mailbox'[Len(mailbox) + 1] = m /\ Len(mailbox) \in Nat
      /\ mailbox' \in Seq(Messages) /\ Len(mailbox') = Len(mailbox) + 1
  BY DEF AggTypeOK
<1>2. FramesWaiting' =
        FramesWaiting \union (IF m.kind = "frame" THEN {Len(mailbox) + 1} ELSE {})
  BY <1>1 DEF FramesWaiting
<1>3. FramesWaiting \subseteq 1..Len(mailbox)
  BY <1>1 DEF FramesWaiting
<1>4. FramesIn' = FramesIn \union (IF m.kind = "frame" THEN {m.frame} ELSE {})
  BY <1>1, <1>2, <1>3 DEF FramesIn
<1>5. ASSUME NEW i \in FramesWaiting', NEW j \in FramesWaiting', i < j
      PROVE  mailbox'[i].frame < mailbox'[j].frame
  <2>1. CASE j = Len(mailbox) + 1
    <3>1. i \in FramesWaiting /\ m.kind = "frame"
      BY <1>1, <1>2, <1>3, <1>5, <2>1
    <3>2. mailbox[i].frame \in FramesIn
      BY <3>1 DEF FramesIn
    <3> QED BY <1>1, <1>3, <2>1, <3>1, <3>2
  <2>2. CASE j # Len(mailbox) + 1
    <3>1. i \in FramesWaiting /\ j \in FramesWaiting
      BY <1>1, <1>2, <1>3, <1>5, <2>2
    <3> QED BY <1>1, <1>3, <1>5, <3>1 DEF MailOrdered
  <2> QED BY <2>1, <2>2
<1> QED BY <1>1, <1>4, <1>5 DEF MailOrdered

LEMMA MailboxGives ==
  ASSUME AggTypeOK, MailOrdered, mailbox # <<>>, mailbox' = Tail(mailbox)
  PROVE  /\ mailbox' \in Seq(Messages) /\ Len(mailbox') = Len(mailbox) - 1
         /\ Head(mailbox) \in Messages
         /\ IF Head(mailbox).kind = "frame"
            THEN /\ FramesIn' = FramesIn \ {Head(mailbox).frame}
                 /\ Head(mailbox).frame \in FramesIn
                 /\ \A n \in FramesIn : Head(mailbox).frame <= n
            ELSE FramesIn' = FramesIn
         /\ MailOrdered'
<1>1. /\ Len(mailbox) \in Nat \ {0} /\ DOMAIN mailbox = 1..Len(mailbox)
      /\ DOMAIN mailbox' = 1..Len(mailbox) - 1
      /\ \A i \in 1..Len(mailbox) - 1 : mailbox'[i] = mailbox[i + 1]
      /\ Head(mailbox) = mailbox[1] /\ Len(mailbox') = Len(mailbox) - 1
      /\ mailbox' \in Seq(Messages)
  BY DEF AggTypeOK
<1>2. \A i \in 1..Len(mailbox) : mailbox[i] \in Messages /\ mailbox[i].frame \in Nat
  <2>1. \A i \in 1..Len(mailbox) : mailbox[i] \in Messages
    BY DEF AggTypeOK
  <2>2. \A m \in Messages : m.frame \in Nat
    BY DEF Messages
  <2> QED BY <2>1, <2>2
<1>3. \A i \in 1..Len(mailbox) - 1 : i \in FramesWaiting' <=> i + 1 \in FramesWaiting
  BY <1>1 DEF FramesWaiting
<1>4. /\ FramesWaiting' \subseteq 1..Len(mailbox) - 1
      /\ FramesWaiting \subseteq 1..Len(mailbox)
      /\ 1 \in FramesWaiting <=> mailbox[1].kind = "frame"
  BY <1>1 DEF FramesWaiting
<1>5. MailOrdered'
  <2>1. ASSUME NEW i \in FramesWaiting', NEW j \in FramesWaiting', i < j
        PROVE  mailbox'[i].frame < mailbox'[j].frame
    <3>1. /\ i + 1 \in FramesWaiting /\ j + 1 \in FramesWaiting /\ i + 1 < j + 1
          /\ mailbox'[i] = mailbox[i + 1] /\ mailbox'[j] = mailbox[j + 1]
      BY <1>1, <1>3, <1>4, <2>1
    <3> QED BY <3>1 DEF MailOrdered
  <2> QED BY <2>1 DEF MailOrdered
<1>6. FramesIn' = {mailbox[i].frame : i \in FramesWaiting \ {1}}
  <2>1. ASSUME NEW i \in FramesWaiting \ {1} PROVE mailbox[i].frame \in FramesIn'
    <3>1. /\ i - 1 \in 1..Len(mailbox) - 1 /\ (i - 1) + 1 = i
      BY <1>1, <1>4
    <3>2. i - 1 \in FramesWaiting' /\ mailbox'[i - 1] = mailbox[i]
      BY <1>1, <1>3, <3>1
    <3> QED BY <3>2 DEF FramesIn
  <2>2. ASSUME NEW i \in FramesWaiting'
        PROVE  mailbox'[i].frame \in {mailbox[j].frame : j \in FramesWaiting \ {1}}
    <3>1. /\ i + 1 \in FramesWaiting \ {1} /\ mailbox'[i] = mailbox[i + 1]
      BY <1>1, <1>3, <1>4
    <3> QED BY <3>1
  <2> QED BY <2>1, <2>2 DEF FramesIn
<1>7. CASE mailbox[1].kind = "frame"
  <2>1. FramesIn = FramesIn' \union {mailbox[1].frame}
    BY <1>4, <1>6, <1>7 DEF FramesIn
  <2>2. \A n \in FramesIn' : n \in Nat /\ mailbox[1].frame < n
    <3>1. \A i \in FramesWaiting \ {1} : mailbox[i].frame \in Nat
                                         /\ mailbox[1].frame < mailbox[i].frame
      BY <1>1, <1>2, <1>4, <1>7 DEF MailOrdered
    <3> QED BY <1>6, <3>1
  <2>3. mailbox[1].frame \in Nat
    BY <1>1, <1>2
  <2> QED BY <1>1, <1>2, <1>5, <1>7, <2>1, <2>2, <2>3
<1>8. CASE mailbox[1].kind # "frame"
  <2>1. FramesIn = FramesIn'
    BY <1>4, <1>6, <1>8 DEF FramesIn
  <2> QED BY <1>1, <1>2, <1>5, <1>8, <2>1
<1> QED BY <1>7, <1>8

(* The handles. *)
LEMMA HandleKeeps ==
  ASSUME AggIInv, NEW c \in Callers,
         Call(c) \/ SendFrame(c) \/ SendRequest(c) \/ Leave(c)
  PROVE  AggIInv'
<1>0. AggTypeOK /\ MailHolds /\ BufferHolds /\ EndsEmpty
  BY DEF AggIInv
<1>1. CASE Call(c) \/ Leave(c)
  <2>1. /\ UNCHANGED <<mailbox, buffer, actor, sent, popped, drainedTo, lost>>
        /\ \E state \in {"idle", "frame", "depth", "drain", "gone"} :
             /\ call' = [call EXCEPT ![c] = state]
             /\ call[c] = "gone" => state = "gone"
    BY <1>1 DEF Call, Leave, Requests
  <2>2. AggTypeOK'
    BY <1>0, <2>1 DEF AggTypeOK
  <2>3. EndsEmpty'
    BY <1>0, <1>1, <2>1 DEF EndsEmpty, AggTypeOK, Call, Leave
  <2> QED BY <1>0, <2>1, <2>2, <2>3
          DEF AggIInv, MailHolds, FramesIn, MailOrdered, FramesWaiting, BufferHolds
<1>2. ASSUME NEW m \in Messages, mailbox' = Append(mailbox, m), Room,
             NEW state \in {"idle", "awaitDepth", "awaitDrain"},
             call' = [call EXCEPT ![c] = state], call[c] # "gone",
             UNCHANGED <<buffer, actor, popped, drainedTo, lost>>,
             IF m.kind = "frame" THEN m.frame = sent + 1 /\ sent' = sent + 1
                                 ELSE sent' = sent
      PROVE  AggIInv'
  <2>1. m.kind = "frame" => \A n \in FramesIn : n < m.frame
    BY <1>0, <1>2 DEF MailHolds, AggTypeOK
  <2>2. /\ mailbox' \in Seq(Messages) /\ Len(mailbox') = Len(mailbox) + 1
        /\ FramesIn' = FramesIn \union (IF m.kind = "frame" THEN {m.frame} ELSE {})
        /\ MailOrdered'
    BY <1>0, <1>2, <2>1, MailboxTakes DEF MailHolds
  <2>3. AggTypeOK'
    BY <1>0, <1>2, <2>2 DEF AggTypeOK
  <2>4. FramesIn' = (popped' + 1)..sent' /\ popped' <= sent'
    BY <1>0, <1>2, <2>2 DEF MailHolds, AggTypeOK
  <2>5. Len(mailbox') <= MailboxSize
    <3>1. Len(mailbox) \in Nat
      BY <1>0 DEF AggTypeOK
    <3> QED BY <1>2, <2>2, <3>1, AggAssumption DEF Room
  <2>6. BufferHolds'
    BY <1>0, <1>2 DEF BufferHolds
  <2>7. EndsEmpty'
    BY <1>0, <1>2 DEF EndsEmpty, AggTypeOK
  <2> QED BY <2>2, <2>3, <2>4, <2>5, <2>6, <2>7 DEF AggIInv, MailHolds
<1>3. CASE SendFrame(c)
  <2>1. [kind |-> "frame", frame |-> sent + 1, reply |-> c] \in Messages
    BY <1>0 DEF Messages, AggTypeOK
  <2> QED BY <1>2, <1>3, <2>1 DEF SendFrame
<1>4. CASE SendRequest(c)
  <2>1. /\ [kind |-> call[c], frame |-> 0, reply |-> c] \in Messages
        /\ call[c] \in {"depth", "drain"}
    BY <1>4 DEF Messages, SendRequest, Requests
  <2>2. Await(call[c]) \in {"awaitDepth", "awaitDrain"}
    BY DEF Await
  <2> QED BY <1>2, <1>4, <2>1, <2>2 DEF SendRequest
<1> QED BY <1>1, <1>3, <1>4

(* A frame is put into the buffer. *)
LEMMA TakeFrameKeeps ==
  ASSUME AggIInv, TakeFrame, actor = "running"
  PROVE  AggIInv'
<1> DEFINE f == Head(mailbox).frame
           kept == IF Len(buffer) >= MaxBuffer THEN Tail(buffer) ELSE buffer
<1>0. AggTypeOK /\ MailHolds /\ BufferHolds /\ Len(buffer) \in Nat
  BY DEF AggIInv, AggTypeOK
<1>1. /\ mailbox # <<>> /\ Head(mailbox).kind = "frame" /\ mailbox' = Tail(mailbox)
      /\ buffer' = Append(kept, f)
      /\ lost' = (IF Len(buffer) >= MaxBuffer THEN Head(buffer) ELSE lost)
      /\ popped' = popped + 1 /\ UNCHANGED <<actor, call, sent, drainedTo>>
  BY DEF TakeFrame, Buffered
<1>2. /\ mailbox' \in Seq(Messages) /\ Len(mailbox') = Len(mailbox) - 1
      /\ FramesIn' = FramesIn \ {f} /\ f \in FramesIn /\ f \in Nat
      /\ \A n \in FramesIn : f <= n
      /\ MailOrdered'
  <2>1. Head(mailbox) \in Messages
    BY <1>0, <1>1, MailboxGives DEF MailHolds
  <2> QED BY <1>0, <1>1, <2>1, MailboxGives DEF MailHolds, Messages
<1> HIDE DEF f
<1>3. f = popped + 1 /\ popped + 1 <= sent
  <2>1. FramesIn = (popped + 1)..sent /\ popped \in Nat /\ sent \in Nat
    BY <1>0 DEF MailHolds, AggTypeOK
  <2>2. popped + 1 \in FramesIn
    BY <1>2, <2>1
  <2> QED BY <1>2, <2>1, <2>2
<1>4. MailHolds'
  <2>1. FramesIn' = (popped' + 1)..sent'
    BY <1>0, <1>1, <1>2, <1>3 DEF MailHolds, AggTypeOK
  <2>2. Len(mailbox') <= MailboxSize
    <3>1. Len(mailbox) \in Nat
      BY <1>0 DEF AggTypeOK
    <3> QED BY <1>0, <1>2, <3>1, AggAssumption DEF MailHolds
  <2> QED BY <1>0, <1>1, <1>2, <1>3, <2>1, <2>2 DEF MailHolds
<1>5. Len(buffer) <= MaxBuffer
  BY <1>0, AggAssumption DEF BufferHolds, AggTypeOK
<1>6. /\ kept \in Seq(Nat) /\ Len(kept) \in Nat
      /\ Len(kept) = IF Len(buffer) = MaxBuffer THEN MaxBuffer - 1 ELSE Len(buffer)
      /\ \A i \in 1..Len(kept) : kept[i] = popped - Len(kept) + i
  <2>1. CASE Len(buffer) >= MaxBuffer
    <3>1. Len(buffer) = MaxBuffer /\ buffer # <<>> /\ buffer \in Seq(Nat) /\ kept = Tail(buffer)
      BY <1>0, <1>5, <2>1, AggAssumption DEF AggTypeOK
    <3>2. /\ kept \in Seq(Nat) /\ Len(kept) = Len(buffer) - 1
          /\ \A i \in 1..Len(kept) : kept[i] = buffer[i + 1]
      BY <3>1, HeadTailProperties
    <3>3. ASSUME NEW i \in 1..Len(kept)
          PROVE  kept[i] = popped - Len(kept) + i
      <4>1. i + 1 \in DOMAIN buffer /\ kept[i] = buffer[i + 1]
        BY <1>0, <3>1, <3>2
      <4>2. buffer[i + 1] = popped - Len(buffer) + (i + 1)
        BY <1>0, <4>1 DEF BufferHolds
      <4>3. /\ popped \in Nat /\ Len(kept) = Len(buffer) - 1 /\ Len(buffer) \in Nat
            /\ i \in Int
        BY <1>0, <3>2 DEF AggTypeOK
      <4> HIDE DEF kept
      <4> QED BY <4>1, <4>2, <4>3
    <3>4. Len(kept) = MaxBuffer - 1 /\ Len(kept) \in Nat /\ kept \in Seq(Nat)
      BY <3>1, <3>2, AggAssumption
    <3> HIDE DEF kept
    <3> QED BY <3>1, <3>3, <3>4
  <2>2. CASE ~(Len(buffer) >= MaxBuffer)
    <3>1. kept = buffer /\ Len(buffer) # MaxBuffer
      BY <2>2, <1>0, AggAssumption
    <3>2. buffer \in Seq(Nat) /\ DOMAIN buffer = 1..Len(buffer)
      BY <1>0 DEF AggTypeOK
    <3> HIDE DEF kept
    <3> QED BY <1>0, <3>1, <3>2 DEF BufferHolds
  <2> QED BY <2>1, <2>2
<1>7. /\ buffer' \in Seq(Nat) /\ Len(buffer') = Len(kept) + 1
      /\ DOMAIN buffer' = 1..Len(kept) + 1
      /\ \A i \in 1..Len(kept) + 1 : buffer'[i] = IF i <= Len(kept) THEN kept[i] ELSE f
  <2> HIDE DEF kept
  <2> QED BY <1>1, <1>2, <1>6
<1> HIDE DEF kept
<1>8. lost' \in Nat /\ lost' + Len(buffer') = popped'
  <2>1. CASE Len(buffer) >= MaxBuffer
    <3>1. Len(buffer) = MaxBuffer /\ buffer # <<>> /\ 1 \in DOMAIN buffer /\ buffer \in Seq(Nat)
      BY <1>0, <1>5, <2>1, AggAssumption DEF AggTypeOK
    <3>2. lost' = buffer[1] /\ buffer[1] \in Nat
      BY <1>1, <2>1, <3>1
    <3>3. lost' = popped - MaxBuffer + 1
      BY <1>0, <3>1, <3>2 DEF BufferHolds
    <3> QED BY <1>0, <1>1, <1>6, <1>7, <3>1, <3>2, <3>3, AggAssumption DEF AggTypeOK
  <2>2. CASE ~(Len(buffer) >= MaxBuffer)
    BY <1>0, <1>1, <1>6, <1>7, <2>2, AggAssumption DEF BufferHolds, AggTypeOK
  <2> QED BY <2>1, <2>2
<1>9. BufferHolds'
  <2>1. ASSUME NEW i \in DOMAIN buffer'
        PROVE  buffer'[i] = popped' - Len(buffer') + i
    <3>1. /\ i \in Int /\ popped \in Int /\ popped' = popped + 1
          /\ Len(kept) \in Int /\ Len(buffer') = Len(kept) + 1
      BY <1>0, <1>1, <1>6, <1>7 DEF AggTypeOK
    <3>2. CASE i <= Len(kept)
      <4>1. i \in 1..Len(kept)
        BY <1>7, <3>1, <3>2
      <4>2. buffer'[i] = popped - Len(kept) + i
        BY <1>6, <1>7, <3>2, <4>1
      <4> QED BY <3>1, <4>2
    <3>3. CASE ~(i <= Len(kept))
      <4>1. i = Len(kept) + 1 /\ buffer'[i] = popped + 1
        BY <1>3, <1>7, <3>1, <3>3
      <4> QED BY <3>1, <4>1
    <3> QED BY <3>2, <3>3
  <2>2. Len(buffer') = IF popped' - drainedTo' < MaxBuffer THEN popped' - drainedTo'
                                                          ELSE MaxBuffer
    <3>1. /\ popped \in Int /\ popped' = popped + 1 /\ drainedTo' = drainedTo
          /\ drainedTo \in Int /\ Len(buffer') = Len(kept) + 1 /\ drainedTo <= popped
          /\ Len(buffer) = IF popped - drainedTo < MaxBuffer THEN popped - drainedTo
                                                             ELSE MaxBuffer
      BY <1>0, <1>1, <1>7 DEF BufferHolds, AggTypeOK
    <3> QED BY <1>6, <3>1, AggAssumption
  <2>3. drainedTo' <= popped'
    BY <1>0, <1>1 DEF BufferHolds, AggTypeOK
  <2> QED BY <1>8, <2>1, <2>2, <2>3 DEF BufferHolds
<1>10. AggTypeOK'
  BY <1>0, <1>1, <1>2, <1>7, <1>8 DEF AggTypeOK
<1>11. EndsEmpty'
  BY <1>1 DEF EndsEmpty
<1> QED BY <1>4, <1>9, <1>10, <1>11 DEF AggIInv

LEMMA ActorKeeps ==
  ASSUME AggIInv, ActorStep
  PROVE  AggIInv'
<1>0. AggTypeOK /\ MailHolds /\ BufferHolds /\ EndsEmpty /\ actor = "running"
  BY DEF AggIInv, ActorStep
<1>1. CASE TakeFrame
  BY <1>0, <1>1, TakeFrameKeeps
<1>2. ASSUME mailbox # <<>>, mailbox' = Tail(mailbox), Head(mailbox).kind # "frame",
             Reply(Head(mailbox)), UNCHANGED <<actor, sent, popped>>
      PROVE  /\ MailHolds' /\ EndsEmpty' /\ mailbox' \in Seq(Messages)
             /\ call' \in [Callers -> {"idle", "frame", "depth", "drain", "awaitDepth",
                                       "awaitDrain", "gone"}]
  <2>1. /\ mailbox' \in Seq(Messages) /\ Len(mailbox') = Len(mailbox) - 1
        /\ Head(mailbox) \in Messages /\ FramesIn' = FramesIn /\ MailOrdered'
    BY <1>0, <1>2, MailboxGives DEF MailHolds
  <2>2. Len(mailbox') <= MailboxSize
    <3>1. Len(mailbox) \in Nat
      BY <1>0 DEF AggTypeOK
    <3> QED BY <1>0, <2>1, <3>1, AggAssumption DEF MailHolds
  <2>3. Head(mailbox).reply \in Callers
    BY <2>1 DEF Messages
  <2>4. call' \in [Callers -> {"idle", "frame", "depth", "drain", "awaitDepth",
                              "awaitDrain", "gone"}]
    BY <1>0, <1>2, <2>3 DEF Reply, AggTypeOK
  <2> QED BY <1>0, <1>2, <2>1, <2>2, <2>4 DEF MailHolds, EndsEmpty
<1>3. CASE TakeDepth
  <2>1. /\ mailbox # <<>> /\ mailbox' = Tail(mailbox) /\ Head(mailbox).kind # "frame"
        /\ Reply(Head(mailbox)) /\ UNCHANGED <<buffer, actor, sent, popped, drainedTo, lost>>
    BY <1>3 DEF TakeDepth
  <2> QED BY <1>0, <1>2, <2>1 DEF AggIInv, AggTypeOK, BufferHolds
<1>4. CASE TakeDrain
  <2>1. /\ mailbox # <<>> /\ mailbox' = Tail(mailbox) /\ Head(mailbox).kind # "frame"
        /\ Reply(Head(mailbox)) /\ UNCHANGED <<actor, sent, popped>>
        /\ buffer' = <<>> /\ drainedTo' = popped /\ lost' = popped
    BY <1>4 DEF TakeDrain
  <2>2. BufferHolds'
    BY <1>0, <2>1, AggAssumption DEF BufferHolds, AggTypeOK
  <2> QED BY <1>0, <1>2, <2>1, <2>2 DEF AggIInv, AggTypeOK
<1>5. CASE ActorEnds
  BY <1>0, <1>5 DEF ActorEnds, AggIInv, AggTypeOK, MailHolds, FramesIn, MailOrdered,
                    FramesWaiting, BufferHolds, EndsEmpty
<1> QED BY <1>1, <1>3, <1>4, <1>5 DEF ActorStep

(* The buffer holds the newest frames since the last drain, all of them unless there
   were more than fit; the mailbox holds, in order, those that were sent since; and
   the actor does not end before it has taken them (run_aggregator). *)
THEOREM NewestFramesKept == AggSpec => []AggInv
<1>1. AggInit => AggIInv
  <2> SUFFICES ASSUME AggInit PROVE AggIInv
    OBVIOUS
  <2>1. AggTypeOK
    <3>1. mailbox \in Seq(Messages) /\ buffer \in Seq(Nat)
      BY DEF AggInit
    <3> QED BY <3>1 DEF AggInit, AggTypeOK
  <2>2. FramesWaiting = {} /\ Len(mailbox) = 0 /\ Len(buffer) = 0 /\ DOMAIN buffer = {}
    BY DEF AggInit, FramesWaiting
  <2>3. MailHolds
    BY <2>2, AggAssumption DEF AggInit, MailHolds, FramesIn, MailOrdered
  <2>4. BufferHolds /\ EndsEmpty
    BY <2>2, AggAssumption DEF AggInit, BufferHolds, EndsEmpty
  <2> QED BY <2>1, <2>3, <2>4 DEF AggIInv
<1>2. AggIInv /\ [AggNext]_aggVars => AggIInv'
  <2> SUFFICES ASSUME AggIInv, [AggNext]_aggVars PROVE AggIInv'
    OBVIOUS
  <2>1. CASE UNCHANGED aggVars
    BY <2>1 DEF aggVars, AggIInv, AggTypeOK, MailHolds, FramesIn, MailOrdered,
                FramesWaiting, BufferHolds, EndsEmpty
  <2> QED BY <2>1, ActorKeeps, HandleKeeps DEF AggNext
<1>3. AggIInv => AggInv
  <2> SUFFICES ASSUME AggIInv PROVE AggInv
    OBVIOUS
  <2>1. MailHolds /\ BufferHolds
    BY DEF AggIInv
  <2>2. actor = "ended" => popped = sent
    <3> SUFFICES ASSUME actor = "ended" PROVE popped = sent
      OBVIOUS
    <3>1. FramesIn = {}
      BY DEF AggIInv, EndsEmpty, FramesIn, FramesWaiting
    <3>2. popped \in Nat /\ sent \in Nat /\ popped <= sent /\ (popped + 1)..sent = {}
      BY <2>1, <3>1 DEF AggIInv, AggTypeOK, MailHolds
    <3>3. popped + 1 \notin (popped + 1)..sent
      BY <3>2
    <3> QED BY <3>2, <3>3
  <2> QED BY <2>1, <2>2 DEF AggInv, MailHolds, FramesIn, MailOrdered, BufferHolds
<1> QED BY <1>1, <1>2, <1>3, PTL DEF AggSpec

-----------------------------------------------------------------------------
(* The framing of module 5 *)

LEMMA EncodeIs ==
  ASSUME NEW f \in Frames
  PROVE  /\ Encode(f) \in Seq(Nat) /\ f.payload \in Seq(Nat) /\ f.count \in Nat
         /\ Len(Encode(f)) =
              HeaderSize + Len(f.payload) + (IF f.count = 0 THEN 2 ELSE 0)
         /\ Encode(f)[HeaderSize] = f.count
         /\ \A i \in 1..Len(f.payload) : Encode(f)[HeaderSize + i] = f.payload[i]
         /\ f.count = 0 => /\ Encode(f)[HeaderSize + Len(f.payload) + 1] = CR
                           /\ Encode(f)[HeaderSize + Len(f.payload) + 2] = LF
<1> DEFINE header == [i \in 1..HeaderSize |-> IF i = HeaderSize THEN f.count ELSE 0]
           line == IF f.count = 0 THEN <<CR, LF>> ELSE <<>>
           both == header \o f.payload
<1>1. f.payload \in Seq(Nat) /\ f.count \in Nat /\ HeaderSize \in Nat \ {0}
  BY StreamAssumption
<1>2. /\ header \in Seq(Nat) /\ Len(header) = HeaderSize /\ header[HeaderSize] = f.count
  <2>1. header \in [1..HeaderSize -> Nat]
    BY <1>1
  <2>2. header \in Seq(Nat)
    BY <1>1, <2>1, SeqDef
  <2> QED BY <1>1, <2>1, <2>2
<1>3. /\ line \in Seq(Nat) /\ Len(line) = IF f.count = 0 THEN 2 ELSE 0
      /\ f.count = 0 => line[1] = CR /\ line[2] = LF
  BY DEF CR, LF
<1> HIDE DEF header, line
<1>4. /\ both \in Seq(Nat) /\ Len(both) = HeaderSize + Len(f.payload)
      /\ \A i \in 1..HeaderSize + Len(f.payload) :
           both[i] = IF i <= HeaderSize THEN header[i] ELSE f.payload[i - HeaderSize]
  BY <1>1, <1>2, ConcatProperties
<1> HIDE DEF both
<1>5. Encode(f) = both \o line
  BY DEF Encode, header, line, both
<1>6. /\ Encode(f) \in Seq(Nat) /\ Len(Encode(f)) = Len(both) + Len(line)
      /\ \A i \in 1..Len(both) + Len(line) :
           Encode(f)[i] = IF i <= Len(both) THEN both[i] ELSE line[i - Len(both)]
  <2>1. both \in Seq(Nat) /\ line \in Seq(Nat)
    BY <1>3, <1>4
  <2>2. /\ both \o line \in Seq(Nat) /\ Len(both \o line) = Len(both) + Len(line)
        /\ \A i \in 1..Len(both) + Len(line) :
             (both \o line)[i] = IF i <= Len(both) THEN both[i] ELSE line[i - Len(both)]
    BY <2>1, ConcatProperties
  <2> QED BY <1>5, <2>2
<1>7. /\ HeaderSize \in Nat /\ HeaderSize >= 1 /\ Len(f.payload) \in Nat
      /\ Len(line) \in Nat /\ Len(both) = HeaderSize + Len(f.payload)
      /\ Len(both) \in Nat
  BY <1>1, <1>3, <1>4
<1>8. Encode(f)[HeaderSize] = f.count
  <2>1. /\ HeaderSize \in 1..Len(both) + Len(line) /\ HeaderSize <= Len(both)
        /\ HeaderSize \in 1..HeaderSize + Len(f.payload)
    BY <1>7
  <2>2. Encode(f)[HeaderSize] = both[HeaderSize]
    BY <1>6, <2>1
  <2>3. both[HeaderSize] = header[HeaderSize]
    <3>1. HeaderSize <= HeaderSize
      BY <1>7
    <3> QED BY <1>4, <2>1, <3>1
  <2> QED BY <1>2, <2>2, <2>3
<1>9. ASSUME NEW i \in 1..Len(f.payload) PROVE Encode(f)[HeaderSize + i] = f.payload[i]
  <2>1. /\ HeaderSize + i \in 1..Len(both) + Len(line) /\ HeaderSize + i <= Len(both)
        /\ HeaderSize + i \in 1..HeaderSize + Len(f.payload)
        /\ ~(HeaderSize + i <= HeaderSize) /\ (HeaderSize + i) - HeaderSize = i
    BY <1>7
  <2> QED BY <1>4, <1>6, <2>1
<1>10. ASSUME f.count = 0
       PROVE  /\ Encode(f)[HeaderSize + Len(f.payload) + 1] = CR
              /\ Encode(f)[HeaderSize + Len(f.payload) + 2] = LF
  <2>1. Len(line) = 2
    BY <1>3, <1>10
  <2>2. \A k \in 1..2 : /\ Len(both) + k \in 1..Len(both) + Len(line)
                        /\ ~(Len(both) + k <= Len(both)) /\ (Len(both) + k) - Len(both) = k
    BY <1>1, <1>4, <1>7, <2>1
  <2>3. \A k \in 1..2 : Encode(f)[Len(both) + k] = line[k]
    BY <1>6, <2>2
  <2>4. Encode(f)[Len(both) + 1] = line[1] /\ Encode(f)[Len(both) + 2] = line[2]
    BY <2>3
  <2> QED BY <1>3, <1>4, <1>10, <2>4
<1> QED BY <1>1, <1>3, <1>4, <1>6, <1>8, <1>9, <1>10

(* A buffer that starts like a frame gives that frame once all of it is there, and
   nothing before. *)
LEMMA ExtractIs ==
  ASSUME NEW f \in Frames, NEW src \in Seq(Nat),
         \A i \in 1..Len(Encode(f)) : i <= Len(src) => src[i] = Encode(f)[i]
  PROVE  TryExtractFrame(src) =
           IF Len(src) < Len(Encode(f)) THEN {}
           ELSE {[payload |-> f.payload, used |-> Len(Encode(f))]}
<1> DEFINE L == Len(f.payload)
           E == Encode(f)
<1>1. /\ f.payload \in Seq(Nat) /\ E \in Seq(Nat)
      /\ E[HeaderSize] = f.count
      /\ \A i \in 1..L : E[HeaderSize + i] = f.payload[i]
      /\ f.count = 0 => E[HeaderSize + L + 1] = CR /\ E[HeaderSize + L + 2] = LF
  BY EncodeIs
<1>2. \A i \in 1..Len(E) : i <= Len(src) => src[i] = E[i]
  OBVIOUS
<1>3. /\ HeaderSize \in Nat /\ HeaderSize >= 1 /\ L \in Nat /\ Len(src) \in Nat
      /\ f.count \in Nat /\ Len(E) \in Nat
      /\ Len(E) = HeaderSize + L + (IF f.count = 0 THEN 2 ELSE 0)
  <2>1. Len(E) = HeaderSize + L + (IF f.count = 0 THEN 2 ELSE 0) /\ f.count \in Nat
    BY EncodeIs
  <2>2. L \in Nat /\ Len(src) \in Nat
    BY <1>1
  <2>3. HeaderSize \in Nat /\ HeaderSize >= 1
    BY StreamAssumption
  <2>4. Len(E) \in Nat
    BY <1>1
  <2> QED BY <2>1, <2>2, <2>3, <2>4
<1>4. f.count # 0 => L = f.count
  BY StreamAssumption
<1>5. f.count = 0 => \A i \in 1..L - 1 : ~(f.payload[i] = 13 /\ f.payload[i + 1] = 10)
  BY StreamAssumption
<1> HIDE DEF L, E
<1>6. \A i \in 1..L : HeaderSize + i <= Len(src) => src[HeaderSize + i] = f.payload[i]
  <2> TAKE i \in 1..L
  <2>1. HeaderSize + i \in 1..Len(E)
    BY <1>3
  <2> QED BY <1>1, <1>2, <2>1
<1>7. ASSUME NEW j \in Nat, j = HeaderSize + L, j <= Len(src)
      PROVE  SubSeq(src, HeaderSize + 1, j) = f.payload
  <2>1. \A i \in HeaderSize + 1..j : src[i] \in Nat
    <3> TAKE i \in HeaderSize + 1..j
    <3>1. i \in 1..Len(src)
      BY <1>7, <1>3, SMTT(30)
    <3> QED BY <3>1, ElementOfSeq
  <2>2. /\ SubSeq(src, HeaderSize + 1, j) \in Seq(Nat)
        /\ Len(SubSeq(src, HeaderSize + 1, j)) =
             IF HeaderSize + 1 <= j THEN j - (HeaderSize + 1) + 1 ELSE 0
        /\ \A i \in 1..j - (HeaderSize + 1) + 1 :
             SubSeq(src, HeaderSize + 1, j)[i] = src[HeaderSize + 1 + i - 1]
    <3>1. HeaderSize + 1 \in Int /\ j \in Int
      BY <1>3
    <3> QED BY <2>1, <3>1, SubSeqProperties
  <2>3. Len(SubSeq(src, HeaderSize + 1, j)) = L
    BY <1>7, <1>3, <2>2
  <2>4. ASSUME NEW i \in 1..L PROVE SubSeq(src, HeaderSize + 1, j)[i] = f.payload[i]
    <3>1. /\ i \in 1..j - (HeaderSize + 1) + 1 /\ HeaderSize + 1 + i - 1 = HeaderSize + i
          /\ HeaderSize + i <= Len(src)
      BY <1>7, <1>3
    <3> QED BY <1>6, <2>2, <3>1
  <2> QED BY <1>1, <2>2, <2>3, <2>4, SeqEqual DEF L
<1>8. CASE Len(src) < HeaderSize
  BY <1>8, <1>3 DEF TryExtractFrame, E
<1>9. CASE Len(src) >= HeaderSize /\ f.count # 0
  <2>1. HeaderSize \in 1..Len(E) /\ src[HeaderSize] = f.count
    <3>1. HeaderSize \in 1..Len(E)
      BY <1>3
    <3> QED BY <1>1, <1>9, <1>2, <3>1
  <2>2. TryExtractFrame(src) = PayloadByLength(src, f.count)
    BY <1>9, <1>3, <2>1 DEF TryExtractFrame
  <2>3. Len(E) = HeaderSize + f.count /\ f.count = L
    BY <1>4, <1>9, <1>3
  <2>4. CASE Len(src) < Len(E)
    BY <2>2, <2>3, <2>4 DEF PayloadByLength, E
  <2>5. CASE ~(Len(src) < Len(E))
    <3>1. SubSeq(src, HeaderSize + 1, HeaderSize + f.count) = f.payload
      <4>1. /\ HeaderSize + f.count \in Nat /\ HeaderSize + f.count = HeaderSize + L
            /\ HeaderSize + f.count <= Len(src)
        BY <1>3, <2>3, <2>5
      <4> QED BY <1>7, <4>1
    <3> QED BY <2>2, <2>3, <2>5, <3>1 DEF PayloadByLength, E
  <2> QED BY <2>4, <2>5
<1>10. CASE Len(src) >= HeaderSize /\ f.count = 0
  <2> DEFINE ends == {i \in (HeaderSize + 1)..(Len(src) - 1) : src[i] = CR /\ src[i + 1] = LF}
             last == HeaderSize + L + 1
  <2>1. HeaderSize \in 1..Len(E) /\ src[HeaderSize] = 0 /\ Len(E) = last + 1 /\ last \in Nat
    <3>1. HeaderSize \in 1..Len(E) /\ Len(E) = last + 1 /\ last \in Nat
      BY <1>10, <1>3
    <3> QED BY <1>1, <1>10, <1>2, <3>1
  <2>2. TryExtractFrame(src) = PayloadByLineEnd(src)
    BY <1>10, <1>3, <2>1 DEF TryExtractFrame
  <2>3. ASSUME NEW i \in ends PROVE i >= last
    <3>0. i \in Int
      BY <1>3
    <3> SUFFICES ASSUME i < last PROVE FALSE
      BY <2>1, <3>0
    <3>1. /\ i >= HeaderSize + 1 /\ i + 1 <= Len(src)
          /\ src[i] = 13 /\ src[i + 1] = 10
      BY <1>3, <2>3 DEF CR, LF
    <3>2. PICK k \in 1..L : i = HeaderSize + k
      <4>1. i - HeaderSize \in 1..L /\ i = HeaderSize + (i - HeaderSize)
        BY <1>3, <3>0, <3>1
      <4> QED BY <4>1
    <3>3. f.payload[k] = 13
      <4>1. HeaderSize + k <= Len(src)
        BY <1>3, <3>0, <3>1, <3>2
      <4> QED BY <1>6, <3>1, <3>2, <4>1
    <3>4. CASE k = L
      <4>1. HeaderSize + L + 1 \in 1..Len(E) /\ i + 1 = HeaderSize + L + 1
        BY <1>10, <1>3, <3>2, <3>4
      <4>2. src[i + 1] = E[i + 1]
        BY <1>2, <3>1, <4>1
      <4>3. E[i + 1] = CR
        BY <1>1, <1>10, <4>1
      <4> QED BY <3>1, <4>2, <4>3 DEF CR
    <3>5. CASE k # L
      <4>1. k \in 1..L - 1 /\ k + 1 \in 1..L /\ HeaderSize + (k + 1) = i + 1
        BY <1>3, <3>2, <3>5
      <4>2. f.payload[k + 1] = 10
        BY <1>6, <3>1, <4>1
      <4> QED BY <1>5, <1>10, <3>3, <4>1, <4>2
    <3> QED BY <3>4, <3>5
  <2>4. CASE Len(src) < Len(E)
    <3>1. ends = {}
      <4> SUFFICES ASSUME NEW i \in ends PROVE FALSE
        OBVIOUS
      <4>1. i \in Int /\ i <= Len(src) - 1
        BY <1>3
      <4>2. i >= last
        BY <2>3
      <4> HIDE DEF last, ends
      <4> QED BY <1>3, <2>1, <2>4, <4>1, <4>2
    <3> QED BY <2>2, <2>4, <3>1 DEF PayloadByLineEnd, E
  <2>5. CASE ~(Len(src) < Len(E))
    <3>1. last \in ends
      <4>1. /\ last \in 1..Len(E) /\ last + 1 \in 1..Len(E) /\ last <= Len(src)
            /\ last + 1 <= Len(src) /\ last + 1 = HeaderSize + L + 2
        BY <1>3, <2>1, <2>5
      <4>2. src[last] = E[last] /\ src[last + 1] = E[last + 1]
        BY <1>2, <4>1
      <4>3. src[last] = CR /\ src[last + 1] = LF
        BY <1>1, <1>10, <4>1, <4>2
      <4>4. last \in (HeaderSize + 1)..(Len(src) - 1)
        BY <1>3, <4>1
      <4> QED BY <4>3, <4>4
    <3>2. {e \in ends : \A d \in ends : e <= d} = {last}
      <4>1. \A e \in ends : e \in Int
        BY <1>3
      <4> HIDE DEF ends
      <4> QED BY <2>1, <2>3, <3>1, <4>1
    <3>3. SubSeq(src, HeaderSize + 1, last - 1) = f.payload
      <4>1. last - 1 \in Nat /\ last - 1 = HeaderSize + L /\ last - 1 <= Len(src)
        BY <1>3, <2>1, <2>5
      <4> QED BY <1>7, <4>1
    <3>4. PayloadByLineEnd(src) =
            {[payload |-> SubSeq(src, HeaderSize + 1, i - 1), used |-> i + 1] : i \in {last}}
      BY <3>2 DEF PayloadByLineEnd
    <3> HIDE DEF last
    <3> QED BY <2>1, <2>2, <2>5, <3>3, <3>4 DEF E
  <2> QED BY <2>4, <2>5
<1> QED BY <1>8, <1>9, <1>10, <1>3

StreamTypeOK ==
  /\ written \in Seq(Frames) /\ bytes \in Seq(Nat) /\ readBuffer \in Seq(Nat)
  /\ received \in Seq(Seq(Nat))
  /\ writerState \in {"open", "closed", "cut"}
  /\ readerState \in {"open", "None", "reset", "failed"}

(* What is read and not yet cut up, and what is on its way. *)
Rest == readBuffer \o bytes

(* s starts at offset o with the first n bytes of the frame f. *)
Holds(s, o, f, n) == \A k \in 1..n : s[o + k] = Encode(f)[k]

(* ends[i] is where frame i ends on the whole stream: from the end of the last frame
   received on, the frames written follow each other, and nothing follows them but
   the part of a frame that was cut. *)
Framed(ends) ==
  LET r == Len(received)
      w == Len(written)
      over == Len(Rest) - (ends[w] - ends[r])
  IN /\ ends \in [0..w -> Nat] /\ r <= w
     /\ \A i, j \in r..w : i <= j => ends[i] <= ends[j]
     /\ \A i \in (r + 1)..w :
          /\ ends[i] = ends[i - 1] + Len(Encode(written[i]))
          /\ Holds(Rest, ends[i - 1] - ends[r], written[i], Len(Encode(written[i])))
     /\ IF writerState = "cut"
        THEN \E f \in Frames : /\ over \in 1..Len(Encode(f)) - 1
                               /\ Holds(Rest, ends[w] - ends[r], f, over)
        ELSE over = 0

ReceivedWhole == \A i \in DOMAIN received : received[i] = written[i].payload

StreamEnds ==
  /\ readerState \in {"None", "reset"} => Len(received) = Len(written)
  /\ readerState = "None" => writerState = "closed"
  /\ readerState = "reset" => writerState = "cut"

StreamIInv ==
  /\ StreamTypeOK /\ ReceivedWhole /\ StreamEnds
  /\ \E ends \in [0..Len(written) -> Nat] : Framed(ends)

(* What the buffer starts with: the frame that is received next, or nothing that
   read_frame would take for one. *)
LEMMA NextFrame ==
  ASSUME StreamTypeOK, NEW ends, Framed(ends)
  PROVE  /\ Rest \in Seq(Nat) /\ Len(Rest) = Len(readBuffer) + Len(bytes)
         /\ Len(readBuffer) \in Nat /\ Len(bytes) \in Nat
         /\ IF Len(received) < Len(written)
            THEN LET f == written[Len(received) + 1] IN
                 /\ f \in Frames /\ Len(Encode(f)) <= Len(Rest)
                 /\ TryExtractFrame(readBuffer) =
                      IF Len(readBuffer) < Len(Encode(f)) THEN {}
                      ELSE {[payload |-> f.payload, used |-> Len(Encode(f))]}
            ELSE TryExtractFrame(readBuffer) = {}
<1> DEFINE r == Len(received)
           w == Len(written)
<1>1. /\ Rest \in Seq(Nat) /\ Len(Rest) = Len(readBuffer) + Len(bytes)
      /\ \A i \in 1..Len(readBuffer) + Len(bytes) :
           Rest[i] = IF i <= Len(readBuffer) THEN readBuffer[i] ELSE bytes[i - Len(readBuffer)]
  BY ConcatProperties DEF StreamTypeOK, Rest
<1>2. /\ r \in Nat /\ w \in Nat /\ Len(readBuffer) \in Nat /\ Len(bytes) \in Nat
      /\ readBuffer \in Seq(Nat)
  BY DEF StreamTypeOK
<1>3. ends \in [0..w -> Nat] /\ r <= w
  BY DEF Framed
<1> HIDE DEF r, w
<1>4. \A i \in 1..Len(readBuffer) : i \in 1..Len(readBuffer) + Len(bytes) /\ readBuffer[i] = Rest[i]
  BY <1>1, <1>2
<1>5. CASE r < w
  <2> DEFINE f == written[r + 1]
  <2>1. r + 1 \in (r + 1)..w /\ r + 1 \in r..w /\ w \in r..w /\ r + 1 <= w
        /\ (r + 1) - 1 = r /\ r + 1 \in 1..w /\ r \in 0..w /\ r + 1 \in 0..w /\ w \in 0..w
    BY <1>2, <1>5
  <2>2. f \in Frames
    BY <2>1 DEF StreamTypeOK, w
  <2>3. /\ ends[r + 1] = ends[(r + 1) - 1] + Len(Encode(f))
        /\ Holds(Rest, ends[(r + 1) - 1] - ends[r], f, Len(Encode(f)))
        /\ ends[r + 1] <= ends[w]
    BY <2>1 DEF Framed, r, w
  <2>4. Len(Encode(f)) \in Nat
    BY <2>2, EncodeIs
  <2>5. ends[r] \in Nat /\ ends[r + 1] \in Nat /\ ends[w] \in Nat
    BY <1>3, <2>1
  <2>6. Len(Rest) >= ends[w] - ends[r]
    <3>1. CASE writerState = "cut"
      <4>1. PICK g \in Frames : Len(Rest) - (ends[w] - ends[r]) \in 1..Len(Encode(g)) - 1
        BY <3>1 DEF Framed, r, w
      <4> QED BY <1>1, <1>2, <2>5, <4>1
    <3>2. CASE writerState # "cut"
      <4>1. Len(Rest) - (ends[w] - ends[r]) = 0
        BY <3>2 DEF Framed, r, w
      <4> QED BY <1>1, <1>2, <2>5, <4>1
    <3> QED BY <3>1, <3>2
  <2>7. Len(Encode(f)) <= Len(Rest)
    BY <1>1, <1>2, <2>1, <2>3, <2>4, <2>5, <2>6
  <2>8. \A i \in 1..Len(Encode(f)) : i <= Len(readBuffer) => readBuffer[i] = Encode(f)[i]
    <3> TAKE i \in 1..Len(Encode(f))
    <3> HAVE i <= Len(readBuffer)
    <3>1. ends[(r + 1) - 1] - ends[r] + i = i /\ i \in 1..Len(readBuffer)
      BY <1>2, <2>1, <2>4, <2>5
    <3>2. Rest[ends[(r + 1) - 1] - ends[r] + i] = Encode(f)[i]
      BY <2>3 DEF Holds
    <3> QED BY <1>4, <3>1, <3>2
  <2>9. TryExtractFrame(readBuffer) =
          IF Len(readBuffer) < Len(Encode(f)) THEN {}
          ELSE {[payload |-> f.payload, used |-> Len(Encode(f))]}
    BY <1>2, <2>2, <2>8, ExtractIs
  <2> QED BY <1>1, <1>2, <1>5, <2>2, <2>7, <2>9 DEF r, w
<1>6. CASE ~(r < w)
  <2>1. r = w /\ ends[w] \in Nat /\ ends[w] - ends[r] = 0
    BY <1>2, <1>3, <1>6
  <2>2. CASE writerState = "cut"
    <3>1. PICK g \in Frames : /\ Len(Rest) - (ends[w] - ends[r]) \in 1..Len(Encode(g)) - 1
                              /\ Holds(Rest, ends[w] - ends[r], g, Len(Rest) - (ends[w] - ends[r]))
      BY <2>2 DEF Framed, r, w
    <3>2. Len(Encode(g)) \in Nat
      BY EncodeIs
    <3>3. Len(Rest) \in Nat /\ Len(Rest) < Len(Encode(g)) /\ Len(readBuffer) < Len(Encode(g))
      BY <1>1, <1>2, <2>1, <3>1, <3>2
    <3>4. \A i \in 1..Len(Encode(g)) : i <= Len(readBuffer) => readBuffer[i] = Encode(g)[i]
      <4> TAKE i \in 1..Len(Encode(g))
      <4> HAVE i <= Len(readBuffer)
      <4>1. /\ ends[w] - ends[r] + i = i /\ i \in 1..Len(readBuffer)
            /\ i \in 1..Len(Rest) - (ends[w] - ends[r])
        BY <1>1, <1>2, <2>1, <3>2, SMTT(30)
      <4>2. Rest[ends[w] - ends[r] + i] = Encode(g)[i]
        BY <3>1, <4>1 DEF Holds
      <4> QED BY <1>4, <4>1, <4>2
    <3>5. TryExtractFrame(readBuffer) = {}
      BY <1>2, <3>3, <3>4, ExtractIs
    <3> QED BY <1>1, <1>2, <1>6, <3>5 DEF r, w
  <2>3. CASE writerState # "cut"
    <3>1. Len(Rest) - (ends[w] - ends[r]) = 0
      BY <2>3 DEF Framed, r, w
    <3>2. Len(readBuffer) = 0
      BY <1>1, <1>2, <2>1, <3>1
    <3>3. Len(readBuffer) < HeaderSize
      BY <3>2, StreamAssumption
    <3>4. TryExtractFrame(readBuffer) = {}
      BY <3>3 DEF TryExtractFrame
    <3> QED BY <1>1, <1>2, <1>6, <3>4 DEF r, w
  <2> QED BY <2>2, <2>3
<1> QED BY <1>5, <1>6

(* A frame that lies within s lies at its new place in what s becomes. *)
LEMMA StillHolds ==
  ASSUME NEW s, NEW t, NEW f, NEW m \in Nat, NEW u \in Nat, NEW o \in Int, NEW p \in Int,
         NEW n \in Int, Holds(s, o, f, n), o = u + p, p >= 0, p + n <= m,
         \A j \in 1..m : t[j] = s[u + j]
  PROVE  Holds(t, p, f, n)
<1> SUFFICES ASSUME NEW k \in 1..n PROVE t[p + k] = Encode(f)[k]
  BY DEF Holds
<1>1. p + k \in 1..m /\ u + (p + k) = o + k
  OBVIOUS
<1>2. t[p + k] = s[o + k]
  BY <1>1
<1> QED BY <1>2 DEF Holds

(* Bytes are put onto the stream. *)
LEMMA RestGrows ==
  ASSUME StreamTypeOK, NEW more \in Seq(Nat), bytes' = bytes \o more,
         readBuffer' = readBuffer
  PROVE  /\ bytes' \in Seq(Nat) /\ Len(Rest) \in Nat /\ Len(more) \in Nat
         /\ Len(Rest') = Len(Rest) + Len(more)
         /\ \A i \in 1..Len(Rest) : Rest'[i] = Rest[i]
         /\ \A k \in 1..Len(more) : Rest'[Len(Rest) + k] = more[k]
<1>1. readBuffer \in Seq(Nat) /\ bytes \in Seq(Nat)
  BY DEF StreamTypeOK
<1>2. bytes' \in Seq(Nat) /\ Rest \in Seq(Nat)
  BY <1>1, ConcatProperties DEF Rest
<1>3. Rest' = Rest \o more
  BY <1>1, ConcatAssociative, SMTT(30) DEF Rest
<1>4. /\ Len(Rest \o more) = Len(Rest) + Len(more)
      /\ \A i \in 1..Len(Rest) + Len(more) :
           (Rest \o more)[i] = IF i <= Len(Rest) THEN Rest[i] ELSE more[i - Len(Rest)]
  BY <1>2, ConcatProperties
<1>5. Len(Rest) \in Nat /\ Len(more) \in Nat
  BY <1>2
<1>6. ASSUME NEW i \in 1..Len(Rest) PROVE Rest'[i] = Rest[i]
  <2>1. i \in 1..Len(Rest) + Len(more) /\ i <= Len(Rest)
    BY <1>5
  <2> QED BY <1>3, <1>4, <2>1
<1>7. ASSUME NEW k \in 1..Len(more) PROVE Rest'[Len(Rest) + k] = more[k]
  <2>1. /\ Len(Rest) + k \in 1..Len(Rest) + Len(more) /\ ~(Len(Rest) + k <= Len(Rest))
        /\ (Len(Rest) + k) - Len(Rest) = k
    BY <1>5
  <2> QED BY <1>3, <1>4, <2>1
<1> QED BY <1>2, <1>3, <1>4, <1>5, <1>6, <1>7

(* What Framed says, in the form in which the steps use it. *)
LEMMA FramedIs ==
  ASSUME StreamTypeOK, NEW ends, Framed(ends)
  PROVE  /\ Len(received) \in Nat /\ Len(written) \in Nat /\ Len(received) <= Len(written)
         /\ \A i \in Len(received)..Len(written) :
              /\ ends[i] \in Nat /\ ends[Len(received)] <= ends[i]
              /\ ends[i] <= ends[Len(written)]
         /\ Len(Rest) \in Nat
         /\ ends[Len(written)] - ends[Len(received)] <= Len(Rest)
         /\ writerState # "cut" => Len(Rest) = ends[Len(written)] - ends[Len(received)]
         /\ \A i \in (Len(received) + 1)..Len(written) :
              /\ i \in Len(received)..Len(written) /\ i - 1 \in Len(received)..Len(written)
              /\ written[i] \in Frames /\ Len(Encode(written[i])) \in Nat
<1> DEFINE r == Len(received)
           w == Len(written)
<1>1. r \in Nat /\ w \in Nat
  BY DEF StreamTypeOK
<1>2. ends \in [0..w -> Nat] /\ r <= w /\ \A i, j \in r..w : i <= j => ends[i] <= ends[j]
  BY DEF Framed
<1>3. Len(Rest) \in Nat
  <2>1. Rest \in Seq(Nat)
    BY NextFrame
  <2> QED BY <2>1
<1> HIDE DEF r, w
<1>4. ASSUME NEW i \in r..w
      PROVE  ends[i] \in Nat /\ ends[r] <= ends[i] /\ ends[i] <= ends[w]
  <2>1. i \in 0..w /\ r \in r..w /\ w \in r..w /\ r <= i /\ i <= w
    BY <1>1, <1>2
  <2> QED BY <1>2, <2>1
<1>5. ends[r] \in Nat /\ ends[w] \in Nat
  <2>1. r \in r..w /\ w \in r..w
    BY <1>1, <1>2
  <2> QED BY <1>4, <2>1
<1>6. ASSUME NEW i \in (r + 1)..w
      PROVE  /\ i \in r..w /\ i - 1 \in r..w
             /\ written[i] \in Frames /\ Len(Encode(written[i])) \in Nat
  <2>1. i \in r..w /\ i - 1 \in r..w /\ i \in 1..w
    BY <1>1
  <2>2. written[i] \in Frames
    BY <2>1 DEF StreamTypeOK, w
  <2>3. Encode(written[i]) \in Seq(Nat)
    BY <2>2, EncodeIs
  <2> QED BY <2>1, <2>2, <2>3
<1>7. CASE writerState = "cut"
  <2>1. PICK g \in Frames : Len(Rest) - (ends[w] - ends[r]) \in 1..Len(Encode(g)) - 1
    BY <1>7 DEF Framed, r, w
  <2>2. ends[w] - ends[r] <= Len(Rest)
    BY <1>3, <1>5, <2>1
  <2> QED BY <1>1, <1>2, <1>3, <1>4, <1>6, <1>7, <2>2 DEF r, w
<1>8. CASE writerState # "cut"
  <2>1. Len(Rest) - (ends[w] - ends[r]) = 0
    BY <1>8 DEF Framed, r, w
  <2>2. Len(Rest) = ends[w] - ends[r] /\ ends[w] - ends[r] <= Len(Rest)
    BY <1>3, <1>5, <2>1
  <2> QED BY <1>1, <1>2, <1>3, <1>4, <1>6, <1>8, <2>2 DEF r, w
<1> QED BY <1>7, <1>8

(* The first frame leaves the buffer. *)
LEMMA ParseKeeps ==
  ASSUME StreamTypeOK, NEW ends, Framed(ends), ParseFrame
  PROVE  /\ StreamTypeOK' /\ Framed(ends)' /\ Len(received) < Len(written)
         /\ received' = Append(received, written[Len(received) + 1].payload)
<1> DEFINE r == Len(received)
           w == Len(written)
           f == written[r + 1]
           u == Len(Encode(f))
<1>1. /\ UNCHANGED <<written, bytes, writerState, readerState>>
      /\ \E found \in TryExtractFrame(readBuffer) :
           /\ received' = Append(received, found.payload)
           /\ readBuffer' = SubSeq(readBuffer, found.used + 1, Len(readBuffer))
  BY DEF ParseFrame
<1>2. r < w
  <2>1. r \in Nat /\ w \in Nat /\ r <= w
    BY FramedIs
  <2> QED BY <1>1, <2>1, NextFrame
<1>3. /\ f \in Frames /\ ~(Len(readBuffer) < u)
      /\ received' = Append(received, f.payload)
      /\ readBuffer' = SubSeq(readBuffer, u + 1, Len(readBuffer))
  <2>1. /\ f \in Frames
        /\ TryExtractFrame(readBuffer) =
             IF Len(readBuffer) < u THEN {} ELSE {[payload |-> f.payload, used |-> u]}
    BY <1>2, NextFrame
  <2>2. ~(Len(readBuffer) < u)
    BY <1>1, <2>1
  <2>3. TryExtractFrame(readBuffer) = {[payload |-> f.payload, used |-> u]}
    BY <2>1, <2>2
  <2>4. PICK found \in TryExtractFrame(readBuffer) :
          /\ received' = Append(received, found.payload)
          /\ readBuffer' = SubSeq(readBuffer, found.used + 1, Len(readBuffer))
    BY <1>1
  <2>5. found = [payload |-> f.payload, used |-> u]
    BY <2>3
  <2>6. found.payload = f.payload /\ found.used = u
    BY <2>5
  <2> QED BY <2>1, <2>2, <2>4, <2>6
<1>4. /\ r \in Nat /\ w \in Nat /\ r + 1 \in (r + 1)..w /\ w \in r..w /\ r + 1 \in r..w
      /\ (r + 1) - 1 = r /\ r \in r..w
  BY <1>2, FramedIs
<1>5. u \in Nat /\ Len(readBuffer) \in Nat /\ Len(bytes) \in Nat
      /\ readBuffer \in Seq(Nat) /\ bytes \in Seq(Nat) /\ u <= Len(readBuffer)
  <2>1. u \in Nat
    BY <1>3, EncodeIs
  <2>2. Len(readBuffer) \in Nat /\ Len(bytes) \in Nat
        /\ readBuffer \in Seq(Nat) /\ bytes \in Seq(Nat)
    BY DEF StreamTypeOK
  <2> QED BY <1>3, <2>1, <2>2
<1>6. /\ received' \in Seq(Seq(Nat)) /\ Len(received') = r + 1
  BY <1>3, EncodeIs DEF StreamTypeOK
<1>7. /\ readBuffer' \in Seq(Nat) /\ Len(readBuffer') = Len(readBuffer) - u
      /\ \A j \in 1..Len(readBuffer) - u : readBuffer'[j] = readBuffer[u + j]
  <2>1. u + 1 \in Int /\ Len(readBuffer) \in Int
    BY <1>5
  <2>2. \A i \in u + 1..Len(readBuffer) : readBuffer[i] \in Nat
    <3> TAKE i \in u + 1..Len(readBuffer)
    <3>1. i \in 1..Len(readBuffer)
      BY <1>5
    <3> QED BY <1>5, <3>1, ElementOfSeq
  <2>3. /\ readBuffer' \in Seq(Nat)
        /\ Len(readBuffer') = IF u + 1 <= Len(readBuffer)
                              THEN Len(readBuffer) - (u + 1) + 1 ELSE 0
        /\ \A i \in 1..Len(readBuffer) - (u + 1) + 1 : readBuffer'[i] = readBuffer[u + 1 + i - 1]
    BY <1>3, <2>1, <2>2, SubSeqProperties
  <2>4. Len(readBuffer) - (u + 1) + 1 = Len(readBuffer) - u
    BY <1>5
  <2>5. Len(readBuffer') = Len(readBuffer) - u
    <3> HIDE DEF u
    <3>1. u + 1 <= Len(readBuffer) \/ u = Len(readBuffer)
      BY <1>5
    <3>2. CASE u = Len(readBuffer)
      <4>1. ~(u + 1 <= Len(readBuffer)) /\ Len(readBuffer) - u = 0
        BY <1>5, <3>2
      <4> QED BY <2>3, <4>1
    <3>3. CASE u + 1 <= Len(readBuffer)
      BY <2>3, <2>4, <3>3
    <3> QED BY <3>1, <3>2, <3>3
  <2>6. \A i \in 1..Len(readBuffer) - u : u + 1 + i - 1 = u + i
    BY <1>5
  <2> QED BY <2>3, <2>4, <2>5, <2>6
<1>8. /\ Len(Rest) \in Nat /\ Len(Rest') = Len(Rest) - u /\ Len(Rest') \in Nat
      /\ \A j \in 1..Len(Rest') : Rest'[j] = Rest[u + j]
  <2>1. /\ Len(Rest) = Len(readBuffer) + Len(bytes)
        /\ \A i \in 1..Len(readBuffer) + Len(bytes) :
             Rest[i] = IF i <= Len(readBuffer) THEN readBuffer[i]
                                               ELSE bytes[i - Len(readBuffer)]
    BY <1>5, ConcatProperties DEF Rest
  <2>2. /\ Len(Rest') = Len(readBuffer') + Len(bytes)
        /\ \A i \in 1..Len(readBuffer') + Len(bytes) :
             Rest'[i] = IF i <= Len(readBuffer') THEN readBuffer'[i]
                                                 ELSE bytes[i - Len(readBuffer')]
    BY <1>1, <1>5, <1>7, ConcatProperties DEF Rest
  <2>3. Len(Rest) \in Nat /\ Len(Rest') = Len(Rest) - u /\ Len(Rest') \in Nat
    BY <1>5, <1>7, <2>1, <2>2
  <2>4. ASSUME NEW j \in 1..Len(Rest') PROVE Rest'[j] = Rest[u + j]
    <3>1. /\ u + j \in 1..Len(readBuffer) + Len(bytes)
          /\ j \in 1..Len(readBuffer') + Len(bytes)
          /\ j <= Len(readBuffer') <=> u + j <= Len(readBuffer)
          /\ j - Len(readBuffer') = u + j - Len(readBuffer)
      BY <1>5, <1>7, <2>2
    <3>2. CASE j <= Len(readBuffer')
      <4>1. j \in 1..Len(readBuffer) - u
        BY <1>5, <1>7, <3>2
      <4> QED BY <1>7, <2>1, <2>2, <3>1, <3>2, <4>1
    <3>3. CASE ~(j <= Len(readBuffer'))
      BY <2>1, <2>2, <3>1, <3>3
    <3> QED BY <3>2, <3>3
  <2> QED BY <2>3, <2>4
<1>9. ends[r + 1] = ends[r] + u /\ ends[r] \in Nat /\ ends[w] \in Nat /\ ends[r + 1] \in Nat
  <2>1. ends[r + 1] = ends[(r + 1) - 1] + u
    BY <1>4 DEF Framed
  <2> QED BY <1>4, <2>1, FramedIs
<1>10. /\ ends[w] - ends[r] <= Len(Rest) /\ ends \in [0..w -> Nat]
       /\ \A i, j \in r..w : i <= j => ends[i] <= ends[j]
       /\ \A i \in r..w : ends[i] \in Nat /\ ends[i] <= ends[w]
       /\ \A i \in (r + 1)..w :
            /\ ends[i] = ends[i - 1] + Len(Encode(written[i]))
            /\ Holds(Rest, ends[i - 1] - ends[r], written[i], Len(Encode(written[i])))
            /\ i \in r..w /\ i - 1 \in r..w /\ Len(Encode(written[i])) \in Nat
  <2>1. /\ ends \in [0..w -> Nat]
        /\ \A i, j \in r..w : i <= j => ends[i] <= ends[j]
        /\ \A i \in (r + 1)..w :
             /\ ends[i] = ends[i - 1] + Len(Encode(written[i]))
             /\ Holds(Rest, ends[i - 1] - ends[r], written[i], Len(Encode(written[i])))
    BY DEF Framed
  <2> QED BY <2>1, FramedIs
<1>11. /\ writerState = "cut" =>
            \E g \in Frames : /\ Len(Rest) - (ends[w] - ends[r]) \in 1..Len(Encode(g)) - 1
                              /\ Holds(Rest, ends[w] - ends[r], g,
                                       Len(Rest) - (ends[w] - ends[r]))
       /\ writerState # "cut" => Len(Rest) - (ends[w] - ends[r]) = 0
  BY DEF Framed
<1>12. StreamTypeOK'
  BY <1>1, <1>6, <1>7 DEF StreamTypeOK
<1> HIDE DEF r, w, u, f
<1>13. \A i, j \in (r + 1)..w : i <= j => ends[i] <= ends[j]
  <2>1. \A i \in (r + 1)..w : i \in r..w
    BY <1>4
  <2> QED BY <1>10, <2>1
<1>14. ASSUME NEW i \in (r + 2)..w
       PROVE  /\ ends[i] = ends[i - 1] + Len(Encode(written[i]))
              /\ Holds(Rest', ends[i - 1] - ends[r + 1], written[i], Len(Encode(written[i])))
  <2>1. i \in (r + 1)..w /\ i - 1 \in (r + 1)..w /\ r + 1 \in (r + 1)..w /\ r + 1 <= i - 1
    BY <1>4
  <2>2. /\ ends[i] = ends[i - 1] + Len(Encode(written[i]))
        /\ Holds(Rest, ends[i - 1] - ends[r], written[i], Len(Encode(written[i])))
        /\ Len(Encode(written[i])) \in Nat /\ ends[i] \in Nat /\ ends[i - 1] \in Nat
        /\ ends[i] <= ends[w] /\ ends[r + 1] <= ends[i - 1]
    BY <1>10, <1>13, <2>1
  <2>3. ends[w] - ends[r] <= Len(Rest)
    BY <1>10
  <2> DEFINE o == ends[i - 1] - ends[r]
             p == ends[i - 1] - ends[r + 1]
             n == Len(Encode(written[i]))
  <2>4. o \in Int /\ p \in Int /\ n \in Int /\ o = u + p /\ p >= 0 /\ p + n <= Len(Rest')
    <3>1. /\ u \in Int /\ Len(Rest) \in Int /\ Len(Rest') = Len(Rest) - u
          /\ ends[r] \in Int /\ ends[w] \in Int /\ ends[r + 1] = ends[r] + u
          /\ ends[r + 1] \in Int /\ n \in Int /\ ends[i - 1] \in Int /\ ends[i - 1] + n <= ends[w]
          /\ ends[r + 1] <= ends[i - 1]
      BY <1>5, <1>8, <1>9, <2>2
    <3>2. PICK a \in Int, b \in Int, c \in Int, d \in Int, k \in Int :
            /\ a = ends[i - 1] /\ b = ends[r] /\ c = ends[r + 1] /\ d = ends[w]
            /\ k = Len(Encode(written[i]))
      <4>1. PICK a \in Int, b \in Int : a = ends[i - 1] /\ b = ends[r]
        BY <3>1
      <4>2. PICK c \in Int, d \in Int : c = ends[r + 1] /\ d = ends[w]
        BY <3>1
      <4> QED BY <3>1, <4>1, <4>2
    <3>3. PICK R \in Int, S \in Int : R = Len(Rest) /\ S = Len(Rest')
      BY <1>8
    <3>4. o = a - b /\ p = a - c /\ n = k
      BY <3>2
    <3>5. /\ S = R - u /\ c = b + u /\ a + k <= d /\ c <= a /\ d - b <= R /\ u \in Int
      BY <2>3, <3>1, <3>2, <3>3
    <3> HIDE DEF o, p, n
    <3>6. o \in Int /\ p \in Int /\ n \in Int /\ o = u + p /\ p >= 0 /\ p + n <= S
      BY <3>4, <3>5
    <3> QED BY <3>3, <3>6
  <2> HIDE DEF o, p, n
  <2>5. Holds(Rest, o, written[i], n)
    BY <2>2 DEF o, n
  <2>6. Holds(Rest', p, written[i], n)
    BY <1>5, <1>8, <2>4, <2>5, StillHolds
  <2> QED BY <2>2, <2>6 DEF p, n
<1>15. Len(Rest') - (ends[w] - ends[r + 1]) = Len(Rest) - (ends[w] - ends[r])
  BY <1>5, <1>8, <1>9
<1>16. IF writerState = "cut"
       THEN \E g \in Frames : /\ Len(Rest') - (ends[w] - ends[r + 1]) \in 1..Len(Encode(g)) - 1
                              /\ Holds(Rest', ends[w] - ends[r + 1], g,
                                       Len(Rest') - (ends[w] - ends[r + 1]))
       ELSE Len(Rest') - (ends[w] - ends[r + 1]) = 0
  <2>1. CASE writerState = "cut"
    <3> DEFINE o == ends[w] - ends[r]
               p == ends[w] - ends[r + 1]
               n == Len(Rest) - o
    <3>1. PICK g \in Frames : n \in 1..Len(Encode(g)) - 1 /\ Holds(Rest, o, g, n)
      BY <1>11, <2>1
    <3>2. ends[r + 1] <= ends[w]
      BY <1>4, <1>10
    <3>3. o \in Int /\ p \in Int /\ n \in Int /\ o = u + p /\ p >= 0 /\ p + n <= Len(Rest')
      <4>1. /\ u \in Int /\ Len(Rest) \in Int /\ Len(Rest') = Len(Rest) - u
            /\ ends[r] \in Int /\ ends[w] \in Int /\ ends[r + 1] = ends[r] + u
        BY <1>5, <1>8, <1>9
      <4> QED BY <3>2, <4>1
    <3> HIDE DEF o, p, n
    <3>4. Holds(Rest', p, g, n)
      BY <1>5, <1>8, <3>1, <3>3, StillHolds
    <3>5. n = Len(Rest') - p
      BY <1>15 DEF n, o, p
    <3> QED BY <2>1, <3>1, <3>4, <3>5 DEF p
  <2>2. CASE writerState # "cut"
    BY <1>11, <1>15, <2>2
  <2> QED BY <2>1, <2>2
<1>17. Framed(ends)'
  <2>1. Len(received)' = r + 1 /\ Len(written)' = w /\ (r + 1) + 1 = r + 2 /\ r + 1 <= w
    BY <1>1, <1>4, <1>6 DEF w
  <2> QED BY <1>1, <1>10, <1>13, <1>14, <1>16, <2>1 DEF Framed
<1> QED BY <1>2, <1>3, <1>12, <1>17 DEF r, w, f

(* Bytes go from the wire into the buffer. *)
LEMMA ReadKeeps ==
  ASSUME StreamTypeOK, NEW ends, Framed(ends), ReadBuf
  PROVE  StreamTypeOK' /\ Framed(ends)'
<1>1. /\ UNCHANGED <<written, writerState, received, readerState>>
      /\ readBuffer \in Seq(Nat) /\ bytes \in Seq(Nat)
  BY DEF ReadBuf, StreamTypeOK
<1>2. PICK n \in 1..Len(bytes) : /\ readBuffer' = readBuffer \o SubSeq(bytes, 1, n)
                                /\ bytes' = SubSeq(bytes, n + 1, Len(bytes))
  BY DEF ReadBuf
<1>3. n \in Int /\ n + 1 \in Int /\ Len(bytes) \in Int /\ 1 \in Int /\ n <= Len(bytes)
      /\ Len(bytes) \in Nat
  BY <1>1
<1>4. /\ SubSeq(bytes, 1, n) \in Seq(Nat) /\ SubSeq(bytes, n + 1, Len(bytes)) \in Seq(Nat)
  <2>1. \A i \in 1..n : bytes[i] \in Nat
    BY <1>1, <1>3, ElementOfSeq
  <2>2. \A i \in n + 1..Len(bytes) : bytes[i] \in Nat
    BY <1>1, <1>3, ElementOfSeq
  <2> QED BY <1>3, <2>1, <2>2, SubSeqProperties
<1>5. SubSeq(bytes, 1, n) \o SubSeq(bytes, n + 1, Len(bytes)) = bytes
  <2>1. 1 \in 1..Len(bytes) + 1 /\ n \in 1 - 1..Len(bytes) /\ Len(bytes) \in n..Len(bytes)
    BY <1>3
  <2>2. SubSeq(bytes, 1, Len(bytes)) =
          SubSeq(bytes, 1, n) \o SubSeq(bytes, n + 1, Len(bytes))
    BY <1>1, <2>1, ConcatAdjacentSubSeq
  <2> QED BY <1>1, <2>2, SubSeqFull
<1>6. Rest' = Rest
  <2>1. PICK front \in Seq(Nat), back \in Seq(Nat) :
          front = SubSeq(bytes, 1, n) /\ back = SubSeq(bytes, n + 1, Len(bytes))
    BY <1>4
  <2>2. (readBuffer \o front) \o back = readBuffer \o (front \o back)
    <3>1. readBuffer \in Seq(Nat) /\ front \in Seq(Nat) /\ back \in Seq(Nat)
      BY <1>1, <2>1
    <3> QED BY <3>1, ConcatAssociative, SMTT(30)
  <2> QED BY <1>2, <1>5, <2>1, <2>2 DEF Rest
<1>7. StreamTypeOK'
  BY <1>1, <1>2, <1>4, ConcatProperties DEF StreamTypeOK
<1>8. Framed(ends)'
  BY <1>1, <1>6 DEF Framed
<1> QED BY <1>7, <1>8

(* What the stream holds is not disturbed by what is put behind it. *)
LEMMA FramesStay ==
  ASSUME StreamTypeOK, NEW ends, Framed(ends), NEW more \in Seq(Nat),
         bytes' = bytes \o more, readBuffer' = readBuffer,
         NEW i \in (Len(received) + 1)..Len(written)
  PROVE  Holds(Rest', ends[i - 1] - ends[Len(received)], written[i],
               Len(Encode(written[i])))
<1> DEFINE r == Len(received)
           w == Len(written)
           p == ends[i - 1] - ends[r]
           n == Len(Encode(written[i]))
<1>1. /\ ends[i] \in Nat /\ ends[i - 1] \in Nat /\ ends[r] \in Nat /\ ends[w] \in Nat
      /\ ends[r] <= ends[i - 1] /\ ends[i] <= ends[w] /\ n \in Nat /\ Len(Rest) \in Nat
      /\ ends[w] - ends[r] <= Len(Rest)
  <2>1. r \in Nat /\ w \in Nat /\ r <= w
    BY FramedIs
  <2>2. r \in r..w /\ w \in r..w
    BY <2>1
  <2> QED BY <2>2, FramedIs
<1>2. ends[i] = ends[i - 1] + n /\ Holds(Rest, p, written[i], n)
  BY DEF Framed
<1>3. \A j \in 1..Len(Rest) : Rest'[j] = Rest[0 + j]
  <2>1. \A j \in 1..Len(Rest) : Rest'[j] = Rest[j]
    BY RestGrows, ZenonT(30)
  <2>2. \A j \in 1..Len(Rest) : 0 + j = j
    OBVIOUS
  <2> QED BY <2>1, <2>2, ZenonT(30)
<1> HIDE DEF n, r, w
<1>4. p \in Int /\ p >= 0 /\ p + n <= Len(Rest) /\ p = 0 + p /\ n \in Int
  <2>1. ends[i] = ends[i - 1] + n
    BY <1>2
  <2> QED BY <1>1, <2>1, SMTT(30)
<1> HIDE DEF p
<1>5. Holds(Rest', p, written[i], n)
  BY <1>1, <1>2, <1>3, <1>4, StillHolds
<1> QED BY <1>5 DEF p, n, r

(* A frame is written. *)
LEMMA WriteKeeps ==
  ASSUME StreamTypeOK, NEW ends, Framed(ends), WriteFrame
  PROVE  /\ StreamTypeOK'
         /\ \E longer \in [0..Len(written') -> Nat] : Framed(longer)'
         /\ \A i \in 1..Len(written) : written'[i] = written[i]
<1> DEFINE r == Len(received)
           w == Len(written)
<1>1. /\ writerState = "open" /\ UNCHANGED <<writerState, readBuffer, received, readerState>>
  BY DEF WriteFrame
<1>2. PICK f \in Frames : written' = Append(written, f) /\ bytes' = bytes \o Encode(f)
  BY DEF WriteFrame
<1>3. Encode(f) \in Seq(Nat) /\ Len(Encode(f)) \in Nat
  BY EncodeIs
<1>4. /\ bytes' \in Seq(Nat) /\ Len(Rest) \in Nat /\ Len(Rest') = Len(Rest) + Len(Encode(f))
      /\ \A k \in 1..Len(Encode(f)) : Rest'[Len(Rest) + k] = Encode(f)[k]
  BY <1>1, <1>2, <1>3, RestGrows
<1>5. /\ written' \in Seq(Frames) /\ Len(written') = w + 1 /\ w \in Nat
      /\ \A i \in 1..w : written'[i] = written[i]
      /\ written'[w + 1] = f
  BY <1>2 DEF StreamTypeOK
<1>6. StreamTypeOK'
  BY <1>1, <1>4, <1>5 DEF StreamTypeOK
<1>7. /\ r \in Nat /\ r <= w /\ ends \in [0..w -> Nat]
      /\ \A i \in r..w : ends[i] \in Nat /\ ends[i] <= ends[w]
      /\ \A i, j \in r..w : i <= j => ends[i] <= ends[j]
      /\ Len(Rest) = ends[w] - ends[r]
  <2>1. ends \in [0..w -> Nat] /\ \A i, j \in r..w : i <= j => ends[i] <= ends[j]
    BY DEF Framed
  <2>2. r \in Nat /\ r <= w /\ Len(Rest) = ends[w] - ends[r]
    BY <1>1, FramedIs
  <2>3. \A i \in r..w : ends[i] \in Nat /\ ends[i] <= ends[w]
    BY FramedIs
  <2> QED BY <2>1, <2>2, <2>3
<1>8. \A i \in (r + 1)..w :
        /\ i \in 1..w /\ i \in 0..w /\ i - 1 \in 0..w
        /\ ends[i] = ends[i - 1] + Len(Encode(written[i]))
        /\ Holds(Rest', ends[i - 1] - ends[r], written[i], Len(Encode(written[i])))
  <2> TAKE i \in (r + 1)..w
  <2>1. ends[i] = ends[i - 1] + Len(Encode(written[i]))
    BY DEF Framed
  <2>2. Holds(Rest', ends[i - 1] - ends[r], written[i], Len(Encode(written[i])))
    BY <1>1, <1>2, <1>3, FramesStay
  <2>3. i \in 1..w /\ i \in 0..w /\ i - 1 \in 0..w
    BY <1>5, <1>7
  <2> QED BY <2>1, <2>2, <2>3
<1> DEFINE top == ends[w] + Len(Encode(f))
           longer == [i \in 0..w + 1 |-> IF i <= w THEN ends[i] ELSE top]
<1>9. r \in r..w /\ w \in r..w /\ r \in 0..w /\ w \in 0..w
  BY <1>5, <1>7
<1>10. ends[r] \in Nat /\ ends[w] \in Nat /\ top \in Nat /\ top = ends[w] + Len(Encode(f))
  BY <1>3, <1>7, <1>9
<1> HIDE DEF r, w, top
<1>11. /\ longer \in [0..w + 1 -> Nat] /\ longer[w + 1] = top
       /\ \A i \in 0..w : longer[i] = ends[i]
  <2>1. \A i \in 0..w : i \in 0..w + 1 /\ i <= w
    BY <1>5
  <2>2. w + 1 \in 0..w + 1 /\ ~(w + 1 <= w)
    BY <1>5
  <2>3. \A i \in 0..w + 1 : i <= w => i \in 0..w
    BY <1>5
  <2> QED BY <1>7, <1>10, <2>1, <2>2, <2>3
<1> HIDE DEF longer
<1>12. PICK g \in [0..w + 1 -> Nat] : g = longer
  BY <1>11
<1>13. /\ g \in [0..w + 1 -> Nat] /\ g[w + 1] = top /\ \A i \in 0..w : g[i] = ends[i]
  BY <1>11, <1>12
<1>14. ASSUME NEW i \in r..w + 1, NEW j \in r..w + 1, i <= j PROVE g[i] <= g[j]
  <2>1. CASE j = w + 1 /\ i = w + 1
    BY <1>10, <1>13, <2>1
  <2>2. CASE j = w + 1 /\ i # w + 1
    <3>1. i \in r..w /\ i \in 0..w
      BY <1>5, <1>7, <2>2
    <3>2. ends[i] \in Nat /\ ends[i] <= ends[w] /\ g[i] = ends[i]
      BY <1>7, <1>13, <3>1
    <3> QED BY <1>3, <1>10, <1>13, <2>2, <3>2
  <2>3. CASE j # w + 1
    <3>1. i \in r..w /\ i \in 0..w /\ j \in r..w /\ j \in 0..w
      BY <1>5, <1>7, <1>14, <2>3
    <3> QED BY <1>7, <1>13, <1>14, <3>1
  <2> QED BY <2>1, <2>2, <2>3
<1>15. ASSUME NEW i \in (r + 1)..w + 1
       PROVE  /\ g[i] = g[i - 1] + Len(Encode(written'[i]))
              /\ Holds(Rest', g[i - 1] - g[r], written'[i], Len(Encode(written'[i])))
  <2>1. g[r] = ends[r]
    BY <1>9, <1>13
  <2>2. CASE i = w + 1
    <3>1. i - 1 = w /\ g[w] = ends[w]
      BY <1>5, <1>9, <1>13, <2>2
    <3>2. ends[w] - ends[r] = Len(Rest)
      BY <1>7
    <3>3. Holds(Rest', Len(Rest), f, Len(Encode(f)))
      BY <1>4 DEF Holds
    <3> QED BY <1>5, <1>10, <1>13, <2>1, <2>2, <3>1, <3>2, <3>3
  <2>3. CASE i # w + 1
    <3>1. i \in (r + 1)..w
      BY <1>5, <1>7, <2>3
    <3>2. g[i] = ends[i] /\ g[i - 1] = ends[i - 1] /\ written'[i] = written[i]
      BY <1>5, <1>8, <1>13, <3>1
    <3> QED BY <1>8, <2>1, <3>1, <3>2
  <2> QED BY <2>2, <2>3
<1>16. Len(Rest') - (g[w + 1] - g[r]) = 0
  <2>1. g[r] = ends[r] /\ g[w + 1] = ends[w] + Len(Encode(f))
    BY <1>9, <1>10, <1>13
  <2>2. Len(Rest') = (ends[w] - ends[r]) + Len(Encode(f))
    BY <1>4, <1>7
  <2> QED BY <1>3, <1>10, <2>1, <2>2
<1>17. Framed(g)'
  <2>1. Len(received)' = r /\ Len(written)' = w + 1 /\ r <= w + 1
    BY <1>1, <1>5, <1>7 DEF r
  <2>2. writerState' # "cut" /\ received' = received
    BY <1>1
  <2> QED BY <1>13, <1>14, <1>15, <1>16, <2>1, <2>2 DEF Framed
<1> QED BY <1>5, <1>6, <1>13, <1>17 DEF w

(* The writer goes, perhaps within a frame. *)
LEMMA CloseKeeps ==
  ASSUME StreamTypeOK, NEW ends, Framed(ends), CloseStream
  PROVE  StreamTypeOK' /\ Framed(ends)'
<1> DEFINE r == Len(received)
           w == Len(written)
<1>1. /\ writerState = "open" /\ UNCHANGED <<written, readBuffer, received, readerState>>
  BY DEF CloseStream
<1>2. CASE writerState' = "closed" /\ UNCHANGED bytes
  <2>1. Rest' = Rest
    BY <1>1, <1>2 DEF Rest
  <2>2. StreamTypeOK'
    BY <1>1, <1>2 DEF StreamTypeOK
  <2> QED BY <1>1, <1>2, <2>1, <2>2 DEF Framed
<1>3. ASSUME writerState' = "cut", NEW f \in Frames, NEW n \in 1..(Len(Encode(f)) - 1),
             bytes' = bytes \o SubSeq(Encode(f), 1, n)
      PROVE  StreamTypeOK' /\ Framed(ends)'
  <2> DEFINE part == SubSeq(Encode(f), 1, n)
  <2>1. Encode(f) \in Seq(Nat) /\ Len(Encode(f)) \in Nat /\ n \in Nat /\ n <= Len(Encode(f))
    BY EncodeIs
  <2>2. /\ part \in Seq(Nat) /\ Len(part) = n
        /\ \A k \in 1..n : part[k] = Encode(f)[k]
    <3>1. \A i \in 1..n : Encode(f)[i] \in Nat
      <4> TAKE i \in 1..n
      <4>1. i \in 1..Len(Encode(f))
        BY <2>1
      <4> QED BY <2>1, <4>1, ElementOfSeq
    <3>2. /\ part \in Seq(Nat) /\ Len(part) = IF 1 <= n THEN n - 1 + 1 ELSE 0
          /\ \A i \in 1..n - 1 + 1 : part[i] = Encode(f)[1 + i - 1]
      BY <2>1, <3>1, SubSeqProperties
    <3>3. n - 1 + 1 = n /\ 1 <= n /\ \A i \in 1..n : 1 + i - 1 = i
      OBVIOUS
    <3> QED BY <3>2, <3>3
  <2> HIDE DEF part
  <2>3. bytes' = bytes \o part
    BY <1>3 DEF part
  <2>4. /\ bytes' \in Seq(Nat) /\ Len(Rest) \in Nat /\ Len(Rest') = Len(Rest) + n
        /\ \A k \in 1..n : Rest'[Len(Rest) + k] = part[k]
    BY <1>1, <2>2, <2>3, RestGrows
  <2>5. StreamTypeOK'
    BY <1>1, <1>3, <2>4 DEF StreamTypeOK
  <2>6. /\ ends \in [0..w -> Nat] /\ r <= w
        /\ \A i, j \in r..w : i <= j => ends[i] <= ends[j]
        /\ \A i \in (r + 1)..w : ends[i] = ends[i - 1] + Len(Encode(written[i]))
    BY DEF Framed
  <2>7. \A i \in (r + 1)..w :
          Holds(Rest', ends[i - 1] - ends[r], written[i], Len(Encode(written[i])))
    BY <1>1, <2>2, <2>3, FramesStay
  <2>8. Len(Rest) = ends[w] - ends[r]
    BY <1>1, FramedIs
  <2>9. Len(Rest') - (ends[w] - ends[r]) = n
    BY <2>4, <2>8
  <2>10. Holds(Rest', ends[w] - ends[r], f, n)
    BY <2>2, <2>4, <2>8 DEF Holds
  <2>11. Framed(ends)'
    BY <1>1, <1>3, <2>6, <2>7, <2>9, <2>10 DEF Framed
  <2> QED BY <2>5, <2>11
<1> QED BY <1>2, <1>3 DEF CloseStream

LEMMA StreamStepKeeps ==
  ASSUME StreamIInv, [StreamNext]_streamVars
  PROVE  StreamIInv'
<1>1. StreamTypeOK /\ ReceivedWhole /\ StreamEnds
  BY DEF StreamIInv
<1>2. PICK ends \in [0..Len(written) -> Nat] : Framed(ends)
  BY DEF StreamIInv
<1>3. /\ Len(received) \in Nat /\ Len(written) \in Nat /\ Len(received) <= Len(written)
      /\ DOMAIN received = 1..Len(received)
  BY <1>1, <1>2, FramedIs DEF StreamTypeOK
<1>4. CASE WriteFrame
  <2>1. /\ StreamTypeOK' /\ \E longer \in [0..Len(written') -> Nat] : Framed(longer)'
        /\ \A i \in 1..Len(written) : written'[i] = written[i]
    BY <1>1, <1>2, <1>4, WriteKeeps
  <2>2. /\ UNCHANGED <<writerState, readBuffer, received, readerState>>
        /\ readerState \in {"open", "failed"}
    BY <1>1, <1>4 DEF WriteFrame, StreamTypeOK, StreamEnds
  <2>3. ReceivedWhole'
    <3>1. \A i \in DOMAIN received : i \in 1..Len(written)
      BY <1>3
    <3> QED BY <1>1, <2>1, <2>2, <3>1 DEF ReceivedWhole
  <2>4. StreamEnds'
    BY <2>2 DEF StreamEnds
  <2> QED BY <2>1, <2>3, <2>4 DEF StreamIInv
<1>5. CASE CloseStream
  <2>1. StreamTypeOK' /\ Framed(ends)'
    BY <1>1, <1>2, <1>5, CloseKeeps
  <2>2. /\ UNCHANGED <<written, readBuffer, received, readerState>>
        /\ readerState \in {"open", "failed"}
    BY <1>1, <1>5 DEF CloseStream, StreamTypeOK, StreamEnds
  <2>3. ReceivedWhole' /\ StreamEnds'
    BY <1>1, <2>2 DEF ReceivedWhole, StreamEnds
  <2> QED BY <1>2, <2>1, <2>2, <2>3 DEF StreamIInv
<1>6. CASE ParseFrame
  <2>1. /\ StreamTypeOK' /\ Framed(ends)' /\ Len(received) < Len(written)
        /\ received' = Append(received, written[Len(received) + 1].payload)
    BY <1>1, <1>2, <1>6, ParseKeeps
  <2>2. UNCHANGED <<written, bytes, writerState, readerState>> /\ readerState = "open"
    BY <1>6 DEF ParseFrame
  <2>3. /\ DOMAIN received' = 1..Len(received) + 1
        /\ \A i \in 1..Len(received) : received'[i] = received[i]
        /\ received'[Len(received) + 1] = written[Len(received) + 1].payload
    <3>1. written[Len(received) + 1].payload \in Seq(Nat)
      <4>1. Len(received) + 1 \in 1..Len(written)
        BY <1>3, <2>1
      <4>2. written[Len(received) + 1] \in Frames
        BY <1>1, <4>1 DEF StreamTypeOK
      <4> QED BY <4>2, EncodeIs
    <3> QED BY <1>1, <2>1, <3>1 DEF StreamTypeOK
  <2>4. ReceivedWhole'
    <3>1. \A i \in 1..Len(received) + 1 : i \in 1..Len(received) \/ i = Len(received) + 1
      BY <1>3
    <3> QED BY <1>1, <1>3, <2>2, <2>3, <3>1 DEF ReceivedWhole
  <2>5. StreamEnds'
    BY <2>2 DEF StreamEnds
  <2> QED BY <1>2, <2>1, <2>2, <2>4, <2>5 DEF StreamIInv
<1>7. CASE ReadBuf
  <2>1. StreamTypeOK' /\ Framed(ends)'
    BY <1>1, <1>2, <1>7, ReadKeeps
  <2>2. UNCHANGED <<written, writerState, received, readerState>>
    BY <1>7 DEF ReadBuf
  <2>3. ReceivedWhole' /\ StreamEnds'
    BY <1>1, <2>2 DEF ReceivedWhole, StreamEnds
  <2> QED BY <1>2, <2>1, <2>2, <2>3 DEF StreamIInv
<1>8. CASE EndOfStream
  <2>1. /\ TryExtractFrame(readBuffer) = {} /\ bytes = <<>> /\ writerState # "open"
        /\ readerState' = IF readBuffer = <<>> THEN "None" ELSE "reset"
        /\ UNCHANGED <<written, bytes, writerState, readBuffer, received>>
    BY <1>8 DEF EndOfStream
  <2>2. Rest' = Rest /\ Len(Rest) = Len(readBuffer) /\ Len(readBuffer) \in Nat
    BY <1>1, <1>2, <2>1, NextFrame DEF Rest
  <2>3. StreamTypeOK' /\ Framed(ends)' /\ ReceivedWhole'
    BY <1>1, <1>2, <2>1, <2>2 DEF StreamTypeOK, Framed, ReceivedWhole
  <2>4. Len(received) = Len(written)
    <3> SUFFICES ASSUME Len(received) < Len(written) PROVE FALSE
      BY <1>3
    <3> DEFINE f == written[Len(received) + 1]
    <3>1. /\ f \in Frames /\ Len(Encode(f)) <= Len(Rest)
          /\ TryExtractFrame(readBuffer) =
               IF Len(readBuffer) < Len(Encode(f)) THEN {}
               ELSE {[payload |-> f.payload, used |-> Len(Encode(f))]}
      BY <1>1, <1>2, NextFrame
    <3>2. Len(Encode(f)) \in Nat
      BY <3>1, EncodeIs
    <3>3. ~(Len(readBuffer) < Len(Encode(f)))
      BY <2>2, <3>1, <3>2
    <3> QED BY <2>1, <3>1, <3>3
  <2>5. readBuffer = <<>> <=> writerState = "closed"
    <3>1. ends[Len(written)] \in Nat /\ ends[Len(written)] - ends[Len(received)] = 0
      <4>1. Len(written) \in Len(received)..Len(written)
        BY <1>3
      <4>2. ends[Len(written)] \in Nat
        BY <1>1, <1>2, <4>1, FramedIs
      <4> QED BY <2>4, <4>2
    <3>2. CASE writerState = "cut"
      <4>1. PICK g \in Frames : Len(Rest) - (ends[Len(written)] - ends[Len(received)])
                                  \in 1..Len(Encode(g)) - 1
        BY <1>2, <3>2 DEF Framed
      <4>2. Len(readBuffer) # 0
        BY <2>2, <3>1, <4>1
      <4> QED BY <3>2, <4>2
    <3>3. CASE writerState = "closed"
      <4>1. Len(Rest) - (ends[Len(written)] - ends[Len(received)]) = 0
        BY <1>2, <3>3 DEF Framed
      <4>2. Len(readBuffer) = 0 /\ readBuffer \in Seq(Nat)
        BY <1>1, <2>2, <3>1, <4>1 DEF StreamTypeOK
      <4> QED BY <3>3, <4>2, EmptySeq
    <3> QED BY <1>1, <2>1, <3>2, <3>3 DEF StreamTypeOK
  <2>6. StreamEnds'
    BY <1>1, <2>1, <2>4, <2>5 DEF StreamTypeOK, StreamEnds
  <2> QED BY <1>2, <2>1, <2>3, <2>6 DEF StreamIInv
<1>9. CASE ReadBufFails
  <2>1. /\ readerState' = "failed"
        /\ UNCHANGED <<written, bytes, writerState, readBuffer, received>>
    BY <1>9 DEF ReadBufFails
  <2> QED BY <1>1, <1>2, <2>1
             DEF StreamIInv, StreamTypeOK, ReceivedWhole, StreamEnds, Framed, Rest
<1>10. CASE UNCHANGED streamVars
  BY <1>10 DEF streamVars, StreamIInv, StreamTypeOK, ReceivedWhole, StreamEnds, Framed, Rest
<1> QED BY <1>4, <1>5, <1>6, <1>7, <1>8, <1>9, <1>10 DEF StreamNext

(* However the stream is cut into pieces, the frames arrive whole and in order, and at
   the end of the stream all of them have arrived, whether it ended behind a frame
   or within one (Connection::read_frame). *)
THEOREM FramesArriveWhole == StreamSpec => []StreamInv
<1>1. StreamInit => StreamIInv
  <2> SUFFICES ASSUME StreamInit PROVE StreamIInv
    OBVIOUS
  <2>1. /\ written = <<>> /\ bytes = <<>> /\ readBuffer = <<>> /\ received = <<>>
        /\ writerState = "open" /\ readerState = "open"
    BY DEF StreamInit
  <2>2. StreamTypeOK
    BY <2>1, EmptySeq DEF StreamTypeOK
  <2>3. ReceivedWhole /\ StreamEnds
    BY <2>1 DEF ReceivedWhole, StreamEnds
  <2> DEFINE ends == [i \in 0..Len(written) |-> 0]
  <2>4. /\ Len(written) = 0 /\ Len(received) = 0 /\ ends \in [0..Len(written) -> Nat]
        /\ ends[0] = 0
    BY <2>1
  <2>5. Len(Rest) = 0
    BY <2>1, EmptySeq, ConcatProperties DEF Rest
  <2>6. Framed(ends)
    <3> HIDE DEF ends
    <3>1. 0 + 1 = 1 /\ 1..0 = {} /\ 0..0 = {0} /\ 0 - (0 - 0) = 0
      OBVIOUS
    <3> QED BY <2>1, <2>4, <2>5, <3>1 DEF Framed
  <2> QED BY <2>2, <2>3, <2>4, <2>6 DEF StreamIInv
<1>2. StreamIInv /\ [StreamNext]_streamVars => StreamIInv'
  BY StreamStepKeeps
<1>3. StreamIInv => StreamInv
  <2> SUFFICES ASSUME StreamIInv PROVE StreamInv
    OBVIOUS
  <2>1. Len(received) <= Len(written)
    BY DEF StreamIInv, Framed
  <2> QED BY <2>1 DEF StreamIInv, StreamInv, ReceivedWhole, StreamEnds
<1> QED BY <1>1, <1>2, <1>3, PTL DEF StreamSpec
=================================================================================
