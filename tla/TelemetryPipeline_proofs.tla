------------------------ MODULE TelemetryPipeline_proofs ------------------------
(***************************************************************************)
(* The pipeline of module 3 for every number of sources, frames and every  *)
(* capacity of its channels: frames keep their order, none is lost, the    *)
(* limits hold, the registry and the router agree, and the tasks end one   *)
(* after the other.                                                        *)
(***************************************************************************)
EXTENDS TelemetryPipeline, FiniteSetTheorems, TLAPS

-----------------------------------------------------------------------------
(* Sequences *)

LEMMA Appended ==
  ASSUME NEW S, NEW s \in Seq(S), NEW x \in S
  PROVE  /\ Append(s, x) \in Seq(S) /\ Len(s) \in Nat
         /\ DOMAIN s = 1 .. Len(s) /\ DOMAIN Append(s, x) = 1 .. Len(s) + 1
         /\ \A i \in 1 .. Len(s) : Append(s, x)[i] = s[i]
         /\ Append(s, x)[Len(s) + 1] = x
  OBVIOUS

LEMMA Tailed ==
  ASSUME NEW S, NEW s \in Seq(S), s # <<>>
  PROVE  /\ Head(s) \in S /\ Head(s) = s[1] /\ Tail(s) \in Seq(S) /\ Len(s) \in Nat \ {0}
         /\ DOMAIN s = 1 .. Len(s) /\ DOMAIN Tail(s) = 1 .. Len(s) - 1
         /\ \A i \in 1 .. Len(s) - 1 : Tail(s)[i] = s[i + 1]
  OBVIOUS

LEMMA OneIsSeq ==
  ASSUME NEW x \in Frames
  PROVE  One(x) = <<x>> /\ One(x) = Append(<<>>, x) /\ One(x) # <<>> /\ Head(One(x)) = x /\ Tail(One(x)) = <<>>
  BY PipelineAssumption DEF One

-----------------------------------------------------------------------------
(* Stages *)

StagesOK(st) == DOMAIN st = 1 .. 8 /\ \A i \in 1 .. 8 : st[i] \in Seq(Frames)

LEMMA CarriedIs ==
  ASSUME NEW st, NEW f, NEW u, NEW n
  PROVE  n \in Carried(st, f, u) <=>
           \E i \in DOMAIN st : \E m \in DOMAIN st[i] : Of(st[i][m], f, u) /\ st[i][m].seq = n
  BY DEF Carried

(* What is in one is in the other. *)
LEMMA CarriedFrom ==
  ASSUME NEW f, NEW u, NEW st, NEW st2, StagesOK(st), StagesOK(st2),
         \A i \in 1 .. 8 : \A m \in DOMAIN st2[i] : Of(st2[i][m], f, u) =>
           \E j \in 1 .. 8 : \E k \in DOMAIN st[j] : st[j][k] = st2[i][m]
  PROVE  Carried(st2, f, u) \subseteq Carried(st, f, u)
<1> SUFFICES ASSUME NEW n, n \in Carried(st2, f, u) PROVE n \in Carried(st, f, u)
  OBVIOUS
<1>0. DOMAIN st = 1 .. 8 /\ DOMAIN st2 = 1 .. 8
  BY DEF StagesOK
<1>1. PICK i \in DOMAIN st2 : \E m \in DOMAIN st2[i] : Of(st2[i][m], f, u) /\ st2[i][m].seq = n
  BY CarriedIs
<1>2. PICK m \in DOMAIN st2[i] : Of(st2[i][m], f, u) /\ st2[i][m].seq = n
  BY <1>1
<1>3. PICK j \in DOMAIN st : \E k \in DOMAIN st[j] : st[j][k] = st2[i][m]
  BY <1>0, <1>2
<1>4. \E k \in DOMAIN st[j] : Of(st[j][k], f, u) /\ st[j][k].seq = n
  BY <1>2, <1>3
<1> QED BY <1>4, CarriedIs

(* The head of one stage goes to the end of the next. *)
LEMMA Moved ==
  ASSUME NEW f, NEW u, NEW st, NEW st2, NEW d \in 1 .. 7,
         StagesOK(st), StagesOK(st2), InOrder(st, f, u),
         st[d + 1] # <<>>, st2[d] = Append(st[d], Head(st[d + 1])), st2[d + 1] = Tail(st[d + 1]),
         \A i \in 1 .. 8 : i # d /\ i # d + 1 => st2[i] = st[i]
  PROVE  InOrder(st2, f, u) /\ Carried(st2, f, u) = Carried(st, f, u)
<1> DEFINE last == Len(st[d]) + 1
           stage(i, m) == IF i = d /\ m = last THEN d + 1 ELSE i
           place(i, m) == IF i = d /\ m = last THEN 1 ELSE IF i = d + 1 THEN m + 1 ELSE m
<1>1. /\ Len(st[d]) \in Nat /\ Len(st[d + 1]) \in Nat \ {0}
      /\ DOMAIN st[d] = 1 .. Len(st[d]) /\ DOMAIN st2[d] = 1 .. last
      /\ \A i \in 1 .. Len(st[d]) : st2[d][i] = st[d][i]
      /\ st2[d][last] = st[d + 1][1]
      /\ DOMAIN st[d + 1] = 1 .. Len(st[d + 1]) /\ DOMAIN st2[d + 1] = 1 .. Len(st[d + 1]) - 1
      /\ \A i \in 1 .. Len(st[d + 1]) - 1 : st2[d + 1][i] = st[d + 1][i + 1]
  <2>1. d \in 1 .. 8 /\ d + 1 \in 1 .. 8
    OBVIOUS
  <2>2. st[d] \in Seq(Frames) /\ st[d + 1] \in Seq(Frames)
    BY <2>1 DEF StagesOK
  <2>3. Head(st[d + 1]) \in Frames
    BY <2>2, Tailed
  <2> QED BY <2>2, <2>3, Appended, Tailed, SMTT(30)
<1>2. ASSUME NEW i \in 1 .. 8, NEW m \in DOMAIN st2[i]
      PROVE  /\ stage(i, m) \in 1 .. 8 /\ place(i, m) \in DOMAIN st[stage(i, m)]
             /\ m \in Int /\ st2[i][m] = st[stage(i, m)][place(i, m)]
  <2>1. CASE i = d /\ m = last
    <3>1. stage(i, m) = d + 1 /\ place(i, m) = 1 /\ 1 \in DOMAIN st[d + 1] /\ m \in Int
      BY <1>1, <2>1
    <3>2. st2[i][m] = st[d + 1][1]
      BY <1>1, <2>1
    <3> QED BY <3>1, <3>2
  <2>2. CASE i = d /\ m # last
    <3>1. stage(i, m) = d /\ place(i, m) = m /\ m \in 1 .. Len(st[d])
      <4>1. m \in 1 .. last
        BY <1>1, <2>2
      <4> QED BY <1>1, <2>2, <4>1
    <3>2. st2[d][m] = st[d][m]
      BY <1>1, <3>1
    <3> QED BY <1>1, <2>2, <3>1, <3>2
  <2>3. CASE i = d + 1
    <3>1. m \in 1 .. Len(st[d + 1]) - 1
      BY <1>1, <2>3
    <3>2. stage(i, m) = d + 1 /\ place(i, m) = m + 1 /\ m + 1 \in 1 .. Len(st[d + 1])
      BY <1>1, <2>3, <3>1
    <3>3. st2[d + 1][m] = st[d + 1][m + 1]
      BY <1>1, <3>1
    <3>4. stage(i, m) \in 1 .. 8 /\ m \in Int
      BY <3>1, <3>2
    <3> HIDE DEF stage, place
    <3>5. st[stage(i, m)] = st[d + 1]
      BY <3>2
    <3>6. place(i, m) \in DOMAIN st[stage(i, m)]
      BY <1>1, <3>2, <3>5
    <3>7. st[stage(i, m)][place(i, m)] = st2[i][m]
      BY <2>3, <3>2, <3>3, <3>5
    <3> QED BY <3>4, <3>6, <3>7
  <2>4. CASE i # d /\ i # d + 1
    <3>1. st2[i] = st[i] /\ st[i] \in Seq(Frames) /\ stage(i, m) = i /\ place(i, m) = m
      BY <2>4 DEF StagesOK
    <3>2. DOMAIN st[i] = 1 .. Len(st[i]) /\ Len(st[i]) \in Nat
      BY <3>1
    <3>3. m \in DOMAIN st[i] /\ m \in Int /\ st2[i][m] = st[i][m]
      BY <3>1, <3>2
    <3>4. stage(i, m) = i /\ place(i, m) = m
      BY <3>1
    <3> HIDE DEF stage, place
    <3>5. st[stage(i, m)] = st[i]
      BY <3>4
    <3>6. stage(i, m) \in 1 .. 8
      BY <3>4
    <3>7. place(i, m) \in DOMAIN st[stage(i, m)]
      BY <3>3, <3>4, <3>5
    <3>8. st[stage(i, m)][place(i, m)] = st[i][m]
      BY <3>4, <3>5
    <3> QED BY <3>3, <3>6, <3>7, <3>8
  <2> QED BY <2>1, <2>2, <2>3, <2>4
<1>3. ASSUME NEW i \in 1 .. 8, NEW j \in 1 .. 8, NEW m \in DOMAIN st2[i], NEW n \in DOMAIN st2[j],
             i < j \/ (i = j /\ m < n)
      PROVE  \/ stage(i, m) < stage(j, n)
             \/ stage(i, m) = stage(j, n) /\ place(i, m) < place(j, n)
  <2>1. m \in Int /\ n \in Int
    BY <1>2
  <2>2. j = d => n \in 1 .. last
    BY <1>1
  <2>3. j = d + 1 => n \in 1 .. Len(st[d + 1]) - 1
    BY <1>1
  <2> QED BY <1>1, <1>3, <2>1, <2>2, <2>3
<1>4. ASSUME NEW i \in 1 .. 8, NEW m \in DOMAIN st[i]
      PROVE  \E j \in 1 .. 8 : \E n \in DOMAIN st2[j] : st2[j][n] = st[i][m]
  <2>1. CASE i = d + 1 /\ m = 1
    <3>1. last \in DOMAIN st2[d] /\ st2[d][last] = st[i][m] /\ d \in 1 .. 8
      BY <1>1, <2>1
    <3> QED BY <3>1
  <2>2. CASE i = d + 1 /\ m # 1
    <3> DEFINE n == m - 1
    <3>1. m \in 1 .. Len(st[d + 1])
      BY <1>1, <2>2
    <3>2. Len(st[d + 1]) \in Nat /\ m # 1
      BY <1>1, <2>2
    <3>3. n \in 1 .. Len(st[d + 1]) - 1 /\ n + 1 = m
      BY <3>1, <3>2
    <3> HIDE DEF n
    <3>4. n \in DOMAIN st2[d + 1] /\ st2[d + 1][n] = st[d + 1][m]
      BY <1>1, <3>3
    <3> QED BY <2>2, <3>4
  <2>3. CASE i = d
    <3>1. m \in DOMAIN st2[d] /\ st2[d][m] = st[d][m]
      BY <1>1, <2>3
    <3> QED BY <2>3, <3>1
  <2>4. CASE i # d /\ i # d + 1
    <3>1. st2[i] = st[i]
      BY <2>4
    <3> QED BY <3>1
  <2> QED BY <2>1, <2>2, <2>3, <2>4
<1> HIDE DEF stage, place
<1>5. InOrder(st2, f, u)
  <2> SUFFICES ASSUME NEW i \in 1 .. 8, NEW j \in 1 .. 8, NEW m \in DOMAIN st2[i], NEW n \in DOMAIN st2[j],
                      i < j \/ (i = j /\ m < n), Of(st2[i][m], f, u), Of(st2[j][n], f, u)
               PROVE  st2[i][m].seq < st2[j][n].seq
    BY DEF InOrder, StagesOK
  <2>1. /\ stage(i, m) \in 1 .. 8 /\ place(i, m) \in DOMAIN st[stage(i, m)]
        /\ st2[i][m] = st[stage(i, m)][place(i, m)]
    BY <1>2
  <2>2. /\ stage(j, n) \in 1 .. 8 /\ place(j, n) \in DOMAIN st[stage(j, n)]
        /\ st2[j][n] = st[stage(j, n)][place(j, n)]
    BY <1>2
  <2>3. \/ stage(i, m) < stage(j, n)
        \/ stage(i, m) = stage(j, n) /\ place(i, m) < place(j, n)
    BY <1>3
  <2> QED BY <2>1, <2>2, <2>3, ZenonT(60) DEF InOrder, StagesOK
<1>6. Carried(st2, f, u) \subseteq Carried(st, f, u)
  <2>1. \A i \in 1 .. 8 : \A m \in DOMAIN st2[i] : Of(st2[i][m], f, u) =>
          \E j \in 1 .. 8 : \E k \in DOMAIN st[j] : st[j][k] = st2[i][m]
    BY <1>2
  <2> QED BY <2>1, CarriedFrom
<1>7. Carried(st, f, u) \subseteq Carried(st2, f, u)
  BY <1>4, CarriedFrom
<1> QED BY <1>5, <1>6, <1>7

(* Only frames that do not matter come, go or change their place. *)
SamePlaces(st, st2, f, u) ==
  \A i \in 1 .. 8 : \A m \in DOMAIN st2[i] :
    Of(st2[i][m], f, u) => m \in DOMAIN st[i] /\ st[i][m] = st2[i][m]

LEMMA Thinned ==
  ASSUME NEW f, NEW u, NEW st, NEW st2, StagesOK(st), StagesOK(st2), SamePlaces(st, st2, f, u)
  PROVE  /\ InOrder(st, f, u) => InOrder(st2, f, u)
         /\ Carried(st2, f, u) \subseteq Carried(st, f, u)
<1>1. InOrder(st, f, u) => InOrder(st2, f, u)
  BY ZenonT(60) DEF SamePlaces, InOrder, StagesOK
<1>2. \A i \in 1 .. 8 : \A m \in DOMAIN st2[i] : Of(st2[i][m], f, u) =>
        \E j \in 1 .. 8 : \E k \in DOMAIN st[j] : st[j][k] = st2[i][m]
  BY DEF SamePlaces
<1> QED BY <1>1, <1>2, CarriedFrom

(* A frame of another source or priority enters a stage. *)
LEMMA Inserted ==
  ASSUME NEW f, NEW u, NEW st, NEW st2, NEW d \in 1 .. 8, NEW x \in Frames,
         StagesOK(st), StagesOK(st2), ~Of(x, f, u), st2[d] = Append(st[d], x),
         \A i \in 1 .. 8 : i # d => st2[i] = st[i]
  PROVE  /\ InOrder(st, f, u) => InOrder(st2, f, u)
         /\ Carried(st2, f, u) = Carried(st, f, u)
<1>1. ASSUME NEW i \in 1 .. 8
      PROVE  /\ \A m \in DOMAIN st2[i] : Of(st2[i][m], f, u) => m \in DOMAIN st[i] /\ st[i][m] = st2[i][m]
             /\ \A m \in DOMAIN st[i] : m \in DOMAIN st2[i] /\ st[i][m] = st2[i][m]
  <2>1. CASE i = d
    <3>1. st[i] \in Seq(Frames)
      BY DEF StagesOK
    <3>2. /\ Len(st[i]) \in Nat /\ DOMAIN st[i] = 1 .. Len(st[i])
          /\ DOMAIN st2[i] = 1 .. Len(st[i]) + 1
          /\ \A m \in 1 .. Len(st[i]) : st2[i][m] = st[i][m]
          /\ st2[i][Len(st[i]) + 1] = x
      BY <2>1, <3>1, Appended, SMTT(30)
    <3> QED BY <3>2
  <2> QED BY <2>1
<1>2. SamePlaces(st, st2, f, u) /\ SamePlaces(st2, st, f, u)
  BY <1>1 DEF SamePlaces
<1>3. (InOrder(st, f, u) => InOrder(st2, f, u)) /\ Carried(st2, f, u) \subseteq Carried(st, f, u)
  BY <1>2, Thinned
<1>4. Carried(st, f, u) \subseteq Carried(st2, f, u)
  BY <1>2, Thinned
<1> QED BY <1>3, <1>4

(* A frame enters the last stage, with a greater number than all. *)
Above(x, st, f, u) == \A n \in Carried(st, f, u) : n < x.seq

LEMMA Added ==
  ASSUME NEW f, NEW u, NEW st, NEW st2, NEW x \in Frames, StagesOK(st), StagesOK(st2), InOrder(st, f, u),
         Of(x, f, u), Above(x, st, f, u),
         st2[8] = Append(st[8], x), \A i \in 1 .. 7 : st2[i] = st[i]
  PROVE  /\ InOrder(st2, f, u)
         /\ Carried(st2, f, u) = Carried(st, f, u) \union {x.seq}
<1> DEFINE last == Len(st[8]) + 1
<1>1. /\ Len(st[8]) \in Nat /\ DOMAIN st[8] = 1 .. Len(st[8]) /\ DOMAIN st2[8] = 1 .. last
      /\ \A m \in 1 .. Len(st[8]) : st2[8][m] = st[8][m]
      /\ st2[8][last] = x
  BY Appended DEF StagesOK
<1>2. ASSUME NEW i \in 1 .. 8, NEW m \in DOMAIN st2[i]
      PROVE  (i = 8 /\ m = last) \/ (m \in DOMAIN st[i] /\ st2[i][m] = st[i][m])
  <2>1. CASE i = 8
    <3>1. m \in 1 .. last
      BY <1>1, <2>1
    <3> QED BY <1>1, <2>1, <3>1
  <2>2. CASE i # 8
    <3>1. st2[i] = st[i]
      BY <2>2
    <3> QED BY <3>1
  <2> QED BY <2>1, <2>2
<1>3. ASSUME NEW i \in 1 .. 8, NEW m \in DOMAIN st[i]
      PROVE  m \in DOMAIN st2[i] /\ st2[i][m] = st[i][m]
  <2>1. CASE i = 8
    <3>1. m \in 1 .. Len(st[8])
      BY <1>1, <2>1
    <3> QED BY <1>1, <2>1, <3>1
  <2>2. CASE i # 8
    <3>1. st2[i] = st[i]
      BY <2>2
    <3> QED BY <3>1
  <2> QED BY <2>1, <2>2
<1>4. last \in DOMAIN st2[8] /\ \A m \in DOMAIN st2[8] : m <= last
  BY <1>1
<1>5. DOMAIN st = 1 .. 8 /\ DOMAIN st2 = 1 .. 8
  BY DEF StagesOK
<1> HIDE DEF last
<1>6. InOrder(st2, f, u)
  <2> SUFFICES ASSUME NEW i \in 1 .. 8, NEW j \in 1 .. 8, NEW m \in DOMAIN st2[i], NEW n \in DOMAIN st2[j],
                      i < j \/ (i = j /\ m < n), Of(st2[i][m], f, u), Of(st2[j][n], f, u)
               PROVE  st2[i][m].seq < st2[j][n].seq
    BY <1>5 DEF InOrder
  <2>1. ~(i = 8 /\ m = last)
    <3> SUFFICES ASSUME i = 8, m = last PROVE FALSE
      OBVIOUS
    <3>1. j = 8 /\ m < n /\ n <= last
      BY <1>4
    <3>2. n \in Int /\ last \in Int
      BY <1>1, <3>1 DEF last
    <3> QED BY <3>1, <3>2
  <2>2. m \in DOMAIN st[i] /\ st2[i][m] = st[i][m]
    BY <1>2, <2>1
  <2>3. st[i][m].seq \in Carried(st, f, u)
    BY <1>5, <2>2, CarriedIs
  <2>4. CASE j = 8 /\ n = last
    BY <1>1, <2>2, <2>3, <2>4 DEF Above
  <2>5. CASE ~(j = 8 /\ n = last)
    <3>1. n \in DOMAIN st[j] /\ st2[j][n] = st[j][n]
      BY <1>2, <2>5
    <3> QED BY <1>5, <2>2, <3>1 DEF InOrder
  <2> QED BY <2>4, <2>5
<1>7. ASSUME NEW k PROVE k \in Carried(st2, f, u) <=> k \in Carried(st, f, u) \/ k = x.seq
  <2>1. ASSUME k \in Carried(st2, f, u) PROVE k \in Carried(st, f, u) \/ k = x.seq
    <3>1. PICK i \in 1 .. 8 : \E m \in DOMAIN st2[i] : Of(st2[i][m], f, u) /\ st2[i][m].seq = k
      BY <1>5, <2>1, CarriedIs
    <3>2. PICK m \in DOMAIN st2[i] : Of(st2[i][m], f, u) /\ st2[i][m].seq = k
      BY <3>1
    <3>3. CASE i = 8 /\ m = last
      BY <1>1, <3>2, <3>3
    <3>4. CASE m \in DOMAIN st[i] /\ st2[i][m] = st[i][m]
      BY <1>5, <3>2, <3>4, CarriedIs
    <3> QED BY <1>2, <3>3, <3>4
  <2>2. ASSUME k \in Carried(st, f, u) PROVE k \in Carried(st2, f, u)
    <3>1. PICK i \in 1 .. 8 : \E m \in DOMAIN st[i] : Of(st[i][m], f, u) /\ st[i][m].seq = k
      BY <1>5, <2>2, CarriedIs
    <3>2. PICK m \in DOMAIN st[i] : Of(st[i][m], f, u) /\ st[i][m].seq = k
      BY <3>1
    <3>3. m \in DOMAIN st2[i] /\ st2[i][m] = st[i][m]
      BY <1>3
    <3> QED BY <1>5, <3>2, <3>3, CarriedIs
  <2>3. x.seq \in Carried(st2, f, u)
    BY <1>1, <1>4, <1>5, CarriedIs
  <2> QED BY <2>1, <2>2, <2>3
<1> QED BY <1>6, <1>7

-----------------------------------------------------------------------------
(* What holds of the tasks and channels by themselves *)

OwnFrames ==
  /\ \A f \in Feeds : hand[f] # NoFrame => hand[f].feed = f
  /\ \A f \in Feeds : \A m \in DOMAIN feedq[f] : feedq[f][m].feed = f

Lanes ==
  /\ \A m \in DOMAIN emergency : emergency[m].emergency
  /\ \A m \in DOMAIN routine : ~routine[m].emergency

Base == TypeOK /\ EndsInOrder /\ OwnFrames /\ Lanes

LEMMA Joined ==
  ASSUME NEW S, NEW s \in Seq(S), NEW x \in S
  PROVE  Append(s, x) \in Seq(S)
  OBVIOUS

LEMMA Shortened ==
  ASSUME NEW S, NEW s \in Seq(S), s # <<>>
  PROVE  Head(s) \in S /\ Tail(s) \in Seq(S)
  OBVIOUS

LEMMA BaseInit == Init => Base
<1> SUFFICES ASSUME Init PROVE Base
  OBVIOUS
<1> USE PipelineAssumption
<1>1. TypeOK
  <2>1. /\ ctrl \in Seq(Messages) /\ internal \in Seq(Frames) /\ emergency \in Seq(Frames)
        /\ routine \in Seq(Frames) /\ process \in Seq(Frames) /\ processed \in Seq(Frames)
    BY DEF Init
  <2>2. feedq \in [Feeds -> Seq(Frames)] /\ hand \in [Feeds -> Frames \union {NoFrame}]
    BY DEF Init
  <2>3. unread \in 0 .. BroadcastCap /\ overrun \in Nat
    BY DEF Init
  <2>4. /\ registry \in [Keys -> Feeds \union {NoFeed}] /\ handles \in [Keys -> Feeds \union {NoFeed}]
        /\ receiver \in [Feeds -> {"unused", "ctrl", "task", "gone"}] /\ sent \in [Feeds -> Nat]
    BY DEF Init
  <2> QED BY <2>1, <2>2, <2>3, <2>4 DEF Init, TypeOK
<1>2. EndsInOrder /\ OwnFrames /\ Lanes
  BY DEF Init, EndsInOrder, OwnFrames, Lanes
<1> QED BY <1>1, <1>2 DEF Base

LEMMA TypeNext == TypeOK /\ EndsInOrder /\ [Next]_vars => TypeOK'
<1> SUFFICES ASSUME TypeOK, EndsInOrder, [Next]_vars PROVE TypeOK'
  OBVIOUS
<1> USE PipelineAssumption DEF TypeOK, registryVars, feedVars, routerVars, mergeVars, tailVars
<1>0. NoFeed \notin Feeds /\ NoFrame \notin Frames
  OBVIOUS
<1>1. ASSUME NEW k \in Keys, NEW f \in Feeds, AddSource(k, f) PROVE TypeOK'
  <2>1. ctrl' \in Seq(Messages)
    <3>1. [op |-> "Add", key |-> k, feed |-> f] \in Messages
      BY DEF Messages
    <3> QED BY <1>1, <3>1, Joined DEF AddSource
  <2> QED BY <1>1, <2>1 DEF AddSource
<1>2. ASSUME NEW k \in Keys, RemoveSource(k) PROVE TypeOK'
  <2>1. ctrl' \in Seq(Messages)
    <3>1. [op |-> "Remove", key |-> k, feed |-> NoFeed] \in Messages
      BY DEF Messages
    <3> QED BY <1>2, <3>1, Joined DEF RemoveSource
  <2> QED BY <1>2, <2>1 DEF RemoveSource
<1>3. ASSUME NEW f \in Feeds, NEW u \in BOOLEAN, Feeding(f, u) PROVE TypeOK'
  <2>1. [feed |-> f, seq |-> sent[f] + 1, emergency |-> u] \in Frames
    BY DEF Frames
  <2>2. Append(feedq[f], [feed |-> f, seq |-> sent[f] + 1, emergency |-> u]) \in Seq(Frames)
    BY <2>1, Joined
  <2>3. feedq' \in [Feeds -> Seq(Frames)]
    BY <1>3, <2>2 DEF Feeding
  <2> QED BY <1>3, <2>3 DEF Feeding
<1>4. ASSUME NEW f \in Feeds, DropSource(f) PROVE TypeOK'
  BY <1>4 DEF DropSource
<1>5. CASE SignalShutdown \/ ReleaseSources
  BY <1>5 DEF SignalShutdown, ReleaseSources
<1>6. ASSUME NEW f \in Feeds, TaskRecv(f) PROVE TypeOK'
  <2>1. Head(feedq[f]) \in Frames /\ Tail(feedq[f]) \in Seq(Frames)
    BY <1>6, Shortened DEF TaskRecv
  <2>2. feedq' \in [Feeds -> Seq(Frames)]
    BY <1>6, <2>1 DEF TaskRecv
  <2>3. hand' \in [Feeds -> Frames \union {NoFrame}]
    BY <1>6, <2>1 DEF TaskRecv
  <2> QED BY <1>6, <2>2, <2>3 DEF TaskRecv
<1>7. ASSUME NEW f \in Feeds, TaskForwards(f) PROVE TypeOK'
  <2>1. internal' \in Seq(Frames)
    BY <1>7, Joined DEF TaskForwards
  <2> QED BY <1>7, <2>1 DEF TaskForwards
<1>8. ASSUME NEW f \in Feeds, TaskEnds(f) PROVE TypeOK'
  <2>1. feedq' \in [Feeds -> Seq(Frames)]
    BY <1>8 DEF TaskEnds
  <2> QED BY <1>8, <2>1 DEF TaskEnds
<1>9. ASSUME RouterAdds \/ RouterRemoves PROVE TypeOK'
  <2>1. Head(ctrl) \in Messages /\ Tail(ctrl) \in Seq(Messages)
    BY <1>9, Shortened DEF RouterAdds, RouterRemoves
  <2>2. Head(ctrl).op = "Add" => Head(ctrl).feed \in Feeds
    BY <2>1 DEF Messages
  <2>3. Head(ctrl).key \in Keys
    BY <2>1 DEF Messages
  <2>4. CASE RouterAdds
    BY <2>1, <2>2, <2>3, <2>4 DEF RouterAdds
  <2>5. CASE RouterRemoves
    BY <2>1, <2>3, <2>5 DEF RouterRemoves
  <2> QED BY <1>9, <2>4, <2>5
<1>10. CASE RouterTakes
  <2>1. Head(internal) \in Frames /\ Tail(internal) \in Seq(Frames)
    BY <1>10, Shortened DEF RouterTakes
  <2> QED BY <1>10, <2>1 DEF RouterTakes
<1>11. CASE RouterSends
  <2>1. routing \in Frames
    BY <1>11 DEF RouterSends, EndsInOrder
  <2>2. Append(emergency, routing) \in Seq(Frames) /\ Append(routine, routing) \in Seq(Frames)
    BY <2>1, Joined
  <2>3. emergency' \in Seq(Frames) /\ routine' \in Seq(Frames)
    BY <1>11, <2>2 DEF RouterSends
  <2> QED BY <1>11, <2>3 DEF RouterSends
<1>12. CASE RouterStops
  BY <1>12 DEF RouterStops
<1>13. CASE RouterReturns
  <2>1. feedq' \in [Feeds -> Seq(Frames)]
    BY <1>13 DEF RouterReturns
  <2> QED BY <1>13, <2>1 DEF RouterReturns
<1>14. CASE FanInTakes
  <2>1. emergency # <<>> => Head(emergency) \in Frames /\ Tail(emergency) \in Seq(Frames)
    BY Shortened
  <2>2. routine # <<>> => Head(routine) \in Frames /\ Tail(routine) \in Seq(Frames)
    BY Shortened
  <2> QED BY <1>14, <2>1, <2>2 DEF FanInTakes
<1>15. CASE FanInSends
  <2>1. merging \in Frames
    BY <1>15 DEF FanInSends, EndsInOrder
  <2>2. process' \in Seq(Frames)
    BY <1>15, <2>1, Joined DEF FanInSends
  <2> QED BY <1>15, <2>2 DEF FanInSends
<1>16. CASE FanInEnds
  BY <1>16 DEF FanInEnds
<1>17. CASE Processes
  <2>1. Head(process) \in Frames /\ Tail(process) \in Seq(Frames)
    BY <1>17, Shortened DEF Processes
  <2>2. process' \in Seq(Frames) /\ processed' \in Seq(Frames)
    BY <1>17, <2>1, Joined DEF Processes
  <2>3. unread' \in 0 .. BroadcastCap /\ overrun' \in Nat
    BY <1>17, SMTT(30) DEF Processes
  <2> QED BY <1>17, <2>2, <2>3 DEF Processes
<1>18. CASE ProcessorEnds
  BY <1>18 DEF ProcessorEnds
<1>19. CASE ArchiveReads
  <2>1. unread' \in 0 .. BroadcastCap /\ overrun' \in Nat
    BY <1>19 DEF ArchiveReads
  <2> QED BY <1>19, <2>1 DEF ArchiveReads
<1>20. CASE ArchiveEnds
  BY <1>20 DEF ArchiveEnds
<1>21. CASE UNCHANGED vars
  BY <1>21 DEF vars
<1> HIDE DEF TypeOK
<1> QED BY <1>1, <1>2, <1>3, <1>4, <1>5, <1>6, <1>7, <1>8, <1>9, <1>10, <1>11, <1>12, <1>13, <1>14, <1>15,
           <1>16, <1>17, <1>18, <1>19, <1>20, <1>21
        DEF Next, ClientStep, TaskStep, RouterStep, FanInStep, ProcessorStep, ArchiveStep

LEMMA EndsNext == TypeOK /\ EndsInOrder /\ [Next]_vars => EndsInOrder'
<1> SUFFICES ASSUME TypeOK, EndsInOrder, [Next]_vars PROVE EndsInOrder'
  OBVIOUS
<1> USE DEF EndsInOrder, registryVars, feedVars, routerVars, mergeVars, tailVars
<1>0. NoFrame \notin Frames
  BY PipelineAssumption
<1>1. ASSUME NEW k \in Keys, NEW f \in Feeds, AddSource(k, f) PROVE EndsInOrder'
  BY <1>1 DEF AddSource, CtrlOpen
<1>2. ASSUME NEW k \in Keys, RemoveSource(k) PROVE EndsInOrder'
  BY <1>2 DEF RemoveSource, CtrlOpen
<1>3. ASSUME NEW f \in Feeds, NEW u \in BOOLEAN, Feeding(f, u) PROVE EndsInOrder'
  BY <1>3 DEF Feeding
<1>4. ASSUME NEW f \in Feeds, DropSource(f) PROVE EndsInOrder'
  BY <1>4 DEF DropSource
<1>5. CASE SignalShutdown \/ ReleaseSources
  BY <1>5 DEF SignalShutdown, ReleaseSources
<1>6. ASSUME NEW f \in Feeds, TaskRecv(f) \/ TaskForwards(f) \/ TaskEnds(f) PROVE EndsInOrder'
  BY <1>6 DEF TaskRecv, TaskForwards, TaskEnds
<1>7. CASE RouterAdds \/ RouterRemoves
  BY <1>7 DEF RouterAdds, RouterRemoves
<1>8. CASE RouterTakes
  <2>1. Head(internal) # NoFrame
    BY <1>0, <1>8, Shortened DEF RouterTakes, TypeOK
  <2> QED BY <1>8, <2>1 DEF RouterTakes
<1>9. CASE RouterSends
  BY <1>9 DEF RouterSends
<1>10. CASE RouterStops
  BY <1>10 DEF RouterStops
<1>11. CASE RouterReturns
  BY <1>11 DEF RouterReturns
<1>12. CASE FanInTakes
  <2>1. emergency # <<>> => Head(emergency) # NoFrame
    BY <1>0, Shortened DEF TypeOK
  <2>2. routine # <<>> => Head(routine) # NoFrame
    BY <1>0, Shortened DEF TypeOK
  <2> QED BY <1>12, <2>1, <2>2 DEF FanInTakes
<1>13. CASE FanInSends
  BY <1>13 DEF FanInSends
<1>14. CASE FanInEnds
  BY <1>14 DEF FanInEnds
<1>15. CASE Processes
  BY <1>15 DEF Processes
<1>16. CASE ProcessorEnds
  BY <1>16 DEF ProcessorEnds
<1>17. CASE ArchiveReads
  BY <1>17 DEF ArchiveReads
<1>18. CASE ArchiveEnds
  BY <1>18 DEF ArchiveEnds, TypeOK
<1>19. CASE UNCHANGED vars
  BY <1>19 DEF vars
<1> HIDE DEF EndsInOrder
<1> QED BY <1>1, <1>2, <1>3, <1>4, <1>5, <1>6, <1>7, <1>8, <1>9, <1>10, <1>11, <1>12, <1>13, <1>14, <1>15,
           <1>16, <1>17, <1>18, <1>19
        DEF Next, ClientStep, TaskStep, RouterStep, FanInStep, ProcessorStep, ArchiveStep

(* The places a frame of a feed is in before it is forwarded. *)
LEMMA OwnNext == TypeOK /\ OwnFrames /\ [Next]_vars => OwnFrames'
<1> SUFFICES ASSUME TypeOK, OwnFrames, [Next]_vars PROVE OwnFrames'
  OBVIOUS
<1> USE DEF registryVars, feedVars, routerVars, mergeVars, tailVars
<1>0. /\ feedq \in [Feeds -> Seq(Frames)] /\ hand \in [Feeds -> Frames \union {NoFrame}]
      /\ sent \in [Feeds -> Nat]
  BY DEF TypeOK
<1>1. ASSUME NEW f \in Feeds, NEW u \in BOOLEAN, Feeding(f, u) PROVE OwnFrames'
  <2> DEFINE x == [feed |-> f, seq |-> sent[f] + 1, emergency |-> u]
  <2>1. x \in Frames /\ x.feed = f
    BY <1>0 DEF Frames
  <2>2. feedq' = [feedq EXCEPT ![f] = Append(@, x)] /\ hand' = hand
    BY <1>1 DEF Feeding
  <2> HIDE DEF x
  <2>3. \A m \in DOMAIN Append(feedq[f], x) : Append(feedq[f], x)[m].feed = f
    <3>1. feedq[f] \in Seq(Frames) /\ \A m \in DOMAIN feedq[f] : feedq[f][m].feed = f
      BY <1>0 DEF OwnFrames
    <3> DEFINE s == feedq[f]
    <3> HIDE DEF s
    <3>2. s \in Seq(Frames) /\ \A m \in DOMAIN s : s[m].feed = f
      BY <3>1 DEF s
    <3>3. \A m \in DOMAIN Append(s, x) : Append(s, x)[m].feed = f
      BY <2>1, <3>2, Appended
    <3> QED BY <3>3 DEF s
  <2> QED BY <1>0, <2>2, <2>3 DEF OwnFrames
<1>2. ASSUME NEW f \in Feeds, TaskRecv(f) PROVE OwnFrames'
  <2> DEFINE s == feedq[f]
  <2>1. s \in Seq(Frames) /\ s # <<>> /\ \A m \in DOMAIN s : s[m].feed = f
    BY <1>0, <1>2 DEF OwnFrames, TaskRecv
  <2>2. feedq' = [feedq EXCEPT ![f] = Tail(s)] /\ hand' = [hand EXCEPT ![f] = Head(s)]
    BY <1>2 DEF TaskRecv
  <2> HIDE DEF s
  <2>3. Head(s).feed = f
    BY <2>1, Tailed
  <2>4. \A m \in DOMAIN Tail(s) : Tail(s)[m].feed = f
    BY <2>1, Tailed
  <2> QED BY <1>0, <2>2, <2>3, <2>4 DEF OwnFrames
<1>3. ASSUME NEW f \in Feeds, TaskForwards(f) \/ TaskEnds(f) PROVE OwnFrames'
  <2>1. DOMAIN <<>> = {}
    OBVIOUS
  <2>2. \A g \in Feeds : hand'[g] # NoFrame => hand'[g] = hand[g]
    BY <1>0, <1>3 DEF TaskForwards, TaskEnds
  <2>3. \A g \in Feeds : feedq'[g] = feedq[g] \/ feedq'[g] = <<>>
    BY <1>0, <1>3 DEF TaskForwards, TaskEnds
  <2> QED BY <2>1, <2>2, <2>3 DEF OwnFrames
<1>4. CASE RouterReturns
  BY <1>0, <1>4 DEF OwnFrames, RouterReturns
<1>5. ASSUME UNCHANGED <<feedq, hand>> PROVE OwnFrames'
  BY <1>5 DEF OwnFrames
<1>6. ASSUME NEW k \in Keys, NEW f \in Feeds, AddSource(k, f) PROVE UNCHANGED <<feedq, hand>>
  BY <1>6 DEF AddSource
<1>7. ASSUME NEW k \in Keys, RemoveSource(k) PROVE UNCHANGED <<feedq, hand>>
  BY <1>7 DEF RemoveSource
<1>8. ASSUME NEW f \in Feeds, DropSource(f) PROVE UNCHANGED <<feedq, hand>>
  BY <1>8 DEF DropSource
<1>9. CASE SignalShutdown \/ ReleaseSources
  BY <1>5, <1>9 DEF SignalShutdown, ReleaseSources
<1>10. CASE RouterAdds \/ RouterRemoves \/ RouterTakes \/ RouterSends \/ RouterStops
  BY <1>5, <1>10 DEF RouterAdds, RouterRemoves, RouterTakes, RouterSends, RouterStops
<1>11. CASE FanInStep \/ ProcessorStep \/ ArchiveStep
  BY <1>5, <1>11 DEF FanInStep, FanInTakes, FanInSends, FanInEnds, ProcessorStep, Processes, ProcessorEnds,
                     ArchiveStep, ArchiveReads, ArchiveEnds
<1>12. CASE UNCHANGED vars
  BY <1>5, <1>12 DEF vars
<1> QED BY <1>1, <1>2, <1>3, <1>4, <1>5, <1>6, <1>7, <1>8, <1>9, <1>10, <1>11, <1>12
        DEF Next, ClientStep, TaskStep, RouterStep

LEMMA LanesNext == TypeOK /\ EndsInOrder /\ Lanes /\ [Next]_vars => Lanes'
<1> SUFFICES ASSUME TypeOK, EndsInOrder, Lanes, [Next]_vars PROVE Lanes'
  OBVIOUS
<1> USE DEF registryVars, feedVars, routerVars, mergeVars, tailVars
<1>1. CASE RouterSends
  <2>1. routing \in Frames /\ emergency \in Seq(Frames) /\ routine \in Seq(Frames)
    BY <1>1 DEF RouterSends, EndsInOrder, TypeOK
  <2>2. CASE routing.emergency
    <3>1. emergency' = Append(emergency, routing) /\ routine' = routine
      BY <1>1, <2>2 DEF RouterSends
    <3>2. \A m \in DOMAIN emergency' : emergency'[m].emergency
      BY <2>1, <2>2, <3>1, Appended DEF Lanes
    <3> QED BY <3>1, <3>2 DEF Lanes
  <2>3. CASE ~routing.emergency
    <3>1. routine' = Append(routine, routing) /\ emergency' = emergency
      BY <1>1, <2>3 DEF RouterSends
    <3>2. \A m \in DOMAIN routine' : ~routine'[m].emergency
      BY <2>1, <2>3, <3>1, Appended DEF Lanes
    <3> QED BY <3>1, <3>2 DEF Lanes
  <2> QED BY <2>2, <2>3
<1>2. CASE FanInTakes
  <2>1. emergency \in Seq(Frames) /\ routine \in Seq(Frames)
    BY DEF TypeOK
  <2>2. emergency # <<>> => \A m \in DOMAIN Tail(emergency) : Tail(emergency)[m].emergency
    BY <2>1, Tailed DEF Lanes
  <2>3. routine # <<>> => \A m \in DOMAIN Tail(routine) : ~Tail(routine)[m].emergency
    BY <2>1, Tailed DEF Lanes
  <2> QED BY <1>2, <2>2, <2>3 DEF FanInTakes, Lanes
<1>3. ASSUME UNCHANGED <<emergency, routine>> PROVE Lanes'
  BY <1>3 DEF Lanes
<1>4. CASE ClientStep
  BY <1>3, <1>4 DEF ClientStep, AddSource, RemoveSource, Feeding, DropSource, SignalShutdown, ReleaseSources
<1>5. ASSUME NEW f \in Feeds, TaskStep(f) PROVE Lanes'
  BY <1>3, <1>5 DEF TaskStep, TaskRecv, TaskForwards, TaskEnds
<1>6. CASE RouterAdds \/ RouterRemoves \/ RouterTakes \/ RouterStops \/ RouterReturns
  BY <1>3, <1>6 DEF RouterAdds, RouterRemoves, RouterTakes, RouterStops, RouterReturns
<1>7. CASE FanInSends \/ FanInEnds \/ ProcessorStep \/ ArchiveStep
  BY <1>3, <1>7 DEF FanInSends, FanInEnds, ProcessorStep, Processes, ProcessorEnds, ArchiveStep, ArchiveReads,
                    ArchiveEnds
<1>8. CASE UNCHANGED vars
  BY <1>3, <1>8 DEF vars
<1> QED BY <1>1, <1>2, <1>4, <1>5, <1>6, <1>7, <1>8 DEF Next, RouterStep, FanInStep

LEMMA BaseNext == Base /\ [Next]_vars => Base'
  BY TypeNext, EndsNext, OwnNext, LanesNext DEF Base

-----------------------------------------------------------------------------
(* The frames on their way *)

(* No number is greater than that of the last frame the feed accepted. *)
Numbered == \A f \in Feeds, u \in BOOLEAN : \A n \in Carried(Stages(f, u), f, u) : n <= sent[f]

Flow == KeepsOrder /\ Numbered /\ NothingLost

Typed == \A f \in Feeds, u \in BOOLEAN : StagesOK(Stages(f, u))

LEMMA StagesTyped == TypeOK => Typed
<1> SUFFICES ASSUME TypeOK, NEW f \in Feeds, NEW u \in BOOLEAN PROVE StagesOK(Stages(f, u))
  BY DEF Typed
<1>1. One(merging) \in Seq(Frames) /\ One(routing) \in Seq(Frames) /\ One(hand[f]) \in Seq(Frames)
  <2>1. \A x \in Frames \union {NoFrame} : One(x) \in Seq(Frames)
    BY DEF One
  <2> QED BY <2>1 DEF TypeOK
<1>2. /\ processed \in Seq(Frames) /\ process \in Seq(Frames) /\ emergency \in Seq(Frames)
      /\ routine \in Seq(Frames) /\ internal \in Seq(Frames) /\ feedq[f] \in Seq(Frames)
  BY DEF TypeOK
<1> QED BY <1>1, <1>2 DEF Stages, StagesOK

(* A step that changes no number and keeps the frames of every source and
   priority, in their order, keeps all of it. *)
Kept == \A f \in Feeds, u \in BOOLEAN :
  /\ InOrder(Stages(f, u)', f, u)
  /\ Carried(Stages(f, u)', f, u) = Carried(Stages(f, u), f, u)

LEMMA KeptFlow ==
  Flow /\ Kept /\ sent' = sent /\ cancelled \subseteq cancelled'
       /\ (router' \in {"select", "send"} => router \in {"select", "send"}) => Flow'
<1> SUFFICES ASSUME Flow, Kept, sent' = sent, cancelled \subseteq cancelled',
                    router' \in {"select", "send"} => router \in {"select", "send"}
             PROVE  Flow'
  OBVIOUS
<1>1. KeepsOrder'
  BY DEF Kept, KeepsOrder
<1>2. Numbered'
  BY DEF Kept, Numbered, Flow
<1>3. NothingLost'
  BY DEF Kept, NothingLost, Flow
<1> QED BY <1>1, <1>2, <1>3 DEF Flow

LEMMA StillKept ==
  KeepsOrder /\ UNCHANGED <<processed, process, merging, emergency, routine, routing, internal, hand, feedq>>
    => Kept
  BY DEF KeepsOrder, Kept, Stages

LEMMA Before ==
  Base /\ Base' /\ KeepsOrder => \A f \in Feeds, u \in BOOLEAN :
    StagesOK(Stages(f, u)) /\ StagesOK(Stages(f, u)') /\ InOrder(Stages(f, u), f, u)
<1> SUFFICES ASSUME Base, Base', KeepsOrder
             PROVE  \A f \in Feeds, u \in BOOLEAN :
                      StagesOK(Stages(f, u)) /\ StagesOK(Stages(f, u)') /\ InOrder(Stages(f, u), f, u)
  OBVIOUS
<1>1. TypeOK /\ TypeOK'
  BY DEF Base
<1>2. Typed
  BY <1>1, StagesTyped
<1>3. Typed'
  BY <1>1, StagesTyped, PTL
<1>4. \A f \in Feeds, u \in BOOLEAN : StagesOK(Stages(f, u)')
  BY <1>3 DEF Typed
<1> QED BY <1>2, <1>4 DEF Typed, KeepsOrder

LEMMA TaskRecvKept == ASSUME NEW g \in Feeds PROVE Base /\ Base' /\ KeepsOrder /\ TaskRecv(g) => Kept
<1> SUFFICES ASSUME Base, Base', KeepsOrder, TaskRecv(g), NEW f \in Feeds, NEW u \in BOOLEAN
             PROVE  /\ InOrder(Stages(f, u)', f, u)
                    /\ Carried(Stages(f, u)', f, u) = Carried(Stages(f, u), f, u)
  BY DEF Kept
<1> DEFINE st == Stages(f, u)
           st2 == Stages(f, u)'
<1> USE DEF registryVars, feedVars, routerVars, mergeVars, tailVars
<1>1. StagesOK(st) /\ StagesOK(st2) /\ InOrder(st, f, u)
  BY Before
<1>2. CASE f = g
  <2>1. feedq[f] \in Seq(Frames) /\ feedq[f] # <<>> /\ hand[f] = NoFrame
        /\ hand' = [hand EXCEPT ![f] = Head(feedq[f])] /\ feedq' = [feedq EXCEPT ![f] = Tail(@)]
    BY <1>2 DEF TaskRecv, Base, TypeOK
  <2>2. Head(feedq[f]) \in Frames
    BY <2>1, Shortened
  <2>3. hand'[f] = Head(feedq[f]) /\ feedq'[f] = Tail(feedq[f])
    BY <2>1 DEF Base, TypeOK
  <2>4. st[7] = <<>> /\ st[8] = feedq[f] /\ st2[8] = Tail(feedq[f]) /\ st2[7] = Append(<<>>, Head(feedq[f]))
    <3>1. One(hand[f]) = <<>> /\ One(hand[f])' = Append(<<>>, Head(feedq[f]))
      BY <2>1, <2>2, <2>3, OneIsSeq DEF One
    <3> QED BY <2>3, <3>1 DEF Stages
  <2>5. \A i \in 1 .. 8 : i # 7 /\ i # 8 => st2[i] = st[i]
    BY DEF Stages, TaskRecv
  <2> HIDE DEF st, st2
  <2>6. st[7 + 1] # <<>> /\ st2[7] = Append(st[7], Head(st[7 + 1])) /\ st2[7 + 1] = Tail(st[7 + 1])
    BY <2>1, <2>4
  <2>7. \A i \in 1 .. 8 : i # 7 /\ i # 7 + 1 => st2[i] = st[i]
    BY <2>5
  <2>8. InOrder(st2, f, u) /\ Carried(st2, f, u) = Carried(st, f, u)
    BY <1>1, <2>6, <2>7, Moved
  <2> QED BY <2>8 DEF st, st2
<1>3. CASE f # g
  <2>1. hand'[f] = hand[f] /\ feedq'[f] = feedq[f]
    BY <1>3 DEF TaskRecv, Base, TypeOK
  <2>2. st2 = st
    BY <2>1 DEF Stages, TaskRecv, One
  <2> QED BY <1>1, <2>2
<1> QED BY <1>2, <1>3

LEMMA TaskForwardsKept == ASSUME NEW g \in Feeds PROVE Base /\ Base' /\ KeepsOrder /\ TaskForwards(g) => Kept
<1> SUFFICES ASSUME Base, Base', KeepsOrder, TaskForwards(g), NEW f \in Feeds, NEW u \in BOOLEAN
             PROVE  /\ InOrder(Stages(f, u)', f, u)
                    /\ Carried(Stages(f, u)', f, u) = Carried(Stages(f, u), f, u)
  BY DEF Kept
<1> DEFINE st == Stages(f, u)
           st2 == Stages(f, u)'
<1> USE DEF registryVars, feedVars, routerVars, mergeVars, tailVars
<1>1. StagesOK(st) /\ StagesOK(st2) /\ InOrder(st, f, u)
  BY Before
<1>2. /\ internal \in Seq(Frames) /\ hand[g] \in Frames /\ hand[g].feed = g
      /\ internal' = Append(internal, hand[g]) /\ hand' = [hand EXCEPT ![g] = NoFrame]
      /\ hand \in [Feeds -> Frames \union {NoFrame}]
  BY DEF TaskForwards, Base, TypeOK, OwnFrames
<1>3. CASE f = g
  <2>1. st[6] = internal /\ st[7] = One(hand[f]) /\ st2[6] = Append(internal, hand[f]) /\ st2[7] = <<>>
    BY <1>2, <1>3 DEF Stages, One
  <2>2. \A i \in 1 .. 8 : i # 6 /\ i # 7 => st2[i] = st[i]
    BY DEF Stages, TaskForwards
  <2>3. One(hand[f]) # <<>> /\ Head(One(hand[f])) = hand[f] /\ Tail(One(hand[f])) = <<>>
    BY <1>2, <1>3, OneIsSeq
  <2> HIDE DEF st, st2
  <2>4a. st[7] # <<>> /\ st2[6] = Append(st[6], Head(st[7])) /\ st2[7] = Tail(st[7])
    BY <2>1, <2>3
  <2>4. st[6 + 1] # <<>> /\ st2[6] = Append(st[6], Head(st[6 + 1])) /\ st2[6 + 1] = Tail(st[6 + 1])
    BY <2>4a
  <2>5. \A i \in 1 .. 8 : i # 6 /\ i # 6 + 1 => st2[i] = st[i]
    BY <2>2
  <2>6. InOrder(st2, f, u) /\ Carried(st2, f, u) = Carried(st, f, u)
    BY <1>1, <2>4, <2>5, Moved
  <2> QED BY <2>6 DEF st, st2
<1>4. CASE f # g
  <2>1. hand'[f] = hand[f]
    BY <1>2, <1>4
  <2>2. st[6] = internal /\ st2[6] = Append(internal, hand[g])
    BY <1>2 DEF Stages
  <2>3. \A i \in 1 .. 8 : i # 6 => st2[i] = st[i]
    BY <2>1 DEF Stages, TaskForwards, One
  <2>4. ~Of(hand[g], f, u)
    BY <1>2, <1>4 DEF Of
  <2> DEFINE x == hand[g]
  <2>5. x \in Frames /\ st2[6] = Append(st[6], x) /\ ~Of(x, f, u)
    BY <1>2, <2>2, <2>4
  <2> HIDE DEF st, st2, x
  <2>6. InOrder(st2, f, u) /\ Carried(st2, f, u) = Carried(st, f, u)
    BY <1>1, <2>3, <2>5, Inserted
  <2> QED BY <2>6 DEF st, st2
<1> QED BY <1>3, <1>4

LEMMA RouterTakesKept == Base /\ Base' /\ KeepsOrder /\ RouterTakes => Kept
<1> SUFFICES ASSUME Base, Base', KeepsOrder, RouterTakes, NEW f \in Feeds, NEW u \in BOOLEAN
             PROVE  /\ InOrder(Stages(f, u)', f, u)
                    /\ Carried(Stages(f, u)', f, u) = Carried(Stages(f, u), f, u)
  BY DEF Kept
<1> DEFINE st == Stages(f, u)
           st2 == Stages(f, u)'
<1> USE DEF registryVars, feedVars, routerVars, mergeVars, tailVars
<1>1. StagesOK(st) /\ StagesOK(st2) /\ InOrder(st, f, u)
  BY Before
<1>2. /\ internal \in Seq(Frames) /\ internal # <<>> /\ routing = NoFrame
      /\ internal' = Tail(internal) /\ routing' = Head(internal)
  BY DEF RouterTakes, Base, TypeOK, EndsInOrder
<1>3. Head(internal) \in Frames
  BY <1>2, Shortened
<1>4. One(routing) = <<>> /\ One(routing)' = Append(<<>>, Head(internal))
  BY <1>2, <1>3, OneIsSeq DEF One
<1>5. st[5] = <<>> /\ st[6] = internal /\ st2[5] = Append(<<>>, Head(internal)) /\ st2[6] = Tail(internal)
  BY <1>2, <1>4 DEF Stages
<1>6. \A i \in 1 .. 8 : i # 5 /\ i # 6 => st2[i] = st[i]
  BY DEF Stages, RouterTakes
<1> HIDE DEF st, st2
<1>7a. st[6] # <<>> /\ st2[5] = Append(st[5], Head(st[6])) /\ st2[6] = Tail(st[6])
  BY <1>2, <1>5
<1>7. st[5 + 1] # <<>> /\ st2[5] = Append(st[5], Head(st[5 + 1])) /\ st2[5 + 1] = Tail(st[5 + 1])
  BY <1>7a
<1>8. \A i \in 1 .. 8 : i # 5 /\ i # 5 + 1 => st2[i] = st[i]
  BY <1>6
<1>9. InOrder(st2, f, u) /\ Carried(st2, f, u) = Carried(st, f, u)
  BY <1>1, <1>7, <1>8, Moved
<1> QED BY <1>9 DEF st, st2

LEMMA RouterSendsKept == Base /\ Base' /\ KeepsOrder /\ RouterSends => Kept
<1> SUFFICES ASSUME Base, Base', KeepsOrder, RouterSends, NEW f \in Feeds, NEW u \in BOOLEAN
             PROVE  /\ InOrder(Stages(f, u)', f, u)
                    /\ Carried(Stages(f, u)', f, u) = Carried(Stages(f, u), f, u)
  BY DEF Kept
<1> DEFINE st == Stages(f, u)
           st2 == Stages(f, u)'
<1> USE DEF registryVars, feedVars, routerVars, mergeVars, tailVars
<1>1. StagesOK(st) /\ StagesOK(st2) /\ InOrder(st, f, u)
  BY Before
<1>2. /\ routing \in Frames /\ routing' = NoFrame
      /\ routing.emergency => emergency' = Append(emergency, routing) /\ routine' = routine
      /\ ~routing.emergency => routine' = Append(routine, routing) /\ emergency' = emergency
  BY DEF RouterSends, Base, TypeOK, EndsInOrder
<1>3. One(routing) # <<>> /\ Head(One(routing)) = routing /\ Tail(One(routing)) = <<>> /\ One(routing)' = <<>>
      /\ One(routing) = <<routing>>
  BY <1>2, OneIsSeq DEF One
<1>4. st[5] = One(routing) /\ st2[5] = <<>>
  BY <1>3 DEF Stages
<1>5. \A i \in 1 .. 8 : i # 4 /\ i # 5 => st2[i] = st[i]
  BY DEF Stages, RouterSends
<1>6. routing.emergency \in BOOLEAN
  BY <1>2 DEF Frames
<1>7. CASE routing.emergency = u
  <2>1. st2[4] = Append(st[4], routing)
    BY <1>2, <1>6, <1>7 DEF Stages
  <2> HIDE DEF st, st2
  <2>2a. st[5] # <<>> /\ st2[4] = Append(st[4], Head(st[5])) /\ st2[5] = Tail(st[5])
    BY <1>3, <1>4, <2>1
  <2>2. st[4 + 1] # <<>> /\ st2[4] = Append(st[4], Head(st[4 + 1])) /\ st2[4 + 1] = Tail(st[4 + 1])
    BY <2>2a
  <2>3. \A i \in 1 .. 8 : i # 4 /\ i # 4 + 1 => st2[i] = st[i]
    BY <1>5
  <2>4. InOrder(st2, f, u) /\ Carried(st2, f, u) = Carried(st, f, u)
    BY <1>1, <2>2, <2>3, Moved
  <2> QED BY <2>4 DEF st, st2
<1>8. CASE routing.emergency # u
  <2>1. st2[4] = st[4]
    BY <1>2, <1>6, <1>8 DEF Stages
  <2>2. ~Of(routing, f, u)
    BY <1>8 DEF Of
  <2> HIDE DEF st, st2
  <2>3. \A m \in DOMAIN st[5] : ~Of(st[5][m], f, u)
    BY <1>3, <1>4, <2>2
  <2>4. \A i \in 1 .. 8 : i # 5 => st2[i] = st[i]
    BY <1>5, <2>1
  <2>5. DOMAIN st2[5] = {}
    BY <1>4
  <2>6. SamePlaces(st, st2, f, u)
    BY <2>4, <2>5 DEF SamePlaces
  <2>7. SamePlaces(st2, st, f, u)
    BY <2>3, <2>4 DEF SamePlaces
  <2>8. InOrder(st2, f, u) /\ Carried(st2, f, u) \subseteq Carried(st, f, u)
    BY <1>1, <2>6, Thinned
  <2>9. Carried(st, f, u) \subseteq Carried(st2, f, u)
    BY <1>1, <2>7, Thinned
  <2> QED BY <2>8, <2>9 DEF st, st2
<1> QED BY <1>7, <1>8

LEMMA FanInTakesKept == Base /\ Base' /\ KeepsOrder /\ FanInTakes => Kept
<1> SUFFICES ASSUME Base, Base', KeepsOrder, FanInTakes, NEW f \in Feeds, NEW u \in BOOLEAN
             PROVE  /\ InOrder(Stages(f, u)', f, u)
                    /\ Carried(Stages(f, u)', f, u) = Carried(Stages(f, u), f, u)
  BY DEF Kept
<1> DEFINE st == Stages(f, u)
           st2 == Stages(f, u)'
<1> USE DEF registryVars, feedVars, routerVars, mergeVars, tailVars
<1>1. StagesOK(st) /\ StagesOK(st2) /\ InOrder(st, f, u)
  BY Before
<1>2. /\ emergency \in Seq(Frames) /\ routine \in Seq(Frames) /\ merging = NoFrame
      /\ \A m \in DOMAIN emergency : emergency[m].emergency
      /\ \A m \in DOMAIN routine : ~routine[m].emergency
  BY DEF FanInTakes, Base, TypeOK, EndsInOrder, Lanes
<1>3. PICK urgent \in BOOLEAN :
        /\ urgent => emergency # <<>> /\ merging' = Head(emergency) /\ emergency' = Tail(emergency)
                     /\ routine' = routine
        /\ ~urgent => routine # <<>> /\ merging' = Head(routine) /\ routine' = Tail(routine)
                      /\ emergency' = emergency
  <2>1. CASE emergency # <<>> /\ merging' = Head(emergency) /\ emergency' = Tail(emergency) /\ routine' = routine
    BY <2>1
  <2>2. CASE routine # <<>> /\ merging' = Head(routine) /\ routine' = Tail(routine) /\ emergency' = emergency
    BY <2>2
  <2> QED BY <2>1, <2>2 DEF FanInTakes
<1>4. merging' \in Frames /\ merging'.emergency = urgent
  <2>1. urgent => Head(emergency) \in Frames /\ Head(emergency).emergency
    BY <1>2, <1>3, Tailed
  <2>2. ~urgent => Head(routine) \in Frames /\ ~Head(routine).emergency
    BY <1>2, <1>3, Tailed
  <2> QED BY <1>3, <2>1, <2>2 DEF Frames
<1>5. One(merging) = <<>> /\ One(merging)' = Append(<<>>, merging')
  BY <1>2, <1>4, OneIsSeq DEF One
<1>6. st[3] = <<>> /\ st2[3] = Append(<<>>, merging')
  BY <1>5 DEF Stages
<1>7. \A i \in 1 .. 8 : i # 3 /\ i # 4 => st2[i] = st[i]
  BY DEF Stages, FanInTakes
<1>8. CASE urgent = u
  <2>1. st[4] # <<>> /\ merging' = Head(st[4]) /\ st2[4] = Tail(st[4])
    BY <1>3, <1>8 DEF Stages
  <2> HIDE DEF st, st2
  <2>2a. st[4] # <<>> /\ st2[3] = Append(st[3], Head(st[4])) /\ st2[4] = Tail(st[4])
    BY <1>6, <2>1
  <2>2. st[3 + 1] # <<>> /\ st2[3] = Append(st[3], Head(st[3 + 1])) /\ st2[3 + 1] = Tail(st[3 + 1])
    BY <2>2a
  <2>3. \A i \in 1 .. 8 : i # 3 /\ i # 3 + 1 => st2[i] = st[i]
    BY <1>7
  <2>4. InOrder(st2, f, u) /\ Carried(st2, f, u) = Carried(st, f, u)
    BY <1>1, <2>2, <2>3, Moved
  <2> QED BY <2>4 DEF st, st2
<1>9. CASE urgent # u
  <2>1. st2[4] = st[4]
    BY <1>3, <1>9 DEF Stages
  <2>2. ~Of(merging', f, u)
    BY <1>4, <1>9 DEF Of
  <2> DEFINE x == merging'
  <2>3. x \in Frames /\ st2[3] = Append(st[3], x) /\ ~Of(x, f, u)
    BY <1>4, <1>6, <2>2
  <2> HIDE DEF st, st2, x
  <2>4. \A i \in 1 .. 8 : i # 3 => st2[i] = st[i]
    BY <1>7, <2>1
  <2>5. InOrder(st2, f, u) /\ Carried(st2, f, u) = Carried(st, f, u)
    BY <1>1, <2>3, <2>4, Inserted
  <2> QED BY <2>5 DEF st, st2
<1> QED BY <1>8, <1>9

LEMMA FanInSendsKept == Base /\ Base' /\ KeepsOrder /\ FanInSends => Kept
<1> SUFFICES ASSUME Base, Base', KeepsOrder, FanInSends, NEW f \in Feeds, NEW u \in BOOLEAN
             PROVE  /\ InOrder(Stages(f, u)', f, u)
                    /\ Carried(Stages(f, u)', f, u) = Carried(Stages(f, u), f, u)
  BY DEF Kept
<1> DEFINE st == Stages(f, u)
           st2 == Stages(f, u)'
<1> USE DEF registryVars, feedVars, routerVars, mergeVars, tailVars
<1>1. StagesOK(st) /\ StagesOK(st2) /\ InOrder(st, f, u)
  BY Before
<1>2. merging \in Frames /\ merging' = NoFrame /\ process' = Append(process, merging)
  BY DEF FanInSends, Base, TypeOK, EndsInOrder
<1>3. One(merging) # <<>> /\ Head(One(merging)) = merging /\ Tail(One(merging)) = <<>> /\ One(merging)' = <<>>
  BY <1>2, OneIsSeq DEF One
<1>4. st[2] = process /\ st[3] = One(merging) /\ st2[2] = Append(process, merging) /\ st2[3] = <<>>
  BY <1>2, <1>3 DEF Stages
<1>5. \A i \in 1 .. 8 : i # 2 /\ i # 3 => st2[i] = st[i]
  BY DEF Stages, FanInSends
<1> HIDE DEF st, st2
<1>6a. st[3] # <<>> /\ st2[2] = Append(st[2], Head(st[3])) /\ st2[3] = Tail(st[3])
  BY <1>3, <1>4
<1>6. st[2 + 1] # <<>> /\ st2[2] = Append(st[2], Head(st[2 + 1])) /\ st2[2 + 1] = Tail(st[2 + 1])
  BY <1>6a
<1>7. \A i \in 1 .. 8 : i # 2 /\ i # 2 + 1 => st2[i] = st[i]
  BY <1>5
<1>8. InOrder(st2, f, u) /\ Carried(st2, f, u) = Carried(st, f, u)
  BY <1>1, <1>6, <1>7, Moved
<1> QED BY <1>8 DEF st, st2

LEMMA ProcessesKept == Base /\ Base' /\ KeepsOrder /\ Processes => Kept
<1> SUFFICES ASSUME Base, Base', KeepsOrder, Processes, NEW f \in Feeds, NEW u \in BOOLEAN
             PROVE  /\ InOrder(Stages(f, u)', f, u)
                    /\ Carried(Stages(f, u)', f, u) = Carried(Stages(f, u), f, u)
  BY DEF Kept
<1> DEFINE st == Stages(f, u)
           st2 == Stages(f, u)'
<1> USE DEF registryVars, feedVars, routerVars, mergeVars, tailVars
<1>1. StagesOK(st) /\ StagesOK(st2) /\ InOrder(st, f, u)
  BY Before
<1>2. process # <<>> /\ process' = Tail(process) /\ processed' = Append(processed, Head(process))
  BY DEF Processes
<1>3. /\ st[1] = processed /\ st[2] = process
      /\ st2[1] = Append(processed, Head(process)) /\ st2[2] = Tail(process)
  BY <1>2 DEF Stages
<1>4. \A i \in 1 .. 8 : i # 1 /\ i # 2 => st2[i] = st[i]
  BY DEF Stages, Processes
<1> HIDE DEF st, st2
<1>5a. st[2] # <<>> /\ st2[1] = Append(st[1], Head(st[2])) /\ st2[2] = Tail(st[2])
  BY <1>2, <1>3
<1>5. st[1 + 1] # <<>> /\ st2[1] = Append(st[1], Head(st[1 + 1])) /\ st2[1 + 1] = Tail(st[1 + 1])
  BY <1>5a
<1>6. \A i \in 1 .. 8 : i # 1 /\ i # 1 + 1 => st2[i] = st[i]
  BY <1>4
<1>7. InOrder(st2, f, u) /\ Carried(st2, f, u) = Carried(st, f, u)
  BY <1>1, <1>5, <1>6, Moved
<1> QED BY <1>7 DEF st, st2

(* A step that only gives frames up keeps the order of the others. *)
LEMMA LostFlow ==
  ASSUME Base, Base', Flow, sent' = sent,
         \A f \in Feeds, u \in BOOLEAN : SamePlaces(Stages(f, u), Stages(f, u)', f, u)
  PROVE  KeepsOrder' /\ Numbered'
<1>1. ASSUME NEW f \in Feeds, NEW u \in BOOLEAN
      PROVE  /\ InOrder(Stages(f, u)', f, u)
             /\ Carried(Stages(f, u)', f, u) \subseteq Carried(Stages(f, u), f, u)
  <2> DEFINE st == Stages(f, u)
             st2 == Stages(f, u)'
  <2>1. StagesOK(st) /\ StagesOK(st2) /\ InOrder(st, f, u) /\ SamePlaces(st, st2, f, u)
    BY Before DEF Flow
  <2> HIDE DEF st, st2
  <2>2. InOrder(st2, f, u) /\ Carried(st2, f, u) \subseteq Carried(st, f, u)
    BY <2>1, Thinned
  <2> QED BY <2>2 DEF st, st2
<1>2. KeepsOrder'
  BY <1>1 DEF KeepsOrder
<1>3. Numbered'
  BY <1>1 DEF Numbered, Flow
<1> QED BY <1>2, <1>3

LEMMA TaskEndsFlow == ASSUME NEW g \in Feeds PROVE Base /\ Base' /\ Flow /\ TaskEnds(g) => Flow'
<1> SUFFICES ASSUME Base, Base', Flow, TaskEnds(g) PROVE Flow'
  OBVIOUS
<1> USE DEF registryVars, feedVars, routerVars, mergeVars, tailVars
<1>1. /\ \A f \in Feeds : f # g => hand'[f] = hand[f] /\ feedq'[f] = feedq[f]
      /\ hand'[g] = NoFrame /\ feedq'[g] = <<>>
  BY DEF TaskEnds, Base, TypeOK
<1>2. ASSUME NEW f \in Feeds, NEW u \in BOOLEAN PROVE \A i \in 1 .. 6 : Stages(f, u)'[i] = Stages(f, u)[i]
  BY DEF Stages, TaskEnds
<1>3. ASSUME NEW f \in Feeds, NEW u \in BOOLEAN, f # g PROVE Stages(f, u)' = Stages(f, u)
  BY <1>1, <1>3 DEF Stages, TaskEnds, One
<1>4. ASSUME NEW f \in Feeds, NEW u \in BOOLEAN PROVE SamePlaces(Stages(f, u), Stages(f, u)', f, u)
  <2>1. CASE f # g
    BY <1>3, <2>1 DEF SamePlaces
  <2>2. CASE f = g
    <3> DEFINE st == Stages(f, u)
               st2 == Stages(f, u)'
    <3>1. st2[7] = <<>> /\ st2[8] = <<>>
      BY <1>1, <2>2 DEF Stages, One
    <3>2. \A i \in 1 .. 6 : st2[i] = st[i]
      BY <1>2
    <3> HIDE DEF st, st2
    <3>3. DOMAIN st2[7] = {} /\ DOMAIN st2[8] = {}
      BY <3>1
    <3>4. SamePlaces(st, st2, f, u)
      BY <3>2, <3>3 DEF SamePlaces
    <3> QED BY <3>4 DEF st, st2
  <2> QED BY <2>1, <2>2
<1>5. KeepsOrder' /\ Numbered'
  <2>1. sent' = sent
    BY DEF TaskEnds
  <2> QED BY <1>4, <2>1, LostFlow
<1>6. NothingLost'
  <2> SUFFICES ASSUME NEW f \in Feeds, f \notin cancelled', router' \in {"select", "send"}
               PROVE  1 .. sent'[f] \subseteq Carried(Stages(f, TRUE)', f, TRUE)
                                                \union Carried(Stages(f, FALSE)', f, FALSE)
    BY DEF NothingLost
  <2>1. f \notin cancelled /\ router \in {"select", "send"} /\ sent' = sent
    BY DEF TaskEnds
  <2>2. Stages(f, TRUE)' = Stages(f, TRUE) /\ Stages(f, FALSE)' = Stages(f, FALSE)
    <3>1. CASE f # g
      BY <1>3, <3>1
    <3>2. CASE f = g
      <4>1. hand[f] = NoFrame /\ feedq[f] = <<>>
        BY <2>1, <3>2 DEF TaskEnds
      <4> QED BY <1>1, <3>2, <4>1 DEF Stages, TaskEnds, One
    <3> QED BY <3>1, <3>2
  <2> QED BY <2>1, <2>2 DEF NothingLost, Flow
<1> QED BY <1>5, <1>6 DEF Flow

LEMMA RouterReturnsFlow == Base /\ Base' /\ Flow /\ RouterReturns => Flow'
<1> SUFFICES ASSUME Base, Base', Flow, RouterReturns PROVE Flow'
  OBVIOUS
<1> USE DEF registryVars, feedVars, routerVars, mergeVars, tailVars
<1>1. ASSUME NEW f \in Feeds, NEW u \in BOOLEAN PROVE SamePlaces(Stages(f, u), Stages(f, u)', f, u)
  <2> DEFINE st == Stages(f, u)
             st2 == Stages(f, u)'
  <2>1. st2[6] = <<>> /\ st2[8] \in {<<>>, st[8]}
    BY DEF Stages, RouterReturns
  <2>2. \A i \in 1 .. 8 : i # 6 /\ i # 8 => st2[i] = st[i]
    BY DEF Stages, RouterReturns, One
  <2> HIDE DEF st, st2
  <2>3. DOMAIN <<>> = {}
    OBVIOUS
  <2>4. SamePlaces(st, st2, f, u)
    BY <2>1, <2>2, <2>3 DEF SamePlaces
  <2> QED BY <2>4 DEF st, st2
<1>2. KeepsOrder' /\ Numbered'
  <2>1. sent' = sent
    BY DEF RouterReturns
  <2> QED BY <1>1, <2>1, LostFlow
<1>3. NothingLost'
  BY DEF RouterReturns, NothingLost
<1> QED BY <1>2, <1>3 DEF Flow

LEMMA FeedingFlow ==
  ASSUME NEW g \in Feeds, NEW v \in BOOLEAN PROVE Base /\ Base' /\ Flow /\ Feeding(g, v) => Flow'
<1> SUFFICES ASSUME Base, Base', Flow, Feeding(g, v) PROVE Flow'
  OBVIOUS
<1> USE DEF registryVars, feedVars, routerVars, mergeVars, tailVars
<1> DEFINE x == [feed |-> g, seq |-> sent[g] + 1, emergency |-> v]
<1>1. /\ sent \in [Feeds -> Nat] /\ feedq \in [Feeds -> Seq(Frames)]
      /\ sent' = [sent EXCEPT ![g] = @ + 1] /\ feedq' = [feedq EXCEPT ![g] = Append(@, x)]
  BY DEF Feeding, Base, TypeOK
<1>2. x \in Frames /\ x.feed = g /\ x.seq = sent[g] + 1 /\ x.emergency = v
  BY <1>1 DEF Frames
<1>3. feedq'[g] = Append(feedq[g], x) /\ \A f \in Feeds : f # g => feedq'[f] = feedq[f]
  BY <1>1
<1>4. sent'[g] = sent[g] + 1 /\ \A f \in Feeds : sent[f] \in Nat /\ (f # g => sent'[f] = sent[f])
  BY <1>1
<1> HIDE DEF x
<1>5. ASSUME NEW f \in Feeds, NEW u \in BOOLEAN
      PROVE  /\ InOrder(Stages(f, u)', f, u)
             /\ Carried(Stages(f, u)', f, u) =
                  Carried(Stages(f, u), f, u) \union (IF f = g /\ u = v THEN {sent[f] + 1} ELSE {})
  <2> DEFINE st == Stages(f, u)
             st2 == Stages(f, u)'
  <2>1. StagesOK(st) /\ StagesOK(st2) /\ InOrder(st, f, u)
    BY Before DEF Flow
  <2>2. \A i \in 1 .. 7 : st2[i] = st[i]
    BY DEF Stages, Feeding, One
  <2>3. CASE f # g
    <3>1. st2 = st
      BY <1>3, <2>3 DEF Stages, Feeding, One
    <3> QED BY <2>1, <2>3, <3>1
  <2>4. CASE f = g
    <3>1. st2[8] = Append(st[8], x)
      BY <1>3, <2>4 DEF Stages
    <3>2. \A n \in Carried(st, f, u) : n < x.seq
      <4>1. \A n \in Carried(st, f, u) : n <= sent[f]
        BY DEF Flow, Numbered
      <4>2. \A n \in Carried(st, f, u) : n \in Nat
        <5> SUFFICES ASSUME NEW n \in Carried(st, f, u) PROVE n \in Nat
          OBVIOUS
        <5> HIDE DEF st, st2
        <5>1. PICK i \in DOMAIN st : \E m \in DOMAIN st[i] : Of(st[i][m], f, u) /\ st[i][m].seq = n
          BY CarriedIs
        <5>2. st[i] \in Seq(Frames)
          BY <2>1 DEF StagesOK
        <5>3. PICK m \in DOMAIN st[i] : st[i][m].seq = n
          BY <5>1
        <5>4. st[i][m] \in Frames
          BY <5>2, <5>3
        <5> QED BY <5>3, <5>4 DEF Frames
      <4> HIDE DEF st
      <4> QED BY <1>2, <1>4, <2>4, <4>1, <4>2
    <3> HIDE DEF st, st2
    <3>3. CASE u = v
      <4>1. Of(x, f, u)
        BY <1>2, <2>4, <3>3 DEF Of
      <4>2. InOrder(st2, f, u) /\ Carried(st2, f, u) = Carried(st, f, u) \union {x.seq}
        <5>1. x \in Frames /\ Of(x, f, u) /\ Above(x, st, f, u)
          BY <1>2, <3>2, <4>1 DEF Above
        <5>2. StagesOK(st) /\ StagesOK(st2) /\ InOrder(st, f, u)
          BY <2>1
        <5>3. st2[8] = Append(st[8], x) /\ \A i \in 1 .. 7 : st2[i] = st[i]
          BY <2>2, <3>1
        <5> QED BY <5>1, <5>2, <5>3, Added, SMTT(30)
      <4>3. InOrder(st2, f, u) /\ Carried(st2, f, u) =
              Carried(st, f, u) \union (IF f = g /\ u = v THEN {sent[f] + 1} ELSE {})
        BY <1>2, <2>4, <3>3, <4>2
      <4> QED BY <4>3 DEF st, st2
    <3>4. CASE u # v
      <4>1. ~Of(x, f, u)
        BY <1>2, <3>4 DEF Of
      <4>2. \A i \in 1 .. 8 : i # 8 => st2[i] = st[i]
        BY <2>2
      <4>3. InOrder(st2, f, u) /\ Carried(st2, f, u) = Carried(st, f, u)
        BY <1>2, <2>1, <3>1, <4>1, <4>2, Inserted
      <4>4. InOrder(st2, f, u) /\ Carried(st2, f, u) =
              Carried(st, f, u) \union (IF f = g /\ u = v THEN {sent[f] + 1} ELSE {})
        BY <3>4, <4>3
      <4> QED BY <4>4 DEF st, st2
    <3> QED BY <3>3, <3>4
  <2> QED BY <2>3, <2>4
<1>6. KeepsOrder'
  BY <1>5 DEF KeepsOrder
<1>7. Numbered'
  <2> SUFFICES ASSUME NEW f \in Feeds, NEW u \in BOOLEAN, NEW n \in Carried(Stages(f, u)', f, u)
               PROVE  n <= sent'[f]
    BY DEF Numbered
  <2>1. n \in Carried(Stages(f, u), f, u) \/ (f = g /\ n = sent[f] + 1)
    BY <1>5
  <2>2. n \in Carried(Stages(f, u), f, u) => n <= sent[f]
    BY DEF Flow, Numbered
  <2>3. n \in Nat
    <3>1. StagesOK(Stages(f, u)')
      BY Before DEF Flow
    <3> DEFINE st2 == Stages(f, u)'
    <3>2. StagesOK(st2) /\ n \in Carried(st2, f, u)
      BY <3>1
    <3> HIDE DEF st2
    <3>3. PICK i \in DOMAIN st2 : \E m \in DOMAIN st2[i] : st2[i][m].seq = n
      BY <3>2, CarriedIs
    <3>4. PICK m \in DOMAIN st2[i] : st2[i][m].seq = n
      BY <3>3
    <3>5. st2[i] \in Seq(Frames)
      BY <3>2 DEF StagesOK
    <3>6. st2[i][m] \in Frames
      BY <3>4, <3>5
    <3> QED BY <3>4, <3>6 DEF Frames
  <2> QED BY <1>4, <2>1, <2>2, <2>3
<1>8. NothingLost'
  <2> SUFFICES ASSUME NEW f \in Feeds, f \notin cancelled', router' \in {"select", "send"}
               PROVE  1 .. sent'[f] \subseteq Carried(Stages(f, TRUE)', f, TRUE)
                                                \union Carried(Stages(f, FALSE)', f, FALSE)
    BY DEF NothingLost
  <2>1. f \notin cancelled /\ router \in {"select", "send"}
    BY DEF Feeding
  <2>2. 1 .. sent[f] \subseteq Carried(Stages(f, TRUE), f, TRUE) \union Carried(Stages(f, FALSE), f, FALSE)
    BY <2>1 DEF NothingLost, Flow
  <2>3. \A n \in 1 .. sent'[f] : n \in 1 .. sent[f] \/ (f = g /\ n = sent[f] + 1)
    BY <1>4
  <2> QED BY <1>5, <2>2, <2>3
<1> QED BY <1>6, <1>7, <1>8 DEF Flow

LEMMA FlowInit == Init => Flow
<1> SUFFICES ASSUME Init PROVE Flow
  OBVIOUS
<1>1. ASSUME NEW f \in Feeds, NEW u \in BOOLEAN
      PROVE  DOMAIN Stages(f, u) = 1 .. 8 /\ \A i \in 1 .. 8 : Stages(f, u)[i] = <<>>
  BY DEF Init, Stages, One
<1>2. DOMAIN <<>> = {}
  OBVIOUS
<1>3. ASSUME NEW f \in Feeds, NEW u \in BOOLEAN
      PROVE  InOrder(Stages(f, u), f, u) /\ Carried(Stages(f, u), f, u) = {}
  <2> DEFINE st == Stages(f, u)
  <2>1. \A i \in DOMAIN st : DOMAIN st[i] = {}
    BY <1>1, <1>2
  <2> HIDE DEF st
  <2>2. InOrder(st, f, u)
    BY <2>1 DEF InOrder
  <2>3. Carried(st, f, u) = {}
    BY <2>1, CarriedIs
  <2> QED BY <2>2, <2>3 DEF st
<1>4. KeepsOrder
  BY <1>3 DEF KeepsOrder
<1>5. Numbered
  BY <1>3 DEF Numbered
<1>6. NothingLost
  <2>1. \A f \in Feeds : 1 .. sent[f] = {}
    BY DEF Init
  <2> QED BY <2>1 DEF NothingLost
<1> QED BY <1>4, <1>5, <1>6 DEF Flow

LEMMA FlowNext == Base /\ Base' /\ Flow /\ [Next]_vars => Flow'
<1> SUFFICES ASSUME Base, Base', Flow, [Next]_vars PROVE Flow'
  OBVIOUS
<1> USE DEF registryVars, feedVars, routerVars, mergeVars, tailVars
<1>0. KeepsOrder
  BY DEF Flow
<1>1. ASSUME UNCHANGED <<processed, process, merging, emergency, routine, routing, internal, hand, feedq>>,
             sent' = sent, cancelled \subseteq cancelled',
             router' \in {"select", "send"} => router \in {"select", "send"}
      PROVE  Flow'
  BY <1>0, <1>1, StillKept, KeptFlow
<1>2. ASSUME NEW k \in Keys, NEW f \in Feeds, AddSource(k, f) PROVE Flow'
  BY <1>1, <1>2 DEF AddSource
<1>3. ASSUME NEW k \in Keys, RemoveSource(k) PROVE Flow'
  BY <1>1, <1>3 DEF RemoveSource
<1>4. ASSUME NEW f \in Feeds, DropSource(f) PROVE Flow'
  BY <1>1, <1>4 DEF DropSource
<1>5. CASE SignalShutdown \/ ReleaseSources
  BY <1>1, <1>5 DEF SignalShutdown, ReleaseSources
<1>6. ASSUME NEW f \in Feeds, NEW u \in BOOLEAN, Feeding(f, u) PROVE Flow'
  BY <1>6, FeedingFlow
<1>7. ASSUME NEW f \in Feeds, TaskRecv(f) PROVE Flow'
  <2>1. Kept
    BY <1>0, <1>7, TaskRecvKept
  <2> QED BY <1>7, <2>1, KeptFlow DEF TaskRecv
<1>8. ASSUME NEW f \in Feeds, TaskForwards(f) PROVE Flow'
  <2>1. Kept
    BY <1>0, <1>8, TaskForwardsKept
  <2> QED BY <1>8, <2>1, KeptFlow DEF TaskForwards
<1>9. ASSUME NEW f \in Feeds, TaskEnds(f) PROVE Flow'
  BY <1>9, TaskEndsFlow
<1>10. CASE RouterAdds \/ RouterRemoves \/ RouterStops
  <2>1. /\ UNCHANGED <<processed, process, merging, emergency, routine, routing, internal, hand, feedq>>
        /\ sent' = sent /\ cancelled \subseteq cancelled'
        /\ router' \in {"select", "send"} => router \in {"select", "send"}
    BY <1>10 DEF RouterAdds, RouterRemoves, RouterStops
  <2> QED BY <1>1, <2>1
<1>11. CASE RouterTakes
  BY <1>0, <1>11, RouterTakesKept, KeptFlow DEF RouterTakes
<1>12. CASE RouterSends
  BY <1>0, <1>12, RouterSendsKept, KeptFlow DEF RouterSends
<1>13. CASE RouterReturns
  BY <1>13, RouterReturnsFlow
<1>14. CASE FanInTakes
  BY <1>0, <1>14, FanInTakesKept, KeptFlow DEF FanInTakes
<1>15. CASE FanInSends
  BY <1>0, <1>15, FanInSendsKept, KeptFlow DEF FanInSends
<1>16. CASE Processes
  BY <1>0, <1>16, ProcessesKept, KeptFlow DEF Processes
<1>17. CASE FanInEnds \/ ProcessorEnds \/ ArchiveStep
  BY <1>1, <1>17 DEF FanInEnds, ProcessorEnds, ArchiveStep, ArchiveReads, ArchiveEnds
<1>18. CASE UNCHANGED vars
  BY <1>1, <1>18 DEF vars
<1> QED BY <1>2, <1>3, <1>4, <1>5, <1>6, <1>7, <1>8, <1>9, <1>10, <1>11, <1>12, <1>13, <1>14, <1>15, <1>16,
           <1>17, <1>18
        DEF Next, ClientStep, TaskStep, RouterStep, FanInStep, ProcessorStep

-----------------------------------------------------------------------------
(* The limits *)

LEMMA IdsFinite == ASSUME NEW S \in SUBSET {k[2] : k \in Keys} PROVE IsFiniteSet(S) /\ Cardinality(S) \in Nat
<1> DEFINE ids == {k[2] : k \in Keys}
           second == [k \in Keys |-> k[2]]
<1>1. second \in Surjection(Keys, ids)
  BY DEF Surjection
<1> HIDE DEF ids, second
<1>2. IsFiniteSet(ids)
  BY <1>1, PipelineAssumption, FS_Surjection
<1>3. IsFiniteSet(S)
  BY <1>2, FS_Subset DEF ids
<1> QED BY <1>3, FS_CardinalityType

LEMMA LimitsInit == Init => WithinLimits
<1> SUFFICES ASSUME Init, NEW kind \in Kinds PROVE Cardinality(Registered(kind)) <= MaxSources[kind]
  BY DEF WithinLimits
<1>1. Registered(kind) = {}
  BY DEF Init, Registered
<1> QED BY <1>1, FS_EmptySet, PipelineAssumption

LEMMA LimitsNext == TypeOK /\ WithinLimits /\ [Next]_vars => WithinLimits'
<1> SUFFICES ASSUME TypeOK, WithinLimits, [Next]_vars PROVE WithinLimits'
  OBVIOUS
<1> USE DEF registryVars, feedVars, routerVars, mergeVars, tailVars
<1>1. ASSUME \A k \in Keys : registry'[k] # NoFeed => registry[k] # NoFeed PROVE WithinLimits'
  <2> SUFFICES ASSUME NEW kind \in Kinds PROVE Cardinality(Registered(kind)') <= MaxSources[kind]
    BY DEF WithinLimits
  <2>1. Registered(kind)' \subseteq Registered(kind)
    BY <1>1 DEF Registered
  <2>2. Registered(kind) \subseteq {k[2] : k \in Keys}
    BY DEF Registered
  <2>3. IsFiniteSet(Registered(kind)) /\ Cardinality(Registered(kind)) \in Nat
    BY <2>2, IdsFinite
  <2>4. Cardinality(Registered(kind)') \in Nat
    BY <2>1, <2>2, IdsFinite
  <2>5. Cardinality(Registered(kind)') <= Cardinality(Registered(kind))
    BY <2>1, <2>3, FS_Subset
  <2>6. Cardinality(Registered(kind)) <= MaxSources[kind] /\ MaxSources[kind] \in Nat
    BY PipelineAssumption DEF WithinLimits
  <2> QED BY <2>3, <2>4, <2>5, <2>6
<1>2. ASSUME NEW k \in Keys, NEW f \in Feeds, AddSource(k, f) PROVE WithinLimits'
  <2> SUFFICES ASSUME NEW kind \in Kinds PROVE Cardinality(Registered(kind)') <= MaxSources[kind]
    BY DEF WithinLimits
  <2>1. Registered(kind)' \subseteq Registered(kind) \union {k[2]}
    BY <1>2 DEF AddSource, Registered, TypeOK
  <2>2. Registered(kind) \union {k[2]} \subseteq {j[2] : j \in Keys}
    BY DEF Registered
  <2> DEFINE R == Registered(kind)
             R2 == Registered(kind)'
  <2>3. k[2] \in R \/ Cardinality(R) < MaxSources[kind]
    <3>1. k[2] \in R \/ ~(Cardinality(R) >= MaxSources[kind])
      BY <1>2 DEF AddSource, Refused
    <3>2. Cardinality(R) \in Nat /\ MaxSources[kind] \in Nat
      BY <2>2, IdsFinite, PipelineAssumption
    <3> HIDE DEF R
    <3> QED BY <3>1, <3>2
  <2>4. IsFiniteSet(R) /\ Cardinality(R) \in Nat
    BY <2>2, IdsFinite
  <2>5. R2 \subseteq {j[2] : j \in Keys}
    BY <2>1, <2>2
  <2>6. Cardinality(R) <= MaxSources[kind] /\ MaxSources[kind] \in Nat
    BY PipelineAssumption DEF WithinLimits
  <2>7. R2 \subseteq R \union {k[2]}
    BY <2>1
  <2> HIDE DEF R, R2
  <2>8. IsFiniteSet(R \union {k[2]})
        /\ Cardinality(R \union {k[2]}) = IF k[2] \in R THEN Cardinality(R) ELSE Cardinality(R) + 1
    BY <2>4, FS_AddElement
  <2>9. Cardinality(R2) \in Nat
    BY <2>5, IdsFinite
  <2>10. Cardinality(R2) <= Cardinality(R \union {k[2]})
    BY <2>7, <2>8, FS_Subset
  <2>11. Cardinality(R2) <= MaxSources[kind]
    BY <2>3, <2>4, <2>6, <2>8, <2>9, <2>10
  <2> QED BY <2>11 DEF R2
<1>3. ASSUME NEW k \in Keys, RemoveSource(k) PROVE WithinLimits'
  BY <1>1, <1>3 DEF RemoveSource, TypeOK
<1>4. CASE ReleaseSources
  BY <1>1, <1>4 DEF ReleaseSources
<1>5. ASSUME registry' = registry PROVE WithinLimits'
  BY <1>1, <1>5
<1>6. ASSUME NEW f \in Feeds, NEW u \in BOOLEAN, Feeding(f, u) PROVE WithinLimits'
  BY <1>5, <1>6 DEF Feeding
<1>7. ASSUME NEW f \in Feeds, DropSource(f) PROVE WithinLimits'
  BY <1>5, <1>7 DEF DropSource
<1>8. CASE SignalShutdown
  BY <1>5, <1>8 DEF SignalShutdown
<1>9. ASSUME NEW f \in Feeds, TaskStep(f) PROVE WithinLimits'
  BY <1>5, <1>9 DEF TaskStep, TaskRecv, TaskForwards, TaskEnds
<1>10. CASE RouterStep
  BY <1>5, <1>10 DEF RouterStep, RouterAdds, RouterRemoves, RouterTakes, RouterSends, RouterStops, RouterReturns
<1>11. CASE FanInStep \/ ProcessorStep \/ ArchiveStep
  BY <1>5, <1>11 DEF FanInStep, FanInTakes, FanInSends, FanInEnds, ProcessorStep, Processes, ProcessorEnds,
                     ArchiveStep, ArchiveReads, ArchiveEnds
<1>12. CASE UNCHANGED vars
  BY <1>5, <1>12 DEF vars
<1> QED BY <1>2, <1>3, <1>4, <1>6, <1>7, <1>8, <1>9, <1>10, <1>11, <1>12 DEF Next, ClientStep

-----------------------------------------------------------------------------
(* The registry and the router *)

(* A message about another source, at the end of the channel, is none of k's
   business. *)
LEMMA StillFeeds ==
  ASSUME NEW c \in Seq(Messages), NEW x \in Messages, NEW k, NEW f, x.key # k
  PROVE  /\ (\A i \in DOMAIN c : c[i].key # k) => \A i \in DOMAIN Append(c, x) : Append(c, x)[i].key # k
         /\ (\E i \in DOMAIN c : c[i].key = k /\ c[i].feed = f /\ \A j \in DOMAIN c : j > i => c[j].key # k)
              => \E i \in DOMAIN Append(c, x) :
                   /\ Append(c, x)[i].key = k /\ Append(c, x)[i].feed = f
                   /\ \A j \in DOMAIN Append(c, x) : j > i => Append(c, x)[j].key # k
  BY Appended

LEMMA WillFeedKept ==
  ASSUME NEW k, NEW f, TypeOK, WillFeed(k, f), handles' = handles,
         NEW x \in Messages, x.key # k, ctrl' = Append(ctrl, x)
  PROVE  WillFeed(k, f)'
<1> DEFINE c == ctrl
           d == ctrl'
<1>1. c \in Seq(Messages) /\ d = Append(c, x)
  BY DEF TypeOK
<1>2. \/ handles[k] = f /\ \A i \in DOMAIN c : c[i].key # k
      \/ \E i \in DOMAIN c : c[i].key = k /\ c[i].feed = f /\ \A j \in DOMAIN c : j > i => c[j].key # k
  BY DEF WillFeed
<1> HIDE DEF c, d
<1>3. \/ handles[k] = f /\ \A i \in DOMAIN d : d[i].key # k
      \/ \E i \in DOMAIN d : d[i].key = k /\ d[i].feed = f /\ \A j \in DOMAIN d : j > i => d[j].key # k
  BY <1>1, <1>2, StillFeeds
<1> QED BY <1>3 DEF WillFeed, d

LEMMA WillFeedAfter ==
  ASSUME NEW k, NEW f, TypeOK, WillFeed(k, f), ctrl # <<>>, ctrl' = Tail(ctrl),
         \/ Head(ctrl).key # k /\ handles'[k] = handles[k]
         \/ Head(ctrl).key = k /\ (handles'[k] = f \/ Head(ctrl).feed # f)
  PROVE  WillFeed(k, f)'
<1> DEFINE c == ctrl
           d == ctrl'
<1>1. /\ Head(c) = c[1] /\ Len(c) \in Nat \ {0} /\ DOMAIN c = 1 .. Len(c) /\ DOMAIN d = 1 .. Len(c) - 1
      /\ \A i \in 1 .. Len(c) - 1 : d[i] = c[i + 1]
  BY Tailed DEF TypeOK
<1>2. CASE handles[k] = f /\ \A i \in DOMAIN c : c[i].key # k
  <2>1. Head(c).key # k /\ handles'[k] = f
    BY <1>1, <1>2
  <2>2. \A i \in DOMAIN d : d[i].key # k
    BY <1>1, <1>2
  <2> QED BY <2>1, <2>2 DEF WillFeed
<1>3. CASE \E i \in DOMAIN c : c[i].key = k /\ c[i].feed = f /\ \A j \in DOMAIN c : j > i => c[j].key # k
  <2>1. PICK i \in DOMAIN c : c[i].key = k /\ c[i].feed = f /\ \A j \in DOMAIN c : j > i => c[j].key # k
    BY <1>3
  <2>2. i \in 1 .. Len(c)
    BY <1>1
  <2>3. CASE i = 1
    <3>1. handles'[k] = f
      BY <1>1, <2>1, <2>3
    <3>2. \A j \in DOMAIN d : d[j].key # k
      BY <1>1, <2>1, <2>3
    <3> QED BY <3>1, <3>2 DEF WillFeed
  <2>4. CASE i # 1
    <3> DEFINE n == i - 1
    <3>1. n \in 1 .. Len(c) - 1 /\ n + 1 = i
      BY <1>1, <2>2, <2>4
    <3> HIDE DEF n
    <3>2. n \in DOMAIN d /\ d[n].key = k /\ d[n].feed = f
      BY <1>1, <2>1, <3>1
    <3>3. \A j \in DOMAIN d : j > n => d[j].key # k
      BY <1>1, <2>1, <3>1
    <3> QED BY <3>2, <3>3 DEF WillFeed
  <2> QED BY <2>3, <2>4
<1> QED BY <1>2, <1>3 DEF WillFeed

LEMMA AgreesInit == Init => RegistryAgrees
  BY DEF Init, RegistryAgrees

LEMMA AgreesNext == TypeOK /\ TypeOK' /\ RegistryAgrees /\ [Next]_vars => RegistryAgrees'
<1> SUFFICES ASSUME TypeOK, TypeOK', RegistryAgrees, [Next]_vars PROVE RegistryAgrees'
  OBVIOUS
<1> USE DEF registryVars, feedVars, routerVars, mergeVars, tailVars
<1>0. NoFeed \notin Feeds
  BY PipelineAssumption
<1>1. ASSUME NEW k \in Keys, NEW f \in Feeds, registry'[k] = f, router' # "done" PROVE WillFeed(k, f)'
  <2>1. ASSUME UNCHANGED <<handles, ctrl>>, router # "done", registry[k] = f PROVE WillFeed(k, f)'
    <3>1. WillFeed(k, f)
      BY <1>0, <2>1 DEF RegistryAgrees
    <3> QED BY <2>1, <3>1 DEF WillFeed
  <2>2. ASSUME NEW j \in Keys, NEW g \in Feeds, AddSource(j, g) PROVE WillFeed(k, f)'
    <3> DEFINE x == [op |-> "Add", key |-> j, feed |-> g]
    <3>1. x \in Messages /\ x.key = j /\ x.feed = g
      BY DEF Messages
    <3>2. /\ ctrl \in Seq(Messages) /\ ctrl' = Append(ctrl, x) /\ handles' = handles /\ router # "done"
          /\ registry' = [registry EXCEPT ![j] = g]
      BY <2>2 DEF AddSource, CtrlOpen, TypeOK
    <3> HIDE DEF x
    <3>3. CASE j = k
      <4>1. g = f
        BY <1>1, <3>2, <3>3 DEF TypeOK
      <4> DEFINE last == Len(ctrl) + 1
      <4>2. /\ last \in DOMAIN ctrl' /\ ctrl'[last] = x
            /\ \A i \in DOMAIN ctrl' : ~(i > last)
        BY <3>1, <3>2, Appended
      <4> HIDE DEF last
      <4> QED BY <3>1, <3>3, <4>1, <4>2 DEF WillFeed
    <3>4. CASE j # k
      <4>1. registry[k] = f
        BY <1>1, <3>2, <3>4 DEF TypeOK
      <4>2. WillFeed(k, f)
        BY <1>0, <3>2, <4>1 DEF RegistryAgrees
      <4> QED BY <3>1, <3>2, <3>4, <4>2, WillFeedKept
    <3> QED BY <3>3, <3>4
  <2>3. ASSUME NEW j \in Keys, RemoveSource(j) PROVE WillFeed(k, f)'
    <3> DEFINE x == [op |-> "Remove", key |-> j, feed |-> NoFeed]
    <3>1. x \in Messages /\ x.key = j
      BY DEF Messages
    <3>2. /\ ctrl' = Append(ctrl, x) \/ ctrl' = ctrl
          /\ handles' = handles /\ router # "done"
          /\ registry' = [registry EXCEPT ![j] = NoFeed]
      BY <1>1, <2>3 DEF RemoveSource
    <3>3. j # k /\ registry[k] = f
      BY <1>0, <1>1, <3>2 DEF TypeOK
    <3>4. WillFeed(k, f)
      BY <1>0, <3>2, <3>3 DEF RegistryAgrees
    <3> HIDE DEF x
    <3>5. CASE ctrl' = Append(ctrl, x)
      BY <3>1, <3>2, <3>3, <3>4, <3>5, WillFeedKept
    <3>6. CASE ctrl' = ctrl
      BY <3>2, <3>4, <3>6 DEF WillFeed
    <3> QED BY <3>2, <3>5, <3>6
  <2>4. CASE RouterAdds \/ RouterRemoves
    <3>1. /\ ctrl # <<>> /\ ctrl' = Tail(ctrl) /\ router # "done" /\ registry[k] = f /\ Head(ctrl) \in Messages
          /\ handles \in [Keys -> Feeds \union {NoFeed}]
      <4>1. ctrl # <<>> /\ ctrl' = Tail(ctrl) /\ router # "done" /\ registry[k] = f
        BY <1>1, <2>4 DEF RouterAdds, RouterRemoves
      <4> QED BY <4>1, Shortened DEF TypeOK
    <3>2. WillFeed(k, f)
      BY <1>0, <3>1 DEF RegistryAgrees
    <3>3. Head(ctrl).key \in Keys
      BY <3>1 DEF Messages
    <3>4. \/ Head(ctrl).key # k /\ handles'[k] = handles[k]
          \/ Head(ctrl).key = k /\ (handles'[k] = f \/ Head(ctrl).feed # f)
      <4>1. CASE RouterAdds
        BY <3>1, <3>3, <4>1 DEF RouterAdds
      <4>2. CASE RouterRemoves
        <5>1. Head(ctrl).feed = NoFeed
          BY <3>1, <4>2 DEF RouterRemoves, Messages
        <5> QED BY <1>0, <3>1, <3>3, <4>2, <5>1 DEF RouterRemoves
      <4> QED BY <2>4, <4>1, <4>2
    <3> QED BY <3>1, <3>2, <3>4, WillFeedAfter
  <2>5. ASSUME NEW g \in Feeds, NEW u \in BOOLEAN, Feeding(g, u) PROVE WillFeed(k, f)'
    BY <1>1, <2>1, <2>5 DEF Feeding
  <2>6. ASSUME NEW g \in Feeds, DropSource(g) PROVE WillFeed(k, f)'
    BY <1>1, <2>1, <2>6 DEF DropSource
  <2>7. CASE SignalShutdown
    BY <1>1, <2>1, <2>7 DEF SignalShutdown
  <2>8. CASE ReleaseSources
    BY <1>0, <1>1, <2>8 DEF ReleaseSources
  <2>9. ASSUME NEW g \in Feeds, TaskStep(g) PROVE WillFeed(k, f)'
    BY <1>1, <2>1, <2>9 DEF TaskStep, TaskRecv, TaskForwards, TaskEnds
  <2>10. CASE RouterTakes \/ RouterSends \/ RouterStops
    BY <1>1, <2>1, <2>10 DEF RouterTakes, RouterSends, RouterStops
  <2>11. CASE RouterReturns
    BY <1>1, <2>11 DEF RouterReturns
  <2>12. CASE FanInStep \/ ProcessorStep \/ ArchiveStep
    BY <1>1, <2>1, <2>12 DEF FanInStep, FanInTakes, FanInSends, FanInEnds, ProcessorStep, Processes, ProcessorEnds,
                             ArchiveStep, ArchiveReads, ArchiveEnds
  <2>13. CASE UNCHANGED vars
    BY <1>1, <2>1, <2>13 DEF vars
  <2> QED BY <2>2, <2>3, <2>4, <2>5, <2>6, <2>7, <2>8, <2>9, <2>10, <2>11, <2>12, <2>13
          DEF Next, ClientStep, RouterStep
<1>2. \A k \in Keys : registry'[k] \in Feeds \union {NoFeed}
  BY DEF TypeOK
<1>3. \A k \in Keys, f \in Feeds : registry'[k] = f /\ router' # "done" => WillFeed(k, f)'
  BY <1>1
<1> HIDE DEF registryVars, feedVars, routerVars, mergeVars, tailVars
<1> QED BY <1>2, <1>3 DEF RegistryAgrees, WillFeed

-----------------------------------------------------------------------------
(* The invariant of the pipeline. *)
PipelineIInv == Base /\ Flow /\ WithinLimits /\ RegistryAgrees

LEMMA PipelineSafe == Spec => []PipelineIInv
<1>1. Init => PipelineIInv
  BY BaseInit, FlowInit, LimitsInit, AgreesInit DEF PipelineIInv
<1>2. PipelineIInv /\ [Next]_vars => PipelineIInv'
  <2> SUFFICES ASSUME PipelineIInv, [Next]_vars PROVE PipelineIInv'
    OBVIOUS
  <2>1. Base /\ Flow /\ WithinLimits /\ RegistryAgrees
    BY DEF PipelineIInv
  <2>2. Base'
    BY <2>1, BaseNext
  <2>3. TypeOK /\ TypeOK'
    BY <2>1, <2>2 DEF Base
  <2>4. Flow' /\ WithinLimits' /\ RegistryAgrees'
    BY <2>1, <2>2, <2>3, FlowNext, LimitsNext, AgreesNext
  <2> QED BY <2>2, <2>4 DEF PipelineIInv
<1> QED BY <1>1, <1>2, PTL DEF Spec

(* The frames of one source and one priority keep their order from the channel
   of the source to the processor, and none is there twice; the limits of 48
   uplinks and 2 replays hold; the tasks end one after the other: for every
   number of sources and frames and every capacity of the channels. *)
THEOREM FramesKeepTheirOrder == Spec => []PipelineInv
<1>1. PipelineIInv => PipelineInv
  BY DEF PipelineIInv, Base, Flow, PipelineInv
<1> QED BY <1>1, PipelineSafe, PTL

(* No frame that a source accepted is lost while the router runs, but for those
   of a source that was removed (abort in router_source). *)
THEOREM NoFrameIsLost == Spec => []NothingLost
<1>1. PipelineIInv => NothingLost
  BY DEF PipelineIInv, Flow
<1> QED BY <1>1, PipelineSafe, PTL

(* The registry of the system and the handles of the router agree up to the
   messages on the control channel, whatever the callers add and remove. *)
THEOREM RegistryAndRouterAgree == Spec => []RegistryAgrees
<1>1. PipelineIInv => RegistryAgrees
  BY DEF PipelineIInv
<1> QED BY <1>1, PipelineSafe, PTL
==============================================================================
