----------------------------- MODULE FsdChainProofs -----------------------------
(***************************************************************************)
(* What the process node publishes has one clock, for every sequence of    *)
(* sentences and every leap second the receiver announces; and along the   *)
(* chain nothing is published twice, out of order or uncounted, whatever   *)
(* the depths of the queues and however they overflow.                     *)
(***************************************************************************)
EXTENDS FsdChain, SequenceTheorems, FiniteSetTheorems, TLAPS

-----------------------------------------------------------------------------
(* The process node alone *)

\* The leap seconds in use are those of the last PVT published.
LastPvtCounts ==
    \A i \in PvtsUpTo(Len(published)) :
        PvtsUpTo(Len(published)) \ 1..i = {} =>
            published[i].stamp = published[i].time - gLeaps

IInv == TypeOK /\ LastPvtCounts /\ OneClock

\* Every message published has a time and a stamp.
LEMMA Stamped ==
    ASSUME TypeOK, NEW i \in 1..Len(published)
    PROVE  published[i].time \in Int /\ published[i].stamp \in Int
<1>1. published[i] \in PvtMessages \cup ImuMessages
  BY DEF TypeOK
<1>2. CASE published[i] \in PvtMessages
  BY <1>2, NumbersAssumption DEF PvtMessages
<1>3. CASE published[i] \in ImuMessages
  BY <1>3, NumbersAssumption DEF ImuMessages
<1> QED
  BY <1>1, <1>2, <1>3

\* A sentence of which nothing is published.
LEMMA SilentKeeps ==
    ASSUME IInv, NEW s \in Sentences, CrcError(s) \/ Ignore(s)
    PROVE  IInv'
<1>1. UNCHANGED <<gLeaps, published>>
  BY DEF CrcError, Ignore
<1>2. counters' \in [Metrics -> Nat]
  BY DEF CrcError, Ignore, Count, IInv, TypeOK
<1> QED
  BY <1>1, <1>2 DEF IInv, TypeOK, LastPvtCounts, OneClock, PvtsUpTo

\* A PVT starts over: it is the last of its kind.
LEMMA PvtKeeps ==
    ASSUME IInv, NEW s \in Sentences, DealPvt(s)
    PROVE  IInv'
<1> PICK n \in Nat : n = Len(published)
  BY DEF IInv, TypeOK
<1> DEFINE p == Pvt(s, s.leaps)
<1>1. gLeaps' = s.leaps /\ published' = Append(published, p)
  BY DEF DealPvt
<1>2. s.leaps \in Leaps /\ s.time \in Times /\ s.fix \in Fixes
      /\ s.leaps \in Int /\ s.time \in Int
  <2>1. s.leaps \in Leaps /\ s.time \in Times /\ s.fix \in Fixes
    BY DEF Sentences
  <2> QED
    BY <2>1, NumbersAssumption
<1>3. p \in PvtMessages /\ p.topic = "devpvt" /\ p.stamp = p.time - gLeaps'
  BY <1>1, <1>2 DEF Pvt, PvtMessages
<1> HIDE DEF p
<1>4. published \in Seq(PvtMessages \cup ImuMessages) /\ n = Len(published)
  BY DEF IInv, TypeOK
<1>5. /\ Len(published') = n + 1
      /\ published'[n + 1] = p
      /\ \A i \in 1..n : published'[i] = published[i]
      /\ published' \in Seq(PvtMessages \cup ImuMessages)
  BY <1>1, <1>3, <1>4, AppendProperties
<1>6. counters' \in [Metrics -> Nat]
  BY DEF DealPvt, Count, IInv, TypeOK
<1>7. TypeOK'
  BY <1>1, <1>2, <1>5, <1>6 DEF TypeOK
<1>8. n + 1 \in PvtsUpTo(n + 1)'
  BY <1>3, <1>4, <1>5 DEF PvtsUpTo
<1>9. LastPvtCounts'
  <2> SUFFICES ASSUME NEW i \in PvtsUpTo(n + 1)', PvtsUpTo(n + 1)' \ 1..i = {}
               PROVE  published'[i].stamp = published'[i].time - gLeaps'
    BY <1>5 DEF LastPvtCounts
  <2>1. i = n + 1
    BY <1>4, <1>8 DEF PvtsUpTo
  <2> QED
    BY <2>1, <1>3, <1>5
<1>10. OneClock'
  <2> SUFFICES ASSUME NEW i \in PvtsUpTo(n + 1)', NEW j \in i..(n + 1),
                      PvtsUpTo(j)' \ 1..i = {}
               PROVE  published'[j].stamp - published'[i].stamp
                        = published'[j].time - published'[i].time
    BY <1>5 DEF OneClock
  <2>1. i \in 1..(n + 1) /\ j \in 1..(n + 1)
    BY <1>4 DEF PvtsUpTo
  <2>2. CASE j = n + 1
    <3>1. i = n + 1
      BY <2>1, <2>2, <1>4, <1>8
    <3>2. published'[i].stamp \in Int /\ published'[i].time \in Int
      BY <2>1, <1>5, <1>7, Stamped, <1>3, <3>1, <1>2 DEF PvtMessages, p, Pvt
    <3> QED
      BY <2>2, <3>1, <3>2
  <2>3. CASE j \in 1..n
    <3>1. i \in 1..n /\ j \in i..n
      BY <2>1, <2>3, <1>4
    <3>2. i \in PvtsUpTo(n) /\ PvtsUpTo(j) \ 1..i = {}
      BY <2>1, <2>3, <3>1, <1>4, <1>5 DEF PvtsUpTo
    <3> QED
      BY <3>1, <3>2, <1>5, <2>3 DEF IInv, OneClock
  <2> QED
    BY <2>1, <2>2, <2>3, <1>4
<1> QED
  BY <1>7, <1>9, <1>10 DEF IInv

\* An IMU message is stamped with the leap seconds of the last PVT.
LEMMA ImuKeeps ==
    ASSUME IInv, NEW s \in Sentences, DealImu(s)
    PROVE  IInv'
<1> PICK n \in Nat : n = Len(published)
  BY DEF IInv, TypeOK
<1> DEFINE p == Imu(s, gLeaps)
<1>1. gLeaps' = gLeaps /\ published' = Append(published, p)
  BY DEF DealImu
<1>2. s.time \in Times /\ s.time \in Int /\ gLeaps \in Leaps \cup {DefaultLeaps} /\ gLeaps \in Int
  <2>1. s.time \in Times /\ gLeaps \in Leaps \cup {DefaultLeaps}
    BY DEF Sentences, IInv, TypeOK
  <2> QED
    BY <2>1, NumbersAssumption, DefaultAssumption
<1>3. p \in ImuMessages /\ p.topic = "devimu" /\ p.stamp = p.time - gLeaps /\ p.time \in Int
  BY <1>2 DEF Imu, ImuMessages
<1> HIDE DEF p
<1>4. published \in Seq(PvtMessages \cup ImuMessages) /\ n = Len(published)
  BY DEF IInv, TypeOK
<1>5. /\ Len(published') = n + 1
      /\ published'[n + 1] = p
      /\ \A i \in 1..n : published'[i] = published[i]
      /\ published' \in Seq(PvtMessages \cup ImuMessages)
  BY <1>1, <1>3, <1>4, AppendProperties
<1>6. counters' \in [Metrics -> Nat]
  BY DEF DealImu, Count, IInv, TypeOK
<1>7. TypeOK'
  BY <1>1, <1>2, <1>5, <1>6 DEF TypeOK
<1>8. PvtsUpTo(n + 1)' = PvtsUpTo(n) /\ \A j \in 1..n : PvtsUpTo(j)' = PvtsUpTo(j)
  BY <1>3, <1>4, <1>5 DEF PvtsUpTo
<1>9. LastPvtCounts'
  <2> SUFFICES ASSUME NEW i \in PvtsUpTo(n), PvtsUpTo(n) \ 1..i = {}
               PROVE  published'[i].stamp = published'[i].time - gLeaps'
    BY <1>5, <1>8 DEF LastPvtCounts
  <2> QED
    BY <1>1, <1>4, <1>5 DEF IInv, LastPvtCounts, PvtsUpTo
<1>10. OneClock'
  <2> SUFFICES ASSUME NEW i \in PvtsUpTo(n), NEW j \in i..(n + 1),
                      PvtsUpTo(j)' \ 1..i = {}
               PROVE  published'[j].stamp - published'[i].stamp
                        = published'[j].time - published'[i].time
    BY <1>5, <1>8 DEF OneClock
  <2>1. i \in 1..n
    BY DEF PvtsUpTo
  <2>2. CASE j = n + 1
    <3>1. published[i].stamp = published[i].time - gLeaps
      BY <2>2, <1>8 DEF IInv, LastPvtCounts
    <3>2. published[i].time \in Int
      BY <2>1, Stamped DEF IInv
    <3> QED
      BY <2>1, <2>2, <3>1, <3>2, <1>2, <1>3, <1>5
  <2>3. CASE j \in 1..n
    <3>1. j \in i..n /\ PvtsUpTo(j) \ 1..i = {}
      BY <2>1, <2>3, <1>4, <1>8
    <3> QED
      BY <3>1, <2>1, <2>3, <1>5 DEF IInv, OneClock
  <2> QED
    BY <2>1, <2>2, <2>3, <1>4
<1> QED
  BY <1>7, <1>9, <1>10 DEF IInv

\* The invariant holds in every state.
THEOREM Invariance == Spec => []IInv
<1>1. Init => IInv
  <2> SUFFICES ASSUME Init PROVE IInv
    OBVIOUS
  <2>1. TypeOK
    BY EmptySeq DEF Init, TypeOK
  <2> QED
    BY <2>1 DEF Init, IInv, LastPvtCounts, OneClock, PvtsUpTo
<1>2. IInv /\ [Next]_vars => IInv'
  <2> SUFFICES ASSUME IInv, [Next]_vars PROVE IInv'
    OBVIOUS
  <2>1. CASE Next
    <3>1. PICK s \in Sentences : HcSentence(s)
      BY <2>1 DEF Next
    <3> QED
      BY <3>1, SilentKeeps, PvtKeeps, ImuKeeps DEF HcSentence
  <2>2. CASE UNCHANGED vars
    BY <2>2 DEF vars, IInv, TypeOK, LastPvtCounts, OneClock, PvtsUpTo
  <2> QED
    BY <2>1, <2>2
<1> QED
  BY <1>1, <1>2, PTL DEF Spec

\* Every variable keeps its type.
THEOREM NodeTypeCorrect == Spec => []TypeOK
<1>1. IInv => TypeOK
  BY DEF IInv
<1> QED
  BY <1>1, Invariance, PTL

\* devpvt and devimu keep one clock.
THEOREM NodeClocksAgree == Spec => []OneClock
<1>1. IInv => OneClock
  BY DEF IInv
<1> QED
  BY <1>1, Invariance, PTL

-----------------------------------------------------------------------------
(* The chain's inductive invariant *)

\* The queues keep their types and depths, and so does the bridge.
ChainTypeOK ==
    /\ sent \in Seq(Sentences) /\ Len(sent) <= MaxSentences
    /\ sentences \in Seq(Sentences) /\ Len(sentences) <= SentenceDepth
    /\ devpvt \in Seq(Bridge!Pvts) /\ Len(devpvt) <= PvtDepth
    /\ poses \in Seq(Bridge!Poses)
    /\ bridgeCounters \in [Bridge!Metrics -> Nat]
    /\ originReady \in BOOLEAN
    /\ originReady => origin \in ChainTimes /\ radiiAt \in ChainTimes

\* The receiver's sentences are numbered.
Numbered == \A k \in 1..Len(sent) : sent[k].time = k /\ sent[k].fix.position = k

\* What waits for the process node was sent, and waits in that order.
WaitingSentences ==
    /\ \A i \in 1..Len(sentences) :
        sentences[i].time \in 1..Len(sent) /\ sentences[i] = sent[sentences[i].time]
    /\ \A i, j \in 1..Len(sentences) : i < j => sentences[i].time < sentences[j].time

\* m is the PVT that the process node makes of a sentence.
MadeOf(m, s) ==
    s.id = "INSPVATZCB" /\ s.size = 296 /\ s.intact /\ m = ToBridge(Pvt(s, s.leaps))

\* What waits for the bridge was made of a sentence before all that still wait
\* for the process node, and waits in that order.
WaitingPvts ==
    /\ \A i \in 1..Len(devpvt) :
        devpvt[i].position \in 1..Len(sent) /\ MadeOf(devpvt[i], sent[devpvt[i].position])
    /\ \A i, j \in 1..Len(devpvt) : i < j => devpvt[i].position < devpvt[j].position
    /\ \A i \in 1..Len(devpvt) : \A j \in 1..Len(sentences) :
        devpvt[i].position < sentences[j].time

\* The poses are of sentences before all that wait for either node.
PosesFirst ==
    /\ \A i \in 1..Len(poses) : poses[i].position \in 1..Len(sent)
    /\ \A i \in 1..Len(poses) : \A j \in 1..Len(devpvt) : poses[i].position < devpvt[j].position
    /\ \A i \in 1..Len(poses) : \A j \in 1..Len(sentences) : poses[i].position < sentences[j].time

ChainInv ==
    /\ IInv /\ ChainTypeOK /\ Numbered
    /\ WaitingSentences /\ WaitingPvts /\ PosesFirst
    /\ PosesFollowReceiver /\ EverySentenceAccounted

-----------------------------------------------------------------------------
(* Lemmas on the queues, and the receiver's step *)

\* A full queue loses its oldest message, the new one is the last.
LEMMA KeepLastProperties ==
    ASSUME NEW S, NEW q \in Seq(S), NEW m \in S, NEW depth \in Nat \ {0}, Len(q) <= depth,
           NEW r, r = KeepLast(q, m, depth)
    PROVE  /\ r \in Seq(S) /\ Len(r) <= depth
           /\ Len(r) \in 1..(Len(q) + 1) /\ r[Len(r)] = m
           /\ LET d == Len(q) + 1 - Len(r)
              IN  d \in Nat /\ \A i \in 1..(Len(r) - 1) : i + d \in 1..Len(q) /\ r[i] = q[i + d]
<1>1. Len(q) \in Nat
  BY LenProperties
<1>2. CASE Len(q) = depth
  <2> DEFINE t == Tail(q)
  <2>1. q # <<>>
    BY <1>2, EmptySeq
  <2>2. t \in Seq(S) /\ Len(t) = Len(q) - 1 /\ \A i \in 1..Len(t) : t[i] = q[i + 1]
    BY <2>1, HeadTailProperties
  <2>3. r = Append(t, m)
    BY <1>2 DEF KeepLast
  <2> HIDE DEF t
  <2>4. /\ r \in Seq(S) /\ Len(r) = Len(t) + 1
        /\ \A i \in 1..Len(t) : r[i] = t[i]
        /\ r[Len(t) + 1] = m
    BY <2>2, <2>3, AppendProperties
  <2>5. \A i \in 1..(Len(r) - 1) : i + 1 \in 1..Len(q) /\ r[i] = q[i + 1]
    BY <1>1, <2>2, <2>4
  <2> QED
    BY <1>1, <1>2, <2>2, <2>4, <2>5
<1>3. CASE Len(q) # depth
  <2>1. r = Append(q, m)
    BY <1>3 DEF KeepLast
  <2>2. /\ r \in Seq(S) /\ Len(r) = Len(q) + 1
        /\ \A i \in 1..Len(q) : r[i] = q[i]
        /\ r[Len(q) + 1] = m
    BY <2>1, AppendProperties
  <2>3. \A i \in 1..(Len(r) - 1) : i + 0 \in 1..Len(q) /\ r[i] = q[i + 0]
    BY <1>1, <2>2
  <2> QED
    BY <1>1, <1>3, <2>2, <2>3
<1> QED
  BY <1>2, <1>3

\* What the receiver sends.
LEMMA SendableProperties ==
    ASSUME NEW t \in Nat, NEW s \in Sendable(t)
    PROVE  s \in Sentences /\ s.time = t /\ s.fix.position = t
BY DEF Sendable

\* A sentence of the receiver joins the queue and is the last.
LEMMA SendKeeps ==
    ASSUME ChainInv, Len(sent) < MaxSentences, NEW s \in Sendable(Len(sent) + 1), Send(s)
    PROVE  ChainInv'
<1> DEFINE n == Len(sent)
           k == Len(sentences)
           q == sentences'
           d == k + 1 - Len(q)
<1>1. /\ n \in Nat /\ k \in Nat /\ sent \in Seq(Sentences) /\ sentences \in Seq(Sentences)
      /\ n + 1 <= MaxSentences /\ k <= SentenceDepth
  BY LenProperties, BoundAssumption DEF ChainInv, ChainTypeOK
<1>2. s \in Sentences /\ s.time = n + 1 /\ s.fix.position = n + 1
  BY <1>1, SendableProperties
<1>3. /\ sent' = Append(sent, s) /\ q = KeepLast(sentences, s, SentenceDepth)
      /\ UNCHANGED <<devpvt, gLeaps, published, counters>>
      /\ UNCHANGED <<origin, originReady, radiiAt, poses, bridgeCounters>>
  BY DEF Send, vars, bridge
<1>4. /\ sent' \in Seq(Sentences) /\ Len(sent') = n + 1
      /\ \A i \in 1..n : sent'[i] = sent[i]
      /\ sent'[n + 1] = s
  BY <1>1, <1>2, <1>3, AppendProperties
<1> HIDE DEF q
<1>5. /\ q \in Seq(Sentences) /\ Len(q) <= SentenceDepth
      /\ Len(q) \in 1..(k + 1) /\ q[Len(q)] = s
      /\ d \in Nat /\ \A i \in 1..(Len(q) - 1) : i + d \in 1..k /\ q[i] = sentences[i + d]
  <2>1. SentenceDepth \in Nat \ {0} /\ s \in Sentences
    BY <1>2, DepthAssumption
  <2>2. sentences \in Seq(Sentences) /\ Len(sentences) <= SentenceDepth
    BY <1>1
  <2>3. q = KeepLast(sentences, s, SentenceDepth)
    BY <1>3
  <2> QED
    BY <2>1, <2>2, <2>3, KeepLastProperties
<1> HIDE DEF d
<1>6. d \in Nat /\ \A i \in 1..(Len(q) - 1) : i + d \in 1..k /\ q[i] = sentences[i + d]
  BY <1>5
<1>7. \A i \in 1..Len(q) : i = Len(q) \/ i \in 1..(Len(q) - 1)
  BY <1>5, <1>1
<1>8. ChainTypeOK'
  BY <1>1, <1>3, <1>4, <1>5
  DEF ChainInv, ChainTypeOK, q, Bridge!Pvts, Bridge!Poses, Bridge!Metrics, ChainTimes
<1>9. Numbered'
  BY <1>1, <1>2, <1>4 DEF ChainInv, Numbered
<1>10. WaitingSentences'
  <2>1. ASSUME NEW i \in 1..k
        PROVE  sentences[i].time \in 1..n /\ sentences[i] = sent[sentences[i].time]
    BY DEF ChainInv, WaitingSentences
  <2>2. ASSUME NEW i \in 1..Len(q)
        PROVE  q[i].time \in 1..(n + 1) /\ q[i] = sent'[q[i].time]
    <3>1. CASE i = Len(q)
      BY <3>1, <1>1, <1>2, <1>4, <1>5
    <3>2. CASE i \in 1..(Len(q) - 1)
      <4>1. i + d \in 1..k /\ q[i] = sentences[i + d]
        BY <3>2, <1>6
      <4>2. q[i].time \in 1..n /\ q[i] = sent[q[i].time]
        BY <4>1, <2>1
      <4> QED
        BY <4>2, <1>1, <1>4
    <3> QED
      BY <3>1, <3>2, <1>7
  <2>3. ASSUME NEW i \in 1..Len(q), NEW j \in 1..Len(q), i < j
        PROVE  q[i].time < q[j].time
    <3>1. i \in 1..(Len(q) - 1) /\ i + d \in 1..k /\ q[i] = sentences[i + d]
      BY <2>3, <1>5, <1>6, <1>1
    <3>2. CASE j = Len(q)
      BY <3>1, <3>2, <1>1, <1>2, <1>5, <2>1
    <3>3. CASE j \in 1..(Len(q) - 1)
      <4>1. j + d \in 1..k /\ q[j] = sentences[j + d] /\ i + d < j + d
        BY <3>3, <1>6, <2>3
      <4> QED
        BY <3>1, <4>1 DEF ChainInv, WaitingSentences
    <3> QED
      BY <3>2, <3>3, <1>7
  <2> QED
    BY <2>2, <2>3, <1>4 DEF WaitingSentences, q
<1>11. WaitingPvts'
  <2>1. ASSUME NEW i \in 1..Len(devpvt)
        PROVE  /\ devpvt[i].position \in 1..n /\ MadeOf(devpvt[i], sent[devpvt[i].position])
    BY DEF ChainInv, WaitingPvts
  <2>2. ASSUME NEW i \in 1..Len(devpvt)
        PROVE  /\ devpvt[i].position \in 1..(n + 1)
               /\ sent'[devpvt[i].position] = sent[devpvt[i].position]
    BY <2>1, <1>1, <1>4
  <2>3. ASSUME NEW i \in 1..Len(devpvt), NEW j \in 1..Len(q)
        PROVE  devpvt[i].position < q[j].time
    <3>1. CASE j = Len(q)
      <4>1. q[j].time = n + 1
        BY <3>1, <1>2, <1>5
      <4>2. devpvt[i].position \in 1..n
        BY <2>1
      <4> QED
        BY <4>1, <4>2, <1>1
    <3>2. CASE j \in 1..(Len(q) - 1)
      BY <3>2, <1>6 DEF ChainInv, WaitingPvts
    <3> QED
      BY <3>1, <3>2, <1>7
  <2> QED
    BY <2>1, <2>2, <2>3, <1>3, <1>4 DEF ChainInv, WaitingPvts, q, MadeOf, ToBridge, Pvt
<1>12. PosesFirst' /\ PosesFollowReceiver'
  <2>1. ASSUME NEW i \in 1..Len(poses)
        PROVE  poses[i].position \in 1..n
    BY DEF ChainInv, PosesFirst
  <2>2. ASSUME NEW i \in 1..Len(poses)
        PROVE  /\ poses[i].position \in 1..(n + 1)
               /\ sent'[poses[i].position] = sent[poses[i].position]
    BY <2>1, <1>1, <1>4
  <2>3. ASSUME NEW i \in 1..Len(poses), NEW j \in 1..Len(q)
        PROVE  poses[i].position < q[j].time
    <3>1. CASE j = Len(q)
      BY <3>1, <1>1, <1>2, <1>5, <2>1
    <3>2. CASE j \in 1..(Len(q) - 1)
      BY <3>2, <1>6 DEF ChainInv, PosesFirst
    <3> QED
      BY <3>1, <3>2, <1>7
  <2>4. PosesFirst'
    BY <2>2, <2>3, <1>3, <1>4 DEF ChainInv, PosesFirst, q
  <2>5. PosesFollowReceiver'
    <3>1. \A i \in 1..Len(poses) : Source(poses[i])' = Source(poses[i])
      BY <2>2, <1>3 DEF Source
    <3> QED
      BY <3>1, <1>3 DEF ChainInv, PosesFollowReceiver, Good
  <2> QED
    BY <2>4, <2>5
<1>13. EverySentenceAccounted'
  <2>1. counters["CGI_RECEIVED"] \in Nat
    BY DEF ChainInv, IInv, TypeOK, Metrics
  <2>2. counters["CGI_RECEIVED"] + Len(q) <= n + 1
    BY <2>1, <1>1, <1>5 DEF ChainInv, EverySentenceAccounted
  <2>3. Accounted' /\ Bridge!Accounted'
    BY <1>3 DEF ChainInv, EverySentenceAccounted, Accounted, PvtsUpTo, Bridge!Accounted
  <2> QED
    BY <2>2, <2>3, <1>3, <1>4 DEF ChainInv, EverySentenceAccounted, q
<1>14. IInv'
  BY <1>3 DEF ChainInv, IInv, TypeOK, LastPvtCounts, OneClock, PvtsUpTo
<1> QED
  BY <1>8, <1>9, <1>10, <1>11, <1>12, <1>13, <1>14 DEF ChainInv

-----------------------------------------------------------------------------

\* Counting adds one to each of the metrics named.
LEMMA Counted ==
    ASSUME counters \in [Metrics -> Nat], NEW S, Count(S), NEW m \in Metrics
    PROVE  counters[m] \in Nat /\ counters'[m] = IF m \in S THEN counters[m] + 1 ELSE counters[m]
BY DEF Count

\* A message more is a PVT more if it is one.
LEMMA PvtsCounted ==
    ASSUME TypeOK, NEW p \in PvtMessages \cup ImuMessages, published' = Append(published, p)
    PROVE  LET n == Cardinality(PvtsUpTo(Len(published)))
           IN  /\ n \in Nat
               /\ Cardinality(PvtsUpTo(Len(published))') = IF p.topic = "devpvt" THEN n + 1 ELSE n
<1> DEFINE l == Len(published)
           P == PvtsUpTo(l)
<1>1. published \in Seq(PvtMessages \cup ImuMessages) /\ l \in Nat
  BY LenProperties DEF TypeOK
<1>2. Len(published') = l + 1 /\ published'[l + 1] = p /\ \A i \in 1..l : published'[i] = published[i]
  BY <1>1, AppendProperties
<1>3. IsFiniteSet(P) /\ Cardinality(P) \in Nat /\ l + 1 \notin P
  <2>1. IsFiniteSet(1..l) /\ P \in SUBSET (1..l)
    BY <1>1, FS_Interval DEF PvtsUpTo
  <2> QED
    BY <2>1, <1>1, FS_Subset, FS_CardinalityType
<1>4. PvtsUpTo(l)' = IF p.topic = "devpvt" THEN P \cup {l + 1} ELSE P
  <2>1. \A j : j \in 1..(l + 1) <=> j \in 1..l \/ j = l + 1
    BY <1>1
  <2>2. ASSUME NEW j PROVE j \in PvtsUpTo(l)' <=> (j \in P \/ (j = l + 1 /\ p.topic = "devpvt"))
    BY <2>1, <1>1, <1>2 DEF PvtsUpTo
  <2> QED
    BY <2>2
<1> HIDE DEF P
<1>5. CASE p.topic = "devpvt"
  <2>1. Cardinality(P \cup {l + 1}) = Cardinality(P) + 1
    BY <1>3, FS_AddElement
  <2> QED
    BY <2>1, <1>3, <1>4, <1>5 DEF P
<1>6. CASE p.topic # "devpvt"
  BY <1>3, <1>4, <1>6 DEF P
<1> QED
  BY <1>5, <1>6

\* A sentence is counted once, and only a PVT that goes out to the bridge is
\* counted as published.
LEMMA SentenceHandled ==
    ASSUME IInv, Accounted, NEW s \in Sentences, HcSentence(s)
    PROVE  /\ IInv' /\ Accounted'
           /\ counters'["CGI_RECEIVED"] = counters["CGI_RECEIVED"] + 1
           /\ counters'["PVT_PUBLISHED"] =
                counters["PVT_PUBLISHED"] + IF DealPvt(s) THEN 1 ELSE 0
           /\ DealPvt(s) =>
                published' # published /\ Last(published') = Pvt(s, s.leaps)
           /\ ~DealPvt(s) =>
                published' = published \/ Last(published').topic = "devimu"
<1> DEFINE l == Len(published)
<1>1. counters \in [Metrics -> Nat] /\ published \in Seq(PvtMessages \cup ImuMessages) /\ l \in Nat
  BY LenProperties DEF IInv, TypeOK
<1>2. /\ {"CGI_RECEIVED", "CRC_OK", "CRC_ERRORS", "PVT_PUBLISHED"} \subseteq Metrics
      /\ counters["CGI_RECEIVED"] = counters["CRC_OK"] + counters["CRC_ERRORS"]
      /\ counters["PVT_PUBLISHED"] = Cardinality(PvtsUpTo(l))
  BY DEF Metrics, Accounted
<1>3. IInv'
  BY SilentKeeps, PvtKeeps, ImuKeeps DEF HcSentence
<1>4. CASE CrcError(s)
  <2>1. /\ ~DealPvt(s) /\ published' = published
        /\ Count({"CGI_RECEIVED", "CRC_ERRORS"})
    BY <1>4 DEF CrcError, DealPvt
  <2>2. /\ counters'["CGI_RECEIVED"] = counters["CGI_RECEIVED"] + 1
        /\ counters'["CRC_OK"] = counters["CRC_OK"]
        /\ counters'["CRC_ERRORS"] = counters["CRC_ERRORS"] + 1
        /\ counters'["PVT_PUBLISHED"] = counters["PVT_PUBLISHED"]
    BY <2>1, <1>1, <1>2, Counted
  <2>3. counters["CRC_OK"] \in Nat /\ counters["CRC_ERRORS"] \in Nat /\ counters["PVT_PUBLISHED"] \in Nat
    BY <1>1, <1>2
  <2>4. Accounted'
    BY <2>1, <2>2, <2>3, <1>2 DEF Accounted, PvtsUpTo
  <2> QED
    BY <2>1, <2>2, <2>3, <2>4, <1>3
<1>5. CASE Ignore(s)
  <2>1. /\ ~DealPvt(s) /\ published' = published
        /\ \/ Count({"CGI_RECEIVED", "CRC_OK", "PVT_LENGTH_ERRORS"})
           \/ Count({"CGI_RECEIVED", "CRC_OK"})
    <3>1. ~DealPvt(s) /\ published' = published
      BY <1>5 DEF Ignore, DealPvt
    <3>2. {"CGI_RECEIVED", "CRC_OK"} \cup {"PVT_LENGTH_ERRORS"}
            = {"CGI_RECEIVED", "CRC_OK", "PVT_LENGTH_ERRORS"}
          /\ {"CGI_RECEIVED", "CRC_OK"} \cup {} = {"CGI_RECEIVED", "CRC_OK"}
      OBVIOUS
    <3>3. CASE s.id = "INSPVATZCB"
      BY <1>5, <3>1, <3>2, <3>3 DEF Ignore
    <3>4. CASE s.id # "INSPVATZCB"
      BY <1>5, <3>1, <3>2, <3>4 DEF Ignore
    <3> QED
      BY <3>3, <3>4
  <2>2. /\ counters'["CGI_RECEIVED"] = counters["CGI_RECEIVED"] + 1
        /\ counters'["CRC_OK"] = counters["CRC_OK"] + 1
        /\ counters'["CRC_ERRORS"] = counters["CRC_ERRORS"]
        /\ counters'["PVT_PUBLISHED"] = counters["PVT_PUBLISHED"]
    BY <2>1, <1>1, <1>2, Counted
  <2>3. counters["CRC_OK"] \in Nat /\ counters["CRC_ERRORS"] \in Nat /\ counters["PVT_PUBLISHED"] \in Nat
    BY <1>1, <1>2
  <2>4. Accounted'
    BY <2>1, <2>2, <2>3, <1>2 DEF Accounted, PvtsUpTo
  <2> QED
    BY <2>1, <2>2, <2>3, <2>4, <1>3
<1>6. CASE DealPvt(s)
  <2> DEFINE p == Pvt(s, s.leaps)
  <2>1. /\ published' = Append(published, p)
        /\ Count({"CGI_RECEIVED", "CRC_OK", "PVT_PUBLISHED"})
    BY <1>6 DEF DealPvt
  <2>2. p \in PvtMessages \cup ImuMessages /\ p.topic = "devpvt"
    <3>1. s.leaps \in Leaps /\ s.time \in Times /\ s.fix \in Fixes /\ s.time - s.leaps \in Int
      <4>1. s.leaps \in Leaps /\ s.time \in Times /\ s.fix \in Fixes
        BY DEF Sentences
      <4>2. s.leaps \in Int /\ s.time \in Int
        BY <4>1, NumbersAssumption
      <4> QED
        BY <4>1, <4>2
    <3> QED
      BY <3>1 DEF Pvt, PvtMessages
  <2> HIDE DEF p
  <2>3. /\ counters'["CGI_RECEIVED"] = counters["CGI_RECEIVED"] + 1
        /\ counters'["CRC_OK"] = counters["CRC_OK"] + 1
        /\ counters'["CRC_ERRORS"] = counters["CRC_ERRORS"]
        /\ counters'["PVT_PUBLISHED"] = counters["PVT_PUBLISHED"] + 1
    <3>1. \A m \in Metrics : counters[m] \in Nat
      BY <1>1
    <3>2. \A m \in Metrics : counters'[m] = IF m \in {"CGI_RECEIVED", "CRC_OK", "PVT_PUBLISHED"} THEN counters[m] + 1 ELSE counters[m]
      BY <2>1, <1>1, Counted
    <3> QED
      BY <3>1, <3>2, <1>2
  <2>4. counters["CRC_OK"] \in Nat /\ counters["CRC_ERRORS"] \in Nat
    BY <1>1, <1>2
  <2>5. Cardinality(PvtsUpTo(l)') = Cardinality(PvtsUpTo(l)) + 1
    BY <2>1, <2>2, PvtsCounted DEF IInv
  <2>6. Accounted'
    BY <2>3, <2>4, <2>5, <1>2 DEF Accounted
  <2>7. published' # published /\ Last(published') = p
    BY <2>1, <2>2, <1>1, AppendProperties DEF Last
  <2> QED
    BY <2>3, <2>6, <2>7, <1>3, <1>6 DEF p
<1>7. CASE DealImu(s)
  <2> DEFINE p == Imu(s, gLeaps)
  <2>1. /\ ~DealPvt(s) /\ published' = Append(published, p)
        /\ Count({"CGI_RECEIVED", "CRC_OK"})
    BY <1>7 DEF DealPvt, DealImu
  <2>2. p \in PvtMessages \cup ImuMessages /\ p.topic = "devimu"
    <3>1. gLeaps \in Leaps \cup {DefaultLeaps} /\ s.time \in Times /\ s.time - gLeaps \in Int
      <4>1. gLeaps \in Leaps \cup {DefaultLeaps} /\ s.time \in Times
        BY DEF Sentences, IInv, TypeOK
      <4>2. gLeaps \in Int /\ s.time \in Int
        BY <4>1, NumbersAssumption, DefaultAssumption
      <4> QED
        BY <4>1, <4>2
    <3> QED
      BY <3>1 DEF Imu, ImuMessages
  <2> HIDE DEF p
  <2>3. /\ counters'["CGI_RECEIVED"] = counters["CGI_RECEIVED"] + 1
        /\ counters'["CRC_OK"] = counters["CRC_OK"] + 1
        /\ counters'["CRC_ERRORS"] = counters["CRC_ERRORS"]
        /\ counters'["PVT_PUBLISHED"] = counters["PVT_PUBLISHED"]
    <3>1. \A m \in Metrics : counters[m] \in Nat
      BY <1>1
    <3>2. \A m \in Metrics : counters'[m] = IF m \in {"CGI_RECEIVED", "CRC_OK"} THEN counters[m] + 1 ELSE counters[m]
      BY <2>1, <1>1, Counted
    <3> QED
      BY <3>1, <3>2, <1>2
  <2>4. counters["CRC_OK"] \in Nat /\ counters["CRC_ERRORS"] \in Nat /\ counters["PVT_PUBLISHED"] \in Nat
    BY <1>1, <1>2
  <2>5. Cardinality(PvtsUpTo(l)') = Cardinality(PvtsUpTo(l))
    BY <2>1, <2>2, PvtsCounted DEF IInv
  <2>6. Accounted'
    BY <2>3, <2>4, <2>5, <1>2 DEF Accounted
  <2>7. Last(published') = p
    BY <2>1, <2>2, <1>1, AppendProperties DEF Last
  <2> QED
    BY <2>1, <2>2, <2>3, <2>4, <2>6, <2>7, <1>3
<1> QED
  BY <1>4, <1>5, <1>6, <1>7 DEF HcSentence

-----------------------------------------------------------------------------

\* What leaves a queue is its oldest; the others move up.
LEMMA TakenProperties ==
    ASSUME NEW S, NEW q \in Seq(S), q # <<>>
    PROVE  /\ q[1] = Head(q) /\ Head(q) \in S /\ 1 \in 1..Len(q)
           /\ Tail(q) \in Seq(S) /\ Len(Tail(q)) = Len(q) - 1 /\ Len(q) \in Nat \ {0}
           /\ \A i \in 1..Len(Tail(q)) : i + 1 \in 1..Len(q) /\ i + 1 > 1 /\ Tail(q)[i] = q[i + 1]
<1>1. Len(q) \in Nat \ {0}
  BY EmptySeq, LenProperties
<1>2. q[1] = Head(q)
  BY <1>1
<1> QED
  BY <1>1, <1>2, HeadTailProperties

\* The process node takes the oldest sentence that waits.
LEMMA SentenceTaken ==
    ASSUME ChainInv, TakeSentence, NEW s, s = Head(sentences)
    PROVE  /\ s \in Sentences /\ HcSentence(s)
           /\ s.time \in 1..Len(sent) /\ s = sent[s.time] /\ s.fix.position = s.time
           /\ \A i \in 1..Len(devpvt) : devpvt[i].position < s.time
           /\ \A i \in 1..Len(poses) : poses[i].position < s.time
           /\ UNCHANGED <<sent, origin, originReady, radiiAt, poses, bridgeCounters>>
           /\ sentences' \in Seq(Sentences) /\ Len(sentences') = Len(sentences) - 1
           /\ Len(sentences) \in Nat
           /\ \A j \in 1..Len(sentences') :
                /\ j + 1 \in 1..Len(sentences) /\ sentences'[j] = sentences[j + 1]
                /\ s.time < sentences'[j].time
           /\ WaitingSentences'
<1> DEFINE q == sentences'
<1>1. sentences # <<>> /\ q = Tail(sentences) /\ sentences \in Seq(Sentences)
  BY DEF TakeSentence, ChainInv, ChainTypeOK
<1>2. /\ sentences[1] = s /\ s \in Sentences /\ 1 \in 1..Len(sentences)
      /\ q \in Seq(Sentences) /\ Len(q) = Len(sentences) - 1 /\ Len(sentences) \in Nat
      /\ \A j \in 1..Len(q) :
            j + 1 \in 1..Len(sentences) /\ j + 1 > 1 /\ q[j] = sentences[j + 1]
  BY <1>1, TakenProperties
<1>3. HcSentence(s) /\ UNCHANGED <<sent, origin, originReady, radiiAt, poses, bridgeCounters>>
  BY DEF TakeSentence, Handle, bridge
<1>4. s.time \in 1..Len(sent) /\ s = sent[s.time]
  BY <1>2 DEF ChainInv, WaitingSentences
<1>5. s.fix.position = s.time
  BY <1>4 DEF ChainInv, Numbered
<1>6. /\ \A i \in 1..Len(devpvt) : devpvt[i].position < s.time
      /\ \A i \in 1..Len(poses) : poses[i].position < s.time
  BY <1>2 DEF ChainInv, WaitingPvts, PosesFirst
<1> HIDE DEF q
<1>7. \A j \in 1..Len(q) : s.time < q[j].time
  BY <1>2 DEF ChainInv, WaitingSentences
<1>8. WaitingSentences'
  <2>1. ASSUME NEW i \in 1..Len(q)
        PROVE  q[i].time \in 1..Len(sent) /\ q[i] = sent[q[i].time]
    BY <1>2 DEF ChainInv, WaitingSentences
  <2>2. ASSUME NEW i \in 1..Len(q), NEW j \in 1..Len(q), i < j
        PROVE  q[i].time < q[j].time
    <3>1. /\ i + 1 \in 1..Len(sentences) /\ j + 1 \in 1..Len(sentences) /\ i + 1 < j + 1
          /\ q[i] = sentences[i + 1] /\ q[j] = sentences[j + 1]
      BY <1>2, <2>2
    <3> QED
      BY <3>1 DEF ChainInv, WaitingSentences
  <2> QED
    BY <2>1, <2>2, <1>3 DEF WaitingSentences, q
<1> QED
  BY <1>2, <1>3, <1>4, <1>5, <1>6, <1>7, <1>8 DEF q

\* A PVT goes out to the bridge's queue and is the last there; what else is
\* handled leaves nothing for the bridge.
LEMMA TakeSentenceKeeps ==
    ASSUME ChainInv, TakeSentence
    PROVE  ChainInv'
<1> DEFINE s == Head(sentences)
           q == devpvt'
           n == Len(sent)
           k == Len(devpvt)
           m == ToBridge(Pvt(s, s.leaps))
           d == k + 1 - Len(q)
<1>1. /\ s \in Sentences /\ HcSentence(s)
      /\ s.time \in 1..n /\ s = sent[s.time] /\ s.fix.position = s.time
      /\ \A i \in 1..k : devpvt[i].position < s.time
      /\ \A i \in 1..Len(poses) : poses[i].position < s.time
      /\ UNCHANGED <<sent, origin, originReady, radiiAt, poses, bridgeCounters>>
      /\ sentences' \in Seq(Sentences) /\ Len(sentences') = Len(sentences) - 1
      /\ Len(sentences) \in Nat
      /\ \A j \in 1..Len(sentences') :
           /\ j + 1 \in 1..Len(sentences) /\ sentences'[j] = sentences[j + 1]
           /\ s.time < sentences'[j].time
      /\ WaitingSentences'
  BY SentenceTaken
<1>2. /\ IInv' /\ Accounted'
      /\ counters'["CGI_RECEIVED"] = counters["CGI_RECEIVED"] + 1
      /\ counters'["PVT_PUBLISHED"] = counters["PVT_PUBLISHED"] + IF DealPvt(s) THEN 1 ELSE 0
      /\ DealPvt(s) => published' # published /\ Last(published') = Pvt(s, s.leaps)
      /\ ~DealPvt(s) => published' = published \/ Last(published').topic = "devimu"
  BY <1>1, SentenceHandled DEF ChainInv, EverySentenceAccounted
<1>3. q = IF published' # published /\ Last(published').topic = "devpvt"
          THEN KeepLast(devpvt, ToBridge(Last(published')), PvtDepth)
          ELSE devpvt
  BY DEF TakeSentence, Handle
<1>4. /\ k \in Nat /\ devpvt \in Seq(Bridge!Pvts) /\ k <= PvtDepth
      /\ sent \in Seq(Sentences) /\ n \in Nat /\ n <= MaxSentences
      /\ Len(sentences) <= SentenceDepth /\ SentenceDepth \in Nat
      /\ PvtDepth \in Nat \ {0}
  BY LenProperties, DepthAssumption DEF ChainInv, ChainTypeOK
<1> HIDE DEF q, s
<1>5. ~DealPvt(s) => q = devpvt
  BY <1>2, <1>3
<1>6. DealPvt(s) => q = KeepLast(devpvt, m, PvtDepth)
  <2>1. Pvt(s, s.leaps).topic = "devpvt"
    BY DEF Pvt
  <2> QED
    BY <2>1, <1>2, <1>3
<1>7. DealPvt(s) => m \in Bridge!Pvts /\ m.position = s.time /\ MadeOf(m, s)
  <2>1. /\ s.fix \in ChainFixes /\ s.time \in Times /\ s.leaps \in Leaps
    BY <1>1, FixesAssumption DEF Sentences
  <2>2. s.time \in Int /\ s.leaps \in Int
    BY <2>1, NumbersAssumption
  <2>3. s.time - s.leaps \in Int
    BY <2>2
  <2>4. /\ s.fix.status \in {0, 4} /\ s.fix.position \in ChainTimes
        /\ s.fix.finite \in BOOLEAN /\ s.fix.stdevs \in BOOLEAN
    BY <2>1 DEF ChainFixes
  <2>5. m = [stamp |-> s.time - s.leaps, status |-> s.fix.status, position |-> s.fix.position,
             finite |-> s.fix.finite, stdevs |-> s.fix.stdevs]
    BY DEF ToBridge, Pvt
  <2>6. m \in Bridge!Pvts /\ m.position = s.time
    BY <2>3, <2>4, <2>5, <1>1 DEF Bridge!Pvts
  <2>7. DealPvt(s) => s.id = "INSPVATZCB" /\ s.size = 296 /\ s.intact
    BY DEF DealPvt, WellSized, Sizes
  <2> QED
    BY <2>6, <2>7 DEF MadeOf
<1> HIDE DEF m
<1>8. /\ q \in Seq(Bridge!Pvts) /\ Len(q) <= PvtDepth
      /\ Len(q) \in 0..(k + 1) /\ Len(q) <= k + IF DealPvt(s) THEN 1 ELSE 0
      /\ \A i \in 1..Len(q) :
            \/ DealPvt(s) /\ i = Len(q) /\ q[i] = m
            \/ d \in Nat /\ i + d \in 1..k /\ q[i] = devpvt[i + d]
            \/ ~DealPvt(s) /\ i \in 1..k /\ q[i] = devpvt[i]
  <2>1. CASE DealPvt(s)
    <3>1. q = KeepLast(devpvt, m, PvtDepth) /\ m \in Bridge!Pvts
      BY <2>1, <1>6, <1>7
    <3>2. devpvt \in Seq(Bridge!Pvts) /\ k <= PvtDepth /\ PvtDepth \in Nat \ {0}
      BY <1>4
    <3>3. /\ q \in Seq(Bridge!Pvts) /\ Len(q) <= PvtDepth
          /\ Len(q) \in 1..(k + 1) /\ q[Len(q)] = m
          /\ d \in Nat /\ \A i \in 1..(Len(q) - 1) : i + d \in 1..k /\ q[i] = devpvt[i + d]
      <4> DEFINE B == Bridge!Pvts
      <4>1. m \in B /\ devpvt \in Seq(B) /\ Len(devpvt) <= PvtDepth /\ PvtDepth \in Nat \ {0}
        BY <3>1, <3>2
      <4>2. q = KeepLast(devpvt, m, PvtDepth)
        BY <3>1
      <4> HIDE DEF B
      <4>3. /\ q \in Seq(B) /\ Len(q) <= PvtDepth
            /\ Len(q) \in 1..(Len(devpvt) + 1) /\ q[Len(q)] = m
        BY <4>1, <4>2, KeepLastProperties
      <4>4. Len(devpvt) + 1 - Len(q) \in Nat
        BY <4>1, <4>2, KeepLastProperties
      <4>5. \A i \in 1..(Len(q) - 1) :
                i + (Len(devpvt) + 1 - Len(q)) \in 1..Len(devpvt)
                /\ q[i] = devpvt[i + (Len(devpvt) + 1 - Len(q))]
        BY <4>1, <4>2, KeepLastProperties
      <4> QED
        BY <4>3, <4>4, <4>5 DEF B
    <3>4. \A i \in 1..Len(q) : i = Len(q) \/ i \in 1..(Len(q) - 1)
      BY <3>3, <1>4
    <3> HIDE DEF d
    <3> QED
      BY <3>3, <3>4, <2>1, <1>4
  <2>2. CASE ~DealPvt(s)
    BY <2>2, <1>4, <1>5
  <2> QED
    BY <2>1, <2>2
<1> HIDE DEF d
<1>9. q \in Seq(Bridge!Pvts) => Len(q) \in Nat
  BY LenProperties
<1>10. ChainTypeOK'
  BY <1>1, <1>4, <1>8
  DEF ChainInv, ChainTypeOK, q, Bridge!Pvts, Bridge!Poses, Bridge!Metrics, ChainTimes
<1>11. Numbered'
  BY <1>1 DEF ChainInv, Numbered
<1>12. ASSUME NEW i \in 1..Len(q)
       PROVE  /\ q[i].position \in 1..n /\ MadeOf(q[i], sent[q[i].position])
              /\ q[i].position <= s.time
              /\ i < Len(q) \/ ~DealPvt(s) => q[i].position < s.time
  <2>1. \A j \in 1..k : /\ devpvt[j].position \in 1..n /\ MadeOf(devpvt[j], sent[devpvt[j].position])
                        /\ devpvt[j].position < s.time
    BY <1>1 DEF ChainInv, WaitingPvts
  <2>2. CASE DealPvt(s) /\ i = Len(q) /\ q[i] = m
    BY <2>2, <1>1, <1>4, <1>7, <1>8, <1>9
  <2>3. ASSUME NEW j \in 1..k, q[i] = devpvt[j]
        PROVE  /\ q[i].position \in 1..n /\ MadeOf(q[i], sent[q[i].position])
               /\ q[i].position < s.time
    BY <2>1, <2>3
  <2>4. s.time \in Nat
    BY <1>1, <1>4
  <2>5. CASE \E j \in 1..k : q[i] = devpvt[j]
    BY <2>3, <2>4, <2>5
  <2> QED
    BY <2>2, <2>5, <1>8
<1>13. ASSUME NEW i \in 1..Len(q), NEW j \in 1..Len(q), i < j
       PROVE  q[i].position < q[j].position
  <2>1. i < Len(q)
    BY <1>13, <1>8, <1>9
  <2>2. q[i].position < s.time
    BY <2>1, <1>12
  <2>3. CASE DealPvt(s) /\ j = Len(q) /\ q[j] = m
    BY <2>2, <2>3, <1>7
  <2>4. CASE d \in Nat /\ j + d \in 1..k /\ q[j] = devpvt[j + d] /\ DealPvt(s)
    <3>1. i + d \in 1..k /\ q[i] = devpvt[i + d]
      BY <2>1, <2>4, <1>8
    <3> QED
      BY <3>1, <2>4, <1>13 DEF ChainInv, WaitingPvts
  <2>5. CASE ~DealPvt(s)
    BY <2>5, <1>5, <1>13 DEF ChainInv, WaitingPvts
  <2> QED
    BY <2>3, <2>4, <2>5, <1>8
<1>14. WaitingPvts'
  <2>1. ASSUME NEW i \in 1..Len(q), NEW j \in 1..Len(sentences')
        PROVE  q[i].position < sentences'[j].time
    <3>1. /\ q[i].position \in Nat /\ q[i].position <= s.time /\ s.time \in Nat
          /\ s.time < sentences'[j].time
      <4>1. q[i].position \in 1..n /\ q[i].position <= s.time
        BY <1>12
      <4>2. s.time \in 1..n /\ s.time < sentences'[j].time
        BY <1>1
      <4> QED
        BY <4>1, <4>2, <1>4
    <3>2. sentences'[j].time \in 1..n
      BY <1>1 DEF WaitingSentences
    <3> QED
      BY <3>1, <3>2, <1>4
  <2> QED
    BY <2>1, <1>1, <1>12, <1>13 DEF WaitingPvts, q, MadeOf, ToBridge, Pvt
<1>15. PosesFirst' /\ PosesFollowReceiver'
  <2>1. ASSUME NEW i \in 1..Len(poses)
        PROVE  /\ poses[i].position \in 1..n
               /\ \A j \in 1..Len(q) : poses[i].position < q[j].position
               /\ \A j \in 1..Len(sentences') : poses[i].position < sentences'[j].time
    <3>1. poses[i].position \in 1..n
      BY DEF ChainInv, PosesFirst
    <3>2. \A j \in 1..Len(q) : poses[i].position < q[j].position
      BY <1>1, <1>7, <1>8 DEF ChainInv, PosesFirst
    <3>3. \A j \in 1..Len(sentences') : poses[i].position < sentences'[j].time
      BY <1>1 DEF ChainInv, PosesFirst
    <3> QED
      BY <3>1, <3>2, <3>3
  <2>2. PosesFirst'
    BY <2>1, <1>1 DEF PosesFirst, q
  <2>3. PosesFollowReceiver'
    BY <1>1 DEF ChainInv, PosesFollowReceiver, Source, Good
  <2> QED
    BY <2>2, <2>3
<1>16. EverySentenceAccounted'
  <2>1. counters["CGI_RECEIVED"] \in Nat /\ counters["PVT_PUBLISHED"] \in Nat
        /\ bridgeCounters["PVT_RECEIVED"] \in Nat
    BY DEF ChainInv, IInv, ChainTypeOK, TypeOK, Metrics, Bridge!Metrics
  <2>2. counters'["CGI_RECEIVED"] + Len(sentences') <= Len(sent)
    BY <2>1, <1>1, <1>2, <1>4 DEF ChainInv, EverySentenceAccounted
  <2>3. bridgeCounters["PVT_RECEIVED"] + Len(q) <= counters'["PVT_PUBLISHED"]
    BY <2>1, <1>2, <1>4, <1>8 DEF ChainInv, EverySentenceAccounted
  <2>4. Bridge!Accounted'
    BY <1>1 DEF ChainInv, EverySentenceAccounted, Bridge!Accounted
  <2> QED
    BY <2>2, <2>3, <2>4, <1>1, <1>2 DEF EverySentenceAccounted, q
<1> QED
  BY <1>1, <1>2, <1>10, <1>11, <1>14, <1>15, <1>16 DEF ChainInv

-----------------------------------------------------------------------------

\* The bridge counts a message once, and may append one pose, of that message.
LEMMA BridgeHandled ==
    ASSUME ChainTypeOK, Bridge!Accounted, NEW m \in Bridge!Pvts, Bridge!OnDevpvt(m)
    PROVE  /\ Bridge!Accounted'
           /\ bridgeCounters' \in [Bridge!Metrics -> Nat]
           /\ bridgeCounters'["PVT_RECEIVED"] = bridgeCounters["PVT_RECEIVED"] + 1
           /\ originReady' \in BOOLEAN
           /\ originReady' => origin' \in ChainTimes /\ radiiAt' \in ChainTimes
           /\ \/ poses' = poses
              \/ m.finite /\ \E p \in Bridge!Poses :
                   /\ p.position = m.position /\ p.stamp = m.stamp /\ p.status = m.status
                   /\ poses' = Append(poses, p)
<1> DEFINE C == bridgeCounters
<1>1. /\ C \in [Bridge!Metrics -> Nat] /\ poses \in Seq(Bridge!Poses) /\ Len(poses) \in Nat
      /\ originReady \in BOOLEAN
      /\ originReady => origin \in ChainTimes /\ radiiAt \in ChainTimes
  BY LenProperties DEF ChainTypeOK
<1>2. /\ C["PVT_RECEIVED"] =
           C["GNSS_REJECTED"] + C["NONFINITE_REJECTED"] + C["STDEV_REJECTED"] + C["ODOMETRY_PUBLISHED"]
      /\ C["ODOMETRY_PUBLISHED"] = Len(poses)
  BY DEF Bridge!Accounted
<1>3. /\ C["PVT_RECEIVED"] \in Nat /\ C["GNSS_REJECTED"] \in Nat /\ C["NONFINITE_REJECTED"] \in Nat
      /\ C["STDEV_REJECTED"] \in Nat /\ C["ODOMETRY_PUBLISHED"] \in Nat
  BY <1>1 DEF Bridge!Metrics
<1>4. CASE Bridge!GnssReject(m) \/ Bridge!NonfiniteReject(m) \/ Bridge!StdevReject(m)
  <2>1. UNCHANGED <<origin, originReady, radiiAt, poses>>
    BY <1>4 DEF Bridge!GnssReject, Bridge!NonfiniteReject, Bridge!StdevReject, Bridge!frame
  <2>2. C' \in [Bridge!Metrics -> Nat]
    BY <1>1, <1>4 DEF Bridge!GnssReject, Bridge!NonfiniteReject, Bridge!StdevReject, Bridge!Count
  <2>3. /\ C'["PVT_RECEIVED"] = C["PVT_RECEIVED"] + 1
        /\ C'["ODOMETRY_PUBLISHED"] = C["ODOMETRY_PUBLISHED"]
        /\ C'["GNSS_REJECTED"] + C'["NONFINITE_REJECTED"] + C'["STDEV_REJECTED"]
             = C["GNSS_REJECTED"] + C["NONFINITE_REJECTED"] + C["STDEV_REJECTED"] + 1
    <3>1. CASE Bridge!GnssReject(m)
      BY <1>3, <3>1 DEF Bridge!GnssReject, Bridge!Count, Bridge!Metrics
    <3>2. CASE Bridge!NonfiniteReject(m)
      BY <1>3, <3>2 DEF Bridge!NonfiniteReject, Bridge!Count, Bridge!Metrics
    <3>3. CASE Bridge!StdevReject(m)
      BY <1>3, <3>3 DEF Bridge!StdevReject, Bridge!Count, Bridge!Metrics
    <3> QED
      BY <1>4, <3>1, <3>2, <3>3
  <2>4. Bridge!Accounted'
    BY <2>1, <2>3, <1>2, <1>3 DEF Bridge!Accounted
  <2> QED
    BY <2>1, <2>2, <2>3, <2>4, <1>1
<1>5. CASE Bridge!Publish(m)
  <2> DEFINE p == [stamp |-> m.stamp, status |-> m.status, position |-> m.position,
                   offset |-> m.position - origin', radii |-> radiiAt']
  <2>1. m.stamp \in Int /\ m.status \in {0, 4} /\ m.position \in ChainTimes
    BY DEF Bridge!Pvts
  <2>2. /\ originReady' \in BOOLEAN
        /\ origin' \in ChainTimes /\ radiiAt' \in ChainTimes
    <3>1. CASE originReady
      BY <3>1, <1>1, <1>5 DEF Bridge!Publish, Bridge!frame
    <3>2. CASE ~originReady
      BY <3>2, <1>5, <2>1 DEF Bridge!Publish, Bridge!FixOrigin
    <3> QED
      BY <3>1, <3>2
  <2>3. p \in Bridge!Poses
    <3>1. m.position - origin' \in Int /\ radiiAt' \in Int
      BY <2>1, <2>2 DEF ChainTimes
    <3> QED
      BY <2>1, <3>1 DEF Bridge!Poses
  <2>4. /\ m.finite /\ poses' = Append(poses, p)
    BY <1>5 DEF Bridge!Publish
  <2>5. p.position = m.position /\ p.stamp = m.stamp /\ p.status = m.status
    OBVIOUS
  <2> HIDE DEF p
  <2>6. Len(poses') = Len(poses) + 1
    BY <2>3, <2>4, <1>1, AppendProperties
  <2>7. C' \in [Bridge!Metrics -> Nat]
    BY <1>1, <1>5 DEF Bridge!Publish, Bridge!Count
  <2>8. /\ C'["PVT_RECEIVED"] = C["PVT_RECEIVED"] + 1
        /\ C'["ODOMETRY_PUBLISHED"] = C["ODOMETRY_PUBLISHED"] + 1
        /\ C'["GNSS_REJECTED"] = C["GNSS_REJECTED"]
        /\ C'["NONFINITE_REJECTED"] = C["NONFINITE_REJECTED"]
        /\ C'["STDEV_REJECTED"] = C["STDEV_REJECTED"]
    BY <1>3, <1>5 DEF Bridge!Publish, Bridge!Count, Bridge!Metrics
  <2>9. Bridge!Accounted'
    BY <2>6, <2>8, <1>2, <1>3 DEF Bridge!Accounted
  <2> QED
    BY <2>2, <2>3, <2>4, <2>5, <2>7, <2>8, <2>9
<1> QED
  BY <1>4, <1>5 DEF Bridge!OnDevpvt

\* A pose is of the oldest PVT that waits, and so after every earlier pose.
LEMMA TakePvtKeeps ==
    ASSUME ChainInv, TakePvt
    PROVE  ChainInv'
<1> DEFINE m == Head(devpvt)
           q == devpvt'
           l == Len(poses)
<1>1. /\ devpvt \in Seq(Bridge!Pvts) /\ poses \in Seq(Bridge!Poses) /\ l \in Nat
      /\ devpvt # <<>> /\ q = Tail(devpvt) /\ Bridge!OnDevpvt(m)
      /\ UNCHANGED <<sent, sentences, gLeaps, published, counters>>
  BY LenProperties DEF TakePvt, ChainInv, ChainTypeOK, vars
<1>2. /\ devpvt[1] = m /\ m \in Bridge!Pvts /\ 1 \in 1..Len(devpvt)
      /\ q \in Seq(Bridge!Pvts) /\ Len(q) = Len(devpvt) - 1 /\ Len(devpvt) \in Nat
      /\ \A i \in 1..Len(q) : i + 1 \in 1..Len(devpvt) /\ i + 1 > 1 /\ q[i] = devpvt[i + 1]
  <2>1. /\ devpvt[1] = Head(devpvt) /\ 1 \in 1..Len(devpvt)
        /\ Head(devpvt) \in Bridge!Pvts
        /\ Len(Tail(devpvt)) = Len(devpvt) - 1 /\ Len(devpvt) \in Nat \ {0}
    BY <1>1, TakenProperties
  <2>2. Tail(devpvt) \in Seq(Bridge!Pvts)
    BY <1>1, TakenProperties
  <2>3. \A i \in 1..Len(Tail(devpvt)) :
          i + 1 \in 1..Len(devpvt) /\ i + 1 > 1 /\ Tail(devpvt)[i] = devpvt[i + 1]
    BY <1>1, TakenProperties
  <2> QED
    BY <1>1, <2>1, <2>2, <2>3
<1>3. /\ Bridge!Accounted'
      /\ bridgeCounters' \in [Bridge!Metrics -> Nat]
      /\ bridgeCounters'["PVT_RECEIVED"] = bridgeCounters["PVT_RECEIVED"] + 1
      /\ originReady' \in BOOLEAN
      /\ originReady' => origin' \in ChainTimes /\ radiiAt' \in ChainTimes
      /\ \/ poses' = poses
         \/ m.finite /\ \E p \in Bridge!Poses :
              /\ p.position = m.position /\ p.stamp = m.stamp /\ p.status = m.status
              /\ poses' = Append(poses, p)
  BY <1>1, <1>2, BridgeHandled DEF ChainInv, EverySentenceAccounted
<1>4. /\ m.position \in 1..Len(sent) /\ MadeOf(m, sent[m.position])
      /\ \A i \in 1..Len(sentences) : m.position < sentences[i].time
      /\ \A i \in 1..l : poses[i].position < m.position
  BY <1>2 DEF ChainInv, WaitingPvts, PosesFirst
<1> HIDE DEF q, m
<1>5. \A i \in 1..Len(q) :
        /\ m.position < q[i].position
        /\ q[i].position \in 1..Len(sent) /\ MadeOf(q[i], sent[q[i].position])
        /\ \A j \in 1..Len(sentences) : q[i].position < sentences[j].time
  BY <1>2 DEF ChainInv, WaitingPvts
<1>6. WaitingPvts'
  <2>1. ASSUME NEW i \in 1..Len(q), NEW j \in 1..Len(q), i < j
        PROVE  q[i].position < q[j].position
    <3>1. i + 1 < j + 1
      BY <2>1, <1>2
    <3> QED
      BY <3>1, <1>2 DEF ChainInv, WaitingPvts
  <2> QED
    BY <2>1, <1>1, <1>5 DEF WaitingPvts, q, MadeOf, ToBridge, Pvt
<1>7. /\ poses' \in Seq(Bridge!Poses) /\ Len(poses') \in Nat
      /\ \A i \in 1..Len(poses') :
           \/ i \in 1..l /\ poses'[i] = poses[i]
           \/ /\ i = l + 1 /\ Len(poses') = l + 1 /\ m.finite
              /\ poses'[i].position = m.position /\ poses'[i].stamp = m.stamp
              /\ poses'[i].status = m.status
  <2>1. CASE poses' = poses
    BY <2>1, <1>1
  <2>2. CASE m.finite /\ \E p \in Bridge!Poses :
              /\ p.position = m.position /\ p.stamp = m.stamp /\ p.status = m.status
              /\ poses' = Append(poses, p)
    <3>1. PICK p \in Bridge!Poses :
              /\ p.position = m.position /\ p.stamp = m.stamp /\ p.status = m.status
              /\ poses' = Append(poses, p)
      BY <2>2
    <3>2. /\ poses' \in Seq(Bridge!Poses) /\ Len(poses') = l + 1
          /\ \A i \in 1..l : poses'[i] = poses[i]
          /\ poses'[l + 1] = p
      BY <3>1, <1>1, AppendProperties
    <3> QED
      BY <3>1, <3>2, <2>2, <1>1
  <2> QED
    BY <2>1, <2>2, <1>3
<1>8. ASSUME NEW i \in 1..Len(poses')
      PROVE  /\ poses'[i].position \in 1..Len(sent)
             /\ \A j \in 1..Len(q) : poses'[i].position < q[j].position
             /\ \A j \in 1..Len(sentences) : poses'[i].position < sentences[j].time
             /\ LET s == sent[poses'[i].position]
                IN  Good(s) /\ poses'[i].stamp = s.time - s.leaps /\ poses'[i].status = s.fix.status
  <2>1. CASE i \in 1..l /\ poses'[i] = poses[i]
    <3>1. /\ poses[i].position \in 1..Len(sent)
          /\ \A j \in 1..Len(sentences) : poses[i].position < sentences[j].time
      BY <2>1 DEF ChainInv, PosesFirst
    <3>2. \A j \in 1..Len(q) : poses[i].position < q[j].position
      BY <2>1, <1>2 DEF ChainInv, PosesFirst
    <3>3. LET s == sent[poses[i].position]
          IN  Good(s) /\ poses[i].stamp = s.time - s.leaps /\ poses[i].status = s.fix.status
      BY <2>1 DEF ChainInv, PosesFollowReceiver, Source
    <3> QED
      BY <2>1, <3>1, <3>2, <3>3
  <2>2. CASE /\ m.finite
             /\ poses'[i].position = m.position /\ poses'[i].stamp = m.stamp
             /\ poses'[i].status = m.status
    <3> DEFINE s == sent[m.position]
    <3>1. /\ s.id = "INSPVATZCB" /\ s.size = 296 /\ s.intact
          /\ m = ToBridge(Pvt(s, s.leaps))
      BY <1>4 DEF MadeOf
    <3> HIDE DEF s
    <3>2. m.finite = s.fix.finite /\ m.stamp = s.time - s.leaps /\ m.status = s.fix.status
      BY <3>1 DEF ToBridge, Pvt
    <3>3. Good(s)
      BY <3>1, <3>2, <2>2 DEF Good
    <3> QED
      BY <3>2, <3>3, <2>2, <1>4, <1>5 DEF s
  <2> QED
    BY <2>1, <2>2, <1>7
<1>9. ASSUME NEW i \in 1..Len(poses'), NEW j \in 1..Len(poses'), i < j
      PROVE  poses'[i].position < poses'[j].position
  <2>1. i \in 1..l /\ poses'[i] = poses[i]
    BY <1>7, <1>9, <1>1
  <2>2. CASE j \in 1..l /\ poses'[j] = poses[j]
    BY <2>1, <2>2, <1>9 DEF ChainInv, PosesFollowReceiver
  <2>3. CASE poses'[j].position = m.position
    BY <2>1, <2>3, <1>4
  <2> QED
    BY <2>2, <2>3, <1>7
<1>10. PosesFirst' /\ PosesFollowReceiver'
  <2>1. PosesFirst'
    BY <1>1, <1>8 DEF PosesFirst, q
  <2>2. PosesFollowReceiver'
    BY <1>1, <1>8, <1>9 DEF PosesFollowReceiver, Source, Good
  <2> QED
    BY <2>1, <2>2
<1>11. ChainTypeOK'
  <2>1. Len(q) <= PvtDepth
    BY <1>2, DepthAssumption DEF ChainInv, ChainTypeOK
  <2> QED
    BY <2>1, <1>1, <1>2, <1>3, <1>7
    DEF ChainInv, ChainTypeOK, q, Bridge!Pvts, Bridge!Poses, Bridge!Metrics, ChainTimes
<1>12. EverySentenceAccounted'
  <2>1. counters["PVT_PUBLISHED"] \in Nat /\ bridgeCounters["PVT_RECEIVED"] \in Nat
    BY DEF ChainInv, IInv, ChainTypeOK, TypeOK, Metrics, Bridge!Metrics
  <2>2. bridgeCounters'["PVT_RECEIVED"] + Len(q) <= counters["PVT_PUBLISHED"]
    BY <2>1, <1>2, <1>3 DEF ChainInv, EverySentenceAccounted
  <2>3. Accounted'
    BY <1>1 DEF ChainInv, EverySentenceAccounted, Accounted, PvtsUpTo
  <2> QED
    BY <2>2, <2>3, <1>1, <1>3 DEF ChainInv, EverySentenceAccounted, q
<1>13. IInv' /\ Numbered' /\ WaitingSentences'
  BY <1>1 DEF ChainInv, IInv, TypeOK, LastPvtCounts, OneClock, PvtsUpTo, Numbered, WaitingSentences
<1> QED
  BY <1>6, <1>10, <1>11, <1>12, <1>13 DEF ChainInv

\* The invariant holds in every state of the chain.
THEOREM ChainInvariance == ChainSpec => []ChainInv
<1>1. ChainInit => ChainInv
  <2> SUFFICES ASSUME ChainInit PROVE ChainInv
    OBVIOUS
  <2>1. /\ sent = <<>> /\ sentences = <<>> /\ devpvt = <<>> /\ poses = <<>> /\ published = <<>>
        /\ originReady = FALSE /\ gLeaps = DefaultLeaps
        /\ counters = [m \in Metrics |-> 0] /\ bridgeCounters = [m \in Bridge!Metrics |-> 0]
    BY DEF ChainInit, Init, Bridge!Init
  <2>2. ChainTypeOK
    <3>1. /\ \A S : <<>> \in Seq(S)
          /\ Len(sent) = 0 /\ Len(sentences) = 0 /\ Len(devpvt) = 0
      BY <2>1, EmptySeq
    <3>2. bridgeCounters \in [Bridge!Metrics -> Nat]
      BY <2>1
    <3>3. sent \in Seq(Sentences) /\ sentences \in Seq(Sentences)
          /\ devpvt \in Seq(Bridge!Pvts) /\ poses \in Seq(Bridge!Poses)
      BY <2>1, <3>1
    <3>4. Len(sent) <= MaxSentences /\ Len(sentences) <= SentenceDepth /\ Len(devpvt) <= PvtDepth
      BY <3>1, BoundAssumption, DepthAssumption
    <3>5. originReady \in BOOLEAN /\ ~originReady
      BY <2>1
    <3> QED
      BY <3>2, <3>3, <3>4, <3>5, Zenon DEF ChainTypeOK
  <2>3. IInv
    <3>1. TypeOK
      BY <2>1 DEF TypeOK
    <3> QED
      BY <2>1, <3>1 DEF IInv, LastPvtCounts, OneClock, PvtsUpTo
  <2>4. Numbered /\ WaitingSentences /\ WaitingPvts /\ PosesFirst /\ PosesFollowReceiver
    BY <2>1 DEF Numbered, WaitingSentences, WaitingPvts, PosesFirst, PosesFollowReceiver
  <2>5. EverySentenceAccounted
    <3>1. PvtsUpTo(Len(published)) = {} /\ Len(sent) = 0 /\ Len(sentences) = 0
          /\ Len(devpvt) = 0 /\ Len(poses) = 0
      BY <2>1 DEF PvtsUpTo
    <3>2. Cardinality(PvtsUpTo(Len(published))) = 0
      BY <3>1, FS_EmptySet
    <3>3. Accounted
      BY <2>1, <3>2 DEF Accounted, Metrics
    <3>4. Bridge!Accounted
      BY <2>1, <3>1 DEF Bridge!Accounted, Bridge!Metrics
    <3> QED
      BY <2>1, <3>1, <3>3, <3>4 DEF EverySentenceAccounted, Metrics, Bridge!Metrics
  <2> QED
    BY <2>2, <2>3, <2>4, <2>5 DEF ChainInv
<1>2. ChainInv /\ [ChainNext]_chainVars => ChainInv'
  <2> SUFFICES ASSUME ChainInv, [ChainNext]_chainVars PROVE ChainInv'
    OBVIOUS
  <2>1. CASE ChainNext
    BY <2>1, SendKeeps, TakeSentenceKeeps, TakePvtKeeps DEF ChainNext
  <2>2. CASE UNCHANGED chainVars
    <3>1. UNCHANGED <<sent, sentences, devpvt, gLeaps, published, counters>>
          /\ UNCHANGED <<origin, originReady, radiiAt, poses, bridgeCounters>>
      BY <2>2 DEF chainVars, topics, vars, bridge
    <3>2. IInv' /\ ChainTypeOK'
      BY <3>1 DEF ChainInv, IInv, TypeOK, LastPvtCounts, OneClock, PvtsUpTo, ChainTypeOK,
                  Bridge!Pvts, Bridge!Poses, Bridge!Metrics
    <3>3. Numbered' /\ WaitingSentences' /\ WaitingPvts' /\ PosesFirst'
      BY <3>1 DEF ChainInv, Numbered, WaitingSentences, WaitingPvts, PosesFirst, MadeOf,
                  ToBridge, Pvt
    <3>4. PosesFollowReceiver' /\ EverySentenceAccounted'
      BY <3>1 DEF ChainInv, PosesFollowReceiver, Source, Good, EverySentenceAccounted,
                  Accounted, PvtsUpTo, Bridge!Accounted
    <3> QED
      BY <3>2, <3>3, <3>4 DEF ChainInv
  <2> QED
    BY <2>1, <2>2
<1> QED
  BY <1>1, <1>2, PTL DEF ChainSpec

\* Every variable of the process node keeps its type in the chain.
THEOREM TypeCorrect == ChainSpec => []TypeOK
<1>1. ChainInv => TypeOK
  BY DEF ChainInv, IInv
<1> QED
  BY <1>1, ChainInvariance, PTL

\* devpvt and devimu keep one clock in the chain, whatever the queues lose.
THEOREM ClocksAgree == ChainSpec => []OneClock
<1>1. ChainInv => OneClock
  BY DEF ChainInv, IInv
<1> QED
  BY <1>1, ChainInvariance, PTL

\* Every pose is of a good sentence, stamped as that sentence says, and none is
\* published twice or out of order.
THEOREM PosesAreTheReceivers == ChainSpec => []PosesFollowReceiver
<1>1. ChainInv => PosesFollowReceiver
  BY DEF ChainInv
<1> QED
  BY <1>1, ChainInvariance, PTL

\* The two nodes' diagnostics add up.
THEOREM NothingUncounted == ChainSpec => []EverySentenceAccounted
<1>1. ChainInv => EverySentenceAccounted
  BY DEF ChainInv
<1> QED
  BY <1>1, ChainInvariance, PTL

=============================================================================
