---------------------------- MODULE FsdBridgeProofs ----------------------------
(***************************************************************************)
(* The bridge keeps one local frame, whatever messages arrive and in       *)
(* whatever number.                                                        *)
(***************************************************************************)
EXTENDS FsdBridge, SequenceTheorems, TLAPS

\* Before the origin is ready nothing of status 4 has been published, and
\* nothing at all if the origin is configured.
Unready ==
    ~originReady => \A i \in 1..Len(poses) : poses[i].status # 4 /\ configured = None

\* Once it is, it is the configured one or that of a pose of status 4, and the
\* radii are its own.
Ready ==
    originReady =>
        /\ origin \in Int
        /\ radiiAt = origin
        /\ configured # None => origin = configured
        /\ configured = None => \E i \in 1..Len(poses) : poses[i].status = 4

\* What has been published in a frame that is fixed is relative to it.
InFrame(p) == p.offset = p.position - origin /\ p.radii = origin
Framed ==
    \A i \in 1..Len(poses) :
        (configured # None \/ \E k \in 1..i : poses[k].status = 4) => InFrame(poses[i])

\* What was published before is its own origin.
OwnOrigin ==
    \A i \in 1..Len(poses) :
        (configured = None /\ \A k \in 1..(i - 1) : poses[k].status # 4)
            => poses[i].offset = 0 /\ poses[i].radii = poses[i].position

IInv == TypeOK /\ Unready /\ Ready /\ Framed /\ OwnOrigin

-----------------------------------------------------------------------------

\* A message that is rejected changes the counters only.
LEMMA RejectionsKeep ==
    ASSUME IInv, NEW m \in Pvts, UNCHANGED configured,
           GnssReject(m) \/ NonfiniteReject(m) \/ StdevReject(m)
    PROVE  IInv'
<1>1. UNCHANGED <<origin, originReady, radiiAt, poses>>
  BY DEF GnssReject, NonfiniteReject, StdevReject, frame
<1>2. counters' \in [Metrics -> Nat]
  BY DEF GnssReject, NonfiniteReject, StdevReject, Count, IInv, TypeOK
<1> QED
  BY <1>1, <1>2 DEF IInv, TypeOK, Unready, Ready, Framed, InFrame, OwnOrigin

\* The pose a message gives, and the origin it is relative to.
LEMMA PublishedPose ==
    ASSUME IInv, NEW m \in Pvts, Publish(m)
    PROVE  /\ origin' \in Positions \cup {configured} /\ origin' \in Int
           /\ radiiAt' = origin'
           /\ poses' = Append(poses, [stamp |-> m.stamp, status |-> m.status,
                                      position |-> m.position,
                                      offset |-> m.position - origin', radii |-> origin'])
           /\ originReady => UNCHANGED <<origin, originReady>>
           /\ ~originReady =>
                /\ origin' = IF configured # None THEN configured ELSE m.position
                /\ originReady' = (configured # None \/ m.status = 4)
<1>1. CASE originReady
  <2>1. origin \in Positions \cup {configured}
    BY <1>1, OriginAssumption DEF IInv, TypeOK, Ready
  <2> QED
    BY <1>1, <2>1 DEF Publish, IInv, Ready, frame
<1>2. CASE ~originReady
  <2>1. m.position \in Positions /\ m.position \in Int
    BY NumbersAssumption DEF Pvts
  <2>2. configured \in Int \cup {None}
    BY OriginAssumption DEF IInv, TypeOK
  <2> QED
    BY <1>2, <2>1, <2>2 DEF Publish, FixOrigin
<1> QED
  BY <1>1, <1>2

\* A message that is published keeps the invariant.
LEMMA PublishKeeps ==
    ASSUME IInv, NEW m \in Pvts, Publish(m), UNCHANGED configured
    PROVE  IInv'
<1> DEFINE p == [stamp |-> m.stamp, status |-> m.status, position |-> m.position,
                 offset |-> m.position - origin', radii |-> origin']
           n == Len(poses)
<1>1. /\ origin' \in Positions \cup {configured} /\ origin' \in Int
      /\ radiiAt' = origin'
      /\ poses' = Append(poses, p)
      /\ originReady => UNCHANGED <<origin, originReady>>
      /\ ~originReady =>
           /\ origin' = IF configured # None THEN configured ELSE m.position
           /\ originReady' = (configured # None \/ m.status = 4)
  BY PublishedPose
<1>2. p \in Poses /\ p.status = m.status /\ p.position = m.position
      /\ p.offset = m.position - origin' /\ p.radii = origin' /\ m.position \in Int
  <2>1. m.stamp \in Stamps /\ m.status \in Statuses /\ m.position \in Positions
    BY DEF Pvts
  <2>2. m.position \in Int
    BY <2>1, NumbersAssumption
  <2>3. m.position - origin' \in Int
    BY <2>2, <1>1
  <2> QED
    BY <2>1, <2>2, <2>3, <1>1 DEF Poses
<1> HIDE DEF p
<1>3. n \in Nat /\ poses \in Seq(Poses)
  BY DEF IInv, TypeOK
<1>4. /\ Len(poses') = n + 1
      /\ poses'[n + 1] = p
      /\ \A i \in 1..n : poses'[i] = poses[i]
      /\ poses' \in Seq(Poses)
  BY <1>1, <1>2, <1>3, AppendProperties
<1>5. TypeOK'
  <2>1. originReady' \in BOOLEAN
    BY <1>1 DEF IInv, TypeOK
  <2>2. counters' \in [Metrics -> Nat]
    BY DEF Publish, Count, IInv, TypeOK
  <2>3. configured' \in Origins
    BY DEF IInv, TypeOK
  <2> QED
    BY <1>1, <1>4, <2>1, <2>2, <2>3 DEF TypeOK
<1>6. Unready'
  <2> SUFFICES ASSUME ~originReady', NEW i \in 1..(n + 1)
               PROVE  poses'[i].status # 4 /\ configured = None
    BY <1>4 DEF Unready
  <2>1. ~originReady /\ configured = None /\ m.status # 4
    <3>1. ~originReady
      BY <1>1 DEF IInv, TypeOK
    <3>2. originReady' = (configured # None \/ m.status = 4)
      BY <3>1, <1>1
    <3> QED
      BY <3>1, <3>2, Zenon
  <2>2. CASE i = n + 1
    BY <2>1, <2>2, <1>2, <1>4
  <2>3. CASE i \in 1..n
    BY <2>1, <2>3, <1>4 DEF Unready, IInv
  <2> QED
    BY <2>2, <2>3, <1>3
<1>7. Ready'
  <2>1. CASE originReady
    BY <2>1, <1>1, <1>3, <1>4 DEF Ready, IInv
  <2>2. CASE ~originReady
    <3>1. n + 1 \in 1..Len(poses') /\ poses'[n + 1].status = m.status
      BY <1>2, <1>3, <1>4
    <3>2. originReady' => configured # None \/ m.status = 4
      BY <2>2, <1>1
    <3> QED
      BY <2>2, <3>1, <3>2, <1>1 DEF Ready
  <2> QED
    BY <2>1, <2>2
<1>8. ASSUME ~originReady PROVE \A i \in 1..n : poses[i].status # 4 /\ configured = None
  BY <1>8 DEF IInv, Unready
<1>9. Framed'
  <2> SUFFICES ASSUME NEW i \in 1..(n + 1),
                      configured # None \/ \E k \in 1..i : poses'[k].status = 4
               PROVE  InFrame(poses[i])'
    BY <1>4 DEF Framed
  <2>1. CASE i = n + 1
    BY <2>1, <1>2, <1>4 DEF InFrame
  <2>2. CASE i \in 1..n
    <3>1. configured # None \/ \E k \in 1..i : poses[k].status = 4
      BY <2>2, <1>3, <1>4
    <3>2. originReady
      BY <3>1, <2>2, <1>3, <1>8
    <3>3. InFrame(poses[i])
      BY <3>1, <2>2 DEF IInv, Framed
    <3> QED
      BY <3>2, <3>3, <2>2, <1>1, <1>4 DEF InFrame
  <2> QED
    BY <2>1, <2>2, <1>3
<1>10. OwnOrigin'
  <2> SUFFICES ASSUME NEW i \in 1..(n + 1),
                      configured = None, \A k \in 1..(i - 1) : poses'[k].status # 4
               PROVE  poses'[i].offset = 0 /\ poses'[i].radii = poses'[i].position
    BY <1>4 DEF OwnOrigin
  <2>1. CASE i = n + 1
    <3>1. ~originReady
      BY <2>1, <1>3, <1>4 DEF IInv, Ready
    <3> QED
      BY <2>1, <3>1, <1>1, <1>2, <1>4
  <2>2. CASE i \in 1..n
    BY <2>2, <1>3, <1>4 DEF IInv, OwnOrigin
  <2> QED
    BY <2>1, <2>2, <1>3
<1> QED
  BY <1>5, <1>6, <1>7, <1>9, <1>10 DEF IInv

\* The invariant holds in every state.
THEOREM Invariance == Spec => []IInv
<1>1. Init => IInv
  <2> SUFFICES ASSUME Init PROVE IInv
    OBVIOUS
  <2>1. TypeOK
    BY EmptySeq DEF Init, TypeOK
  <2> QED
    BY <2>1 DEF Init, IInv, Unready, Ready, Framed, OwnOrigin
<1>2. IInv /\ [Next]_vars => IInv'
  <2> SUFFICES ASSUME IInv, [Next]_vars PROVE IInv'
    OBVIOUS
  <2>1. CASE Next
    <3>1. PICK m \in Pvts : OnDevpvt(m) /\ UNCHANGED configured
      BY <2>1 DEF Next
    <3> QED
      BY <3>1, RejectionsKeep, PublishKeeps DEF OnDevpvt
  <2>2. CASE UNCHANGED vars
    BY <2>2 DEF vars, frame, IInv, TypeOK, Unready, Ready, Framed, InFrame, OwnOrigin
  <2> QED
    BY <2>1, <2>2
<1> QED
  BY <1>1, <1>2, PTL DEF Spec

\* Every variable keeps its type.
THEOREM TypeCorrect == Spec => []TypeOK
<1>1. IInv => TypeOK
  BY DEF IInv
<1> QED
  BY <1>1, Invariance, PTL

\* The frame is fixed by the first pose of status 4 and never moves again.
THEOREM FrameNeverMoves == Spec => []FrameIsFixed
<1>1. IInv => FrameIsFixed
  <2> SUFFICES ASSUME IInv,
                      NEW i \in 1..Len(poses), poses[i].status = 4,
                      NEW j \in i..Len(poses)
               PROVE  /\ poses[j].offset - poses[i].offset
                           = poses[j].position - poses[i].position
                      /\ poses[j].radii = poses[i].radii
    BY DEF FrameIsFixed, SameFrameFrom
  <2>1. poses \in Seq(Poses) /\ j \in 1..Len(poses) /\ i \in 1..j /\ i \in 1..i
    BY DEF IInv, TypeOK
  <2>2. InFrame(poses[i]) /\ InFrame(poses[j])
    BY <2>1 DEF IInv, Framed
  <2>3. poses[i] \in Poses /\ poses[j] \in Poses
    BY <2>1
  <2>4. poses[i].position \in Int /\ poses[j].position \in Int
    BY <2>3, NumbersAssumption DEF Poses
  <2>5. originReady
    BY DEF IInv, Unready
  <2>6. origin \in Int
    BY <2>5 DEF IInv, Ready
  <2> QED
    BY <2>2, <2>4, <2>6 DEF InFrame
<1> QED
  BY <1>1, Invariance, PTL

\* Poses are relative to the configured origin; or the vehicle stays at 0 until
\* the frame is fixed, without a jump.
THEOREM FrameStartsAtOrigin == Spec => []StartsAtOrigin
<1>1. IInv => StartsAtOrigin
  <2> SUFFICES ASSUME IInv, NEW i \in 1..Len(poses)
               PROVE  IF configured # None
                      THEN poses[i].offset = poses[i].position - configured
                           /\ poses[i].radii = configured
                      ELSE /\ {k \in 1..i : poses[k].status = 4} \ {i} = {} =>
                                poses[i].offset = 0 /\ poses[i].radii = poses[i].position
                           /\ \A k \in {k \in 1..i : poses[k].status = 4} :
                                poses[i].offset =
                                    poses[i].position - poses[k].position + poses[k].offset
    BY DEF StartsAtOrigin
  <2>1. poses \in Seq(Poses) /\ Len(poses) \in Nat
    BY DEF IInv, TypeOK
  <2>2. CASE configured # None
    <3>1. originReady /\ origin = configured
      BY <2>2 DEF IInv, Unready, Ready
    <3> QED
      BY <2>2, <3>1 DEF IInv, Framed, InFrame
  <2>3. CASE configured = None
    <3>1. ASSUME {k \in 1..i : poses[k].status = 4} \ {i} = {}
          PROVE  poses[i].offset = 0 /\ poses[i].radii = poses[i].position
      <4>1. \A k \in 1..(i - 1) : poses[k].status # 4
        BY <3>1
      <4> QED
        BY <4>1, <2>3 DEF IInv, OwnOrigin
    <3>2. ASSUME NEW k \in 1..i, poses[k].status = 4
          PROVE  poses[i].offset = poses[i].position - poses[k].position + poses[k].offset
      <4>1. InFrame(poses[i]) /\ InFrame(poses[k])
        BY <3>2, <2>1 DEF IInv, Framed
      <4>2. poses[i] \in Poses /\ poses[k] \in Poses
        BY <2>1
      <4>3. poses[i].position \in Int /\ poses[k].position \in Int
        BY <4>2, NumbersAssumption DEF Poses
      <4>4. origin \in Int
        <5>1. originReady
          BY <3>2, <2>1 DEF IInv, Unready
        <5> QED
          BY <5>1 DEF IInv, Ready
      <4> QED
        BY <4>1, <4>3, <4>4 DEF InFrame
    <3> QED
      BY <2>3, <3>1, <3>2
  <2> QED
    BY <2>2, <2>3
<1> QED
  BY <1>1, Invariance, PTL

=============================================================================
