------------------------------- MODULE FsdChain -------------------------------
(***************************************************************************)
(* From the receiver to the odometry: the parser node publishes the        *)
(* sentences it reads, CgiProcess decodes them and FsdBridge projects      *)
(* them, each node in its own process, over topics whose subscriptions     *)
(* keep the last messages and drop the oldest.                             *)
(*                                                                         *)
(* The receiver sends one sentence a second while the vehicle drives at    *)
(* constant speed, so that time and position are the number of the         *)
(* sentence.  The origin is not configured and no status is filtered.      *)
(***************************************************************************)
EXTENDS CgiProcess, SequencesExt

CONSTANTS
    SentenceDepth,  \* depth of the subscription to hc_sentence (1000)
    PvtDepth,       \* depth of the subscription to devpvt (10)
    None

ASSUME DepthAssumption == SentenceDepth \in Nat \ {0} /\ PvtDepth \in Nat \ {0}

VARIABLES
    sent,           \* history: what the receiver has sent
    sentences,      \* the subscription to hc_sentence
    devpvt,         \* the subscription to devpvt
    origin, originReady, radiiAt, poses, bridgeCounters

topics == <<sent, sentences, devpvt>>
bridge == <<origin, originReady, radiiAt, poses, bridgeCounters>>
chainVars == <<topics, vars, bridge>>

\* What a PVT says of the vehicle: Fixes, for this composition.
ChainTimes == 1..MaxSentences
ChainFixes == [status : {0, 4}, position : ChainTimes, finite : BOOLEAN, stdevs : {TRUE}]

ASSUME FixesAssumption == Fixes \subseteq ChainFixes

Bridge == INSTANCE FsdBridge WITH
    Stamps <- Int, Positions <- ChainTimes, Statuses <- {0, 4}, Origins <- {None},
    configured <- None, MinGnssStatus <- 0, MaxPvts <- MaxSentences,
    counters <- bridgeCounters

-----------------------------------------------------------------------------

\* (Faulty: a full queue refuses what is new.)
KeepFirst(queue, m, depth) ==
    IF Len(queue) = depth THEN queue ELSE Append(queue, m)
\* A message arrives at a subscription of that depth.
KeepLast(queue, m, depth) ==
    IF Len(queue) = depth THEN Append(Tail(queue), m) ELSE Append(queue, m)

\* A good PVT; or one that is not finite, damaged or of wrong length, or an IMU
\* sentence, one of each.
Sendable(t) ==
    LET at == {s \in Sentences : s.time = t /\ s.fix.position = t}
        Some(S) == {s \in S : s = CHOOSE x \in S : TRUE}
    IN  {s \in at : s.id = "INSPVATZCB" /\ s.size = 296 /\ s.intact /\ s.fix.finite}
        \cup Some({s \in at : s.id = "INSPVATZCB" /\ s.size = 296 /\ s.intact /\ ~s.fix.finite})
        \cup Some({s \in at : s.id = "INSPVATZCB" /\ s.size = 296 /\ ~s.intact})
        \cup Some({s \in at : s.id = "INSPVATZCB" /\ s.size = 40 /\ s.intact})
        \cup Some({s \in at : s.id = "RAWIMUIB" /\ s.size = 68 /\ s.intact})

\* The parser node publishes a sentence as it reads it.
Send(s) ==
    /\ sent' = Append(sent, s)
    /\ sentences' = KeepLast(sentences, s, SentenceDepth)
    /\ UNCHANGED <<devpvt, vars, bridge>>

\* What a PVT message carries to the bridge.
ToBridge(m) ==
    [stamp |-> m.stamp, status |-> m.fix.status, position |-> m.fix.position,
     finite |-> m.fix.finite, stdevs |-> m.fix.stdevs]

\* The process node handles s.
Handle(s) ==
    /\ HcSentence(s)
    /\ devpvt' = IF published' # published /\ Last(published').topic = "devpvt"
                 THEN KeepLast(devpvt, ToBridge(Last(published')), PvtDepth)
                 ELSE devpvt
    /\ UNCHANGED <<sent, bridge>>

\* (Faulty: the newest sentence is taken first.)
TakeNewest ==
    /\ sentences # <<>>
    /\ sentences' = Front(sentences)
    /\ Handle(Last(sentences))
TakeSentence ==
    /\ sentences # <<>>
    /\ sentences' = Tail(sentences)
    /\ Handle(Head(sentences))

TakePvt ==
    /\ devpvt # <<>>
    /\ devpvt' = Tail(devpvt)
    /\ Bridge!OnDevpvt(Head(devpvt))
    /\ UNCHANGED <<sent, sentences, vars>>

ChainInit ==
    /\ sent = <<>> /\ sentences = <<>> /\ devpvt = <<>>
    /\ Init
    /\ Bridge!Init

ChainNext ==
    \/ Len(sent) < MaxSentences /\ \E s \in Sendable(Len(sent) + 1) : Send(s)
    \/ TakeSentence
    \/ TakePvt

\* Both nodes spin.
ChainSpec ==
    /\ ChainInit /\ [][ChainNext]_chainVars
    /\ WF_chainVars(TakeSentence) /\ WF_chainVars(TakePvt)

-----------------------------------------------------------------------------
(* Properties *)

\* The sentence that a pose is made from.
Source(pose) == sent[pose.position]

Good(s) == s.id = "INSPVATZCB" /\ s.size = 296 /\ s.intact /\ s.fix.finite

\* Every pose is of a good sentence and stamped with the time and the leap
\* seconds of that sentence, and the vehicle never goes back: nothing is
\* published twice or out of order, however the queues overflow.
PosesFollowReceiver ==
    /\ \A i \in 1..Len(poses) :
        LET s == Source(poses[i])
        IN  Good(s) /\ poses[i].stamp = s.time - s.leaps /\ poses[i].status = s.fix.status
    /\ \A i, j \in 1..Len(poses) : i < j => poses[i].position < poses[j].position

\* The two nodes' diagnostics add up: each sentence sent is handled, waiting or
\* dropped; each one handled is intact or an error; each PVT published is rejected
\* for one reason, a pose, waiting or dropped; none is counted twice.
EverySentenceAccounted ==
    /\ Accounted /\ Bridge!Accounted
    /\ counters["CGI_RECEIVED"] + Len(sentences) <= Len(sent)
    /\ bridgeCounters["PVT_RECEIVED"] + Len(devpvt) <= counters["PVT_PUBLISHED"]

\* A good sentence that is the receiver's last becomes the last pose: a full
\* queue never drops the newest.
LatestArrives ==
    \A n \in ChainTimes :
        (Len(sent) = n /\ Good(sent[n])) ~>
            (poses # <<>> /\ Last(poses).position = n) \/ Len(sent) > n

=============================================================================
