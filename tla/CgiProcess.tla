------------------------------ MODULE CgiProcess ------------------------------
(***************************************************************************)
(* HcCgiProtocolProcessNode: decodes the receiver's sentences and stamps   *)
(* what it publishes with GPS time less the leap seconds that the last PVT *)
(* sentence announced.                                                     *)
(*                                                                         *)
(* The decoded fields other than time, leaps and the part of a PVT that    *)
(* the bridge uses (fix) are left out.                                     *)
(***************************************************************************)
EXTENDS Integers, Sequences, FiniteSets

CONSTANTS
    Times,          \* GPS times (week and second), in seconds
    Leaps,          \* leap seconds a receiver may announce
    DefaultLeaps,   \* 18
    Fixes,          \* what a PVT says of the vehicle
    MaxSentences    \* bound: sentences received

ASSUME NumbersAssumption == Times \subseteq Int /\ Leaps \subseteq Int
ASSUME DefaultAssumption == DefaultLeaps \in Int
ASSUME BoundAssumption == MaxSentences \in Nat

VARIABLES
    gLeaps,         \* g_leaps
    published,      \* history: what has been published, in order
    counters        \* the recorder's counters

vars == <<gLeaps, published, counters>>

Sizes == [INSPVATZCB |-> {296}, RAWIMUIB |-> {68, 34}]
Ids == {"INSPVATZCB", "RAWIMUIB", "other"}

Sentences ==
    [id : Ids, size : {296, 68, 34, 40}, intact : BOOLEAN,
     time : Times, leaps : Leaps, fix : Fixes]

Metrics == {"CGI_RECEIVED", "CRC_OK", "CRC_ERRORS", "PVT_LENGTH_ERRORS", "PVT_PUBLISHED"}

\* The length is the one that the identity calls for.
WellSized(s) == s.id # "other" /\ s.size \in Sizes[s.id]

Count(S) == counters' = [m \in Metrics |-> IF m \in S THEN counters[m] + 1 ELSE counters[m]]

Pvt(s, leaps) ==
    [topic |-> "devpvt", time |-> s.time, leaps |-> s.leaps,
     stamp |-> s.time - leaps, fix |-> s.fix]
Imu(s, leaps) ==
    [topic |-> "devimu", time |-> s.time, leaps |-> leaps, stamp |-> s.time - leaps]

-----------------------------------------------------------------------------
(* hc_sentence_callback, one action per way it ends *)

CrcError(s) ==
    /\ ~s.intact
    /\ Count({"CGI_RECEIVED", "CRC_ERRORS"})
    /\ UNCHANGED <<gLeaps, published>>

\* msg_deal__hcinspvatzcb
DealPvt(s) ==
    /\ s.intact /\ s.id = "INSPVATZCB" /\ WellSized(s)
    /\ gLeaps' = s.leaps
    /\ published' = Append(published, Pvt(s, gLeaps'))
    /\ Count({"CGI_RECEIVED", "CRC_OK", "PVT_PUBLISHED"})

\* msg_deal__hcrawimuib: both of its formats.
DealImu(s) ==
    /\ s.intact /\ s.id = "RAWIMUIB" /\ WellSized(s)
    /\ published' = Append(published, Imu(s, gLeaps))
    /\ Count({"CGI_RECEIVED", "CRC_OK"})
    /\ UNCHANGED gLeaps

\* (Faulty: the leap seconds are read before the length is checked.)
IgnoreReadsLeaps(s) ==
    /\ s.intact /\ ~WellSized(s)
    /\ Count({"CGI_RECEIVED", "CRC_OK"} \cup
             IF s.id = "INSPVATZCB" THEN {"PVT_LENGTH_ERRORS"} ELSE {})
    /\ gLeaps' = IF s.id = "INSPVATZCB" THEN s.leaps ELSE gLeaps
    /\ UNCHANGED published
\* An identity that is not handled, or a length that is wrong.
Ignore(s) ==
    /\ s.intact /\ ~WellSized(s)
    /\ Count({"CGI_RECEIVED", "CRC_OK"} \cup
             IF s.id = "INSPVATZCB" THEN {"PVT_LENGTH_ERRORS"} ELSE {})
    /\ UNCHANGED <<gLeaps, published>>

HcSentence(s) == CrcError(s) \/ DealPvt(s) \/ DealImu(s) \/ Ignore(s)

\* (Faulty: the leap seconds are left at zero.)
InitZero ==
    /\ gLeaps = 0
    /\ published = <<>>
    /\ counters = [m \in Metrics |-> 0]
Init ==
    /\ gLeaps = DefaultLeaps
    /\ published = <<>>
    /\ counters = [m \in Metrics |-> 0]

Next == \E s \in Sentences : counters["CGI_RECEIVED"] < MaxSentences /\ HcSentence(s)

Spec == Init /\ [][Next]_vars

-----------------------------------------------------------------------------
(* Properties *)

PvtMessages == [topic : {"devpvt"}, time : Times, leaps : Leaps, stamp : Int, fix : Fixes]
ImuMessages == [topic : {"devimu"}, time : Times, leaps : Leaps \cup {DefaultLeaps}, stamp : Int]

TypeOK ==
    /\ gLeaps \in Leaps \cup {DefaultLeaps}
    /\ published \in Seq(PvtMessages \cup ImuMessages)
    /\ counters \in [Metrics -> Nat]

PvtsUpTo(i) == {j \in 1..i : published[j].topic = "devpvt"}

\* Both topics keep one clock, whatever was lost or damaged in between:
\* between a PVT and the messages up to the next one, stamps are as far apart
\* as the times of the receiver.
OneClock ==
    \A i \in PvtsUpTo(Len(published)) : \A j \in i..Len(published) :
        PvtsUpTo(j) \ 1..i = {} =>
            published[j].stamp - published[i].stamp = published[j].time - published[i].time

\* The diagnostics add up: every sentence is counted as intact or as an error,
\* and every PVT that goes out is counted.
Accounted ==
    /\ counters["CGI_RECEIVED"] = counters["CRC_OK"] + counters["CRC_ERRORS"]
    /\ counters["PVT_PUBLISHED"] = Cardinality(PvtsUpTo(Len(published)))

=============================================================================
