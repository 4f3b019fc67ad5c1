----------------------------- MODULE MCMsgParser -----------------------------
(***************************************************************************)
(* Instances of MsgParser for TLC: streams put together from a few blocks, *)
(* good frames of each protocol, frames broken in the ways a lossy line    *)
(* breaks them, and noise.                                                 *)
(***************************************************************************)
EXTENDS MsgParser, SequencesExt

Repeat(b, n) == [i \in 1..n |-> b]

\* A stand-in for CRC-32 that tells the blocks below apart: the sum of the
\* bytes weighted by their positions, and three fixed bytes.
SumCrc(s) ==
    LET sum == FoldLeft(LAMBDA acc, i : acc + i * s[i], 7, [i \in 1..Len(s) |-> i])
    IN  <<sum % 251, (sum \div 251) % 251, 5, 9>>

CgiFrame(n) == <<170, 204, 72, 67, n, 0>> \o Repeat(1, 16) \o Repeat(2, n) \o <<3, 3, 3, 3>>
ShortFrame(n) == <<170, 85, 72, 67, n, 0, 2, 1>> \o Repeat(2, n) \o <<3, 3, 3, 3>>
Nmea5 == <<Dollar, 71, 80, 71, 71, 65, Comma, 49, Star, 48, 48, 13, 10>>
Nmea6 == <<Dollar, 71, 80, 67, 72, 67, 66, Comma, Star, 48, 48, 13, 10>>

\* A NovAtel log of n data bytes, its length field saying len.
NovatelBody(n, len) == <<170, 68, 18, 28, 42, 0, 0, 0, len, 0>> \o Repeat(1, 18) \o Repeat(2, n)
NovatelFrame(n) == NovatelBody(n, n) \o SumCrc(NovatelBody(n, n))
NovatelIncl(n) == NovatelBody(n, n + 4) \o SumCrc(NovatelBody(n, n + 4))

Good == {CgiFrame(1), ShortFrame(0), Nmea5, Nmea6, NovatelFrame(1)}

\* Broken off, corrupted, oversized and foreign bytes.
Bad == {<<13>>, <<170>>, <<170, 204>>, <<170, 85, 72>>, <<170, 68, 18>>,
        <<Dollar, 71, 80>>, <<Dollar, 71, 80, 71, 71, 65, 72, 72>>,
        <<Dollar, 72, 72, 71, 71, 65>>, SubSeq(Nmea5, 1, 8),
        SubSeq(CgiFrame(1), 1, 20), SubSeq(NovatelFrame(1), 1, 31),
        NovatelBody(0, 0) \o <<1>>, NovatelBody(0, 200), NovatelBody(1, 1) \o <<0, 0, 0, 0>>,
        SubSeq(Nmea5, 1, 7) \o Repeat(49, 40), CgiFrame(60)}

\* Logs whose length field counts the checksum, before other frames.
InclusiveStreams == {NovatelIncl(1) \o f : f \in Good \cup {NovatelIncl(1)}}

\* All short strings of the bytes that header matching tells apart.
HeaderBytes == {170, 204, 85, 68, 72, 67, 18, 28, Dollar}
HeaderStreams == [1..4 -> HeaderBytes]

\* Three blocks, one of them broken, the last one good; and the above.
MixedStreams ==
    {a \o b \o d : a \in Good, b \in Bad, d \in Good}
    \cup {b \o a \o d : b \in Bad, a \in Good, d \in {Nmea5, ShortFrame(0)}}
    \cup InclusiveStreams \cup HeaderStreams

=============================================================================
