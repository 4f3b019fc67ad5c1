---------------------------- MODULE FrameGrammar ----------------------------
(***************************************************************************)
(* What a complete frame of each protocol looks like: two CHCNAV binary    *)
(* protocols with a length field, NMEA sentences, and NovAtel logs.  These *)
(* are predicates on a whole frame; the parser never evaluates them.       *)
(* Offsets are the code's, from 0.                                         *)
(***************************************************************************)
EXTENDS Integers, Sequences

CONSTANT Crc(_)   \* novatel_crc32 as the four little-endian bytes of its result

Byte == 0..255

Dollar == 36
Comma == 44
Star == 42

\* Talker identifiers GP, GN, BD and GT.
Talkers == {<<71, 80>>, <<71, 78>>, <<66, 68>>, <<71, 84>>}

\* Characters an NMEA body may have: letters, digits, comma, point and minus.
NmeaBody == (65..90) \cup (97..122) \cup (48..57) \cup {Comma, 46, 45}

FrameTypes == {"HC_MSG", "HC_SHORT_MSG", "NMEA_MGS", "NOVATEL_MSG"}

At(s, k) == s[k + 1]

\* The little-endian 16-bit number at offset k.
Le16(s, k) == At(s, k) + 256 * At(s, k + 1)

\* The four bytes at offset n are the checksum of the n bytes before them.
CrcAt(s, n) == Crc(SubSeq(s, 1, n)) = SubSeq(s, n + 1, n + 4)

Begins(s, b0, b1, b2, b3) ==
    At(s, 0) = b0 /\ At(s, 1) = b1 /\ At(s, 2) = b2 /\ At(s, 3) = b3

IsCgi(s) ==
    /\ Len(s) >= 26
    /\ Begins(s, 170, 204, 72, 67)
    /\ Len(s) = 26 + Le16(s, 4)

IsShort(s) ==
    /\ Len(s) >= 12
    /\ Begins(s, 170, 85, 72, 67)
    /\ Len(s) = 12 + Le16(s, 4)

\* The sentence s has its comma, and only body characters from there to n.
CommaThenBody(s, n) ==
    \E k \in {6, 7} :
        /\ k < n
        /\ At(s, k) = Comma
        /\ \A j \in (k + 1)..(n - 1) : At(s, j) \in NmeaBody

\* '$', talker, three letters, perhaps a sixth, comma, fields, star, 4 bytes.
IsNmea(s) ==
    /\ Len(s) >= 12
    /\ At(s, 0) = Dollar
    /\ <<At(s, 1), At(s, 2)>> \in Talkers
    /\ At(s, Len(s) - 5) = Star
    /\ CommaThenBody(s, Len(s) - 5)

\* The OEM7 convention: the length field counts neither header nor checksum.
IsNovatel(s) ==
    /\ Len(s) >= 33
    /\ Begins(s, 170, 68, 18, 28)
    /\ Len(s) = 28 + Le16(s, 8) + 4
    /\ CrcAt(s, Len(s) - 4)

\* The other convention the parser accepts: the length field counts the
\* checksum, and the frame is four bytes shorter.
IsNovatelIncl(s) ==
    /\ Len(s) >= 29
    /\ Begins(s, 170, 68, 18, 28)
    /\ Len(s) = 28 + Le16(s, 8)
    /\ CrcAt(s, Len(s) - 4)

\* What the parser may return as a frame of type tp.  After a log of the
\* second convention it has taken four bytes more.
IsFrame(tp, s) ==
    \/ tp = "HC_MSG" /\ IsCgi(s)
    \/ tp = "HC_SHORT_MSG" /\ IsShort(s)
    \/ tp = "NMEA_MGS" /\ IsNmea(s)
    \/ tp = "NOVATEL_MSG" /\ IsNovatel(s)
    \/ tp = "NOVATEL_MSG" /\ Len(s) >= 33 /\ IsNovatelIncl(SubSeq(s, 1, Len(s) - 4))

=============================================================================
