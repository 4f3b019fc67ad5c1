--------------------------- MODULE MsgParserProofs ---------------------------
(***************************************************************************)
(* Proofs about the parser, for every stream, every capacity above 32,     *)
(* every size of read and every checksum function.                         *)
(***************************************************************************)
EXTENDS MsgParser, SequenceTheorems, TLAPS

\* Every scan that returned has taken a byte.
ScanAdvances == type # "NONE" => start < pos

IInv == TypeOK /\ TokenShape /\ NoStaleError /\ FramesAreWhole /\ ScanAdvances

-----------------------------------------------------------------------------
(* Sequences *)

\* A token that grows keeps the bytes it has.
LEMMA Grown ==
    ASSUME NEW s \in Seq(Byte), NEW b \in Byte
    PROVE  /\ Append(s, b) \in Seq(Byte)
           /\ Len(Append(s, b)) = Len(s) + 1
           /\ \A k \in 0..(Len(s) - 1) : At(Append(s, b), k) = At(s, k)
           /\ At(Append(s, b), Len(s)) = b
<1>1. Len(s) \in Nat
  BY LenProperties
<1>2. \A i \in 1..Len(s) : Append(s, b)[i] = s[i]
  BY AppendProperties
<1>3. Append(s, b)[Len(s) + 1] = b
  BY AppendProperties
<1>4. \A k \in 0..(Len(s) - 1) : k + 1 \in 1..Len(s)
  BY <1>1
<1>5. \A k \in 0..(Len(s) - 1) : At(Append(s, b), k) = At(s, k)
  BY <1>2, <1>4 DEF At
<1> QED
  BY <1>3, <1>5, AppendProperties DEF At

\* The next byte of the stream extends a segment of it.
LEMMA SegmentGrows ==
    ASSUME NEW s \in Seq(Byte), NEW p \in Nat, p < Len(s), NEW f \in 0..p
    PROVE  /\ SubSeq(s, f + 1, p) \in Seq(Byte)
           /\ Len(SubSeq(s, f + 1, p)) = p - f
           /\ Append(SubSeq(s, f + 1, p), s[p + 1]) = SubSeq(s, f + 1, p + 1)
<1> DEFINE a == SubSeq(s, f + 1, p)
           b == SubSeq(s, f + 1, p + 1)
<1>0. Len(s) \in Nat /\ f \in Nat /\ f <= p
  BY LenProperties
<1>1. \A i \in (f + 1)..(p + 1) : s[i] \in Byte
  <2> SUFFICES ASSUME NEW i \in (f + 1)..(p + 1) PROVE s[i] \in Byte
    OBVIOUS
  <2>1. i \in 1..Len(s)
    BY <1>0
  <2> QED
    BY <2>1, ElementOfSeq
<1>2. /\ a \in Seq(Byte)
      /\ Len(a) = p - f
      /\ \A i \in 1..(p - f) : a[i] = s[f + i]
  <2>1. \A i \in (f + 1)..p : s[i] \in Byte
    BY <1>0, <1>1
  <2>2. /\ a \in Seq(Byte)
        /\ Len(a) = IF f + 1 <= p THEN p - (f + 1) + 1 ELSE 0
        /\ \A i \in 1..(p - (f + 1) + 1) : a[i] = s[(f + 1) + i - 1]
    BY <1>0, <2>1, SubSeqProperties
  <2> QED
    BY <1>0, <2>2
<1>3. /\ b \in Seq(Byte)
      /\ Len(b) = p - f + 1
      /\ \A i \in 1..(p - f + 1) : b[i] = s[f + i]
  <2>2. /\ b \in Seq(Byte)
        /\ Len(b) = IF f + 1 <= p + 1 THEN (p + 1) - (f + 1) + 1 ELSE 0
        /\ \A i \in 1..((p + 1) - (f + 1) + 1) : b[i] = s[(f + 1) + i - 1]
    BY <1>0, <1>1, SubSeqProperties
  <2> QED
    BY <1>0, <2>2
<1>4. s[p + 1] \in Byte
  BY <1>0, <1>1
<1>5. /\ Append(a, s[p + 1]) \in Seq(Byte)
      /\ Len(Append(a, s[p + 1])) = Len(b)
      /\ \A i \in 1..Len(a) : Append(a, s[p + 1])[i] = a[i]
      /\ Append(a, s[p + 1])[Len(a) + 1] = s[p + 1]
  BY <1>2, <1>3, <1>4, AppendProperties
<1>6. ASSUME NEW i \in 1..Len(Append(a, s[p + 1])) PROVE Append(a, s[p + 1])[i] = b[i]
  <2>1. CASE i \in 1..Len(a)
    BY <1>0, <1>2, <1>3, <1>5, <2>1
  <2>2. CASE i = Len(a) + 1
    BY <1>0, <1>2, <1>3, <1>5, <2>2
  <2> QED
    BY <1>0, <1>2, <1>3, <1>5, <2>1, <2>2
<1>7. Append(a, s[p + 1]) = b
  BY <1>3, <1>5, <1>6, SeqEqual
<1> QED
  BY <1>2, <1>7

-----------------------------------------------------------------------------
(* What taking, or looking at, a byte does to the invariant *)

\* The byte joined the token.
Grew(tp, err) ==
    /\ value' = Append(value, c)
    /\ value' = SubSeq(stream, start + 1, pos + 1)
    /\ value' \in Seq(Byte)
    /\ Len(value') = Len(value) + 1
    /\ Len(value') < Capacity
    /\ \A k \in 0..(Len(value) - 1) : At(value', k) = At(value, k)
    /\ At(value', Len(value)) = c
    /\ pos' = pos + 1
    /\ pos' \in 0..filled
    /\ type' = tp
    /\ error_code' = err

\* The byte did not fit.
Overflowed ==
    /\ Len(value) >= 32
    /\ value' = value
    /\ pos' = pos
    /\ type' = "ERROR"
    /\ error_code' = state'

\* What every scanning step may rely on.
LEMMA ScanFacts ==
    ASSUME IInv, Scanning
    PROVE  /\ value = SubSeq(stream, start + 1, pos)
           /\ Len(value) \in Nat
           /\ Len(value) = pos - start
           /\ c \in Byte
           /\ pos \in Nat /\ start \in Nat /\ filled \in Nat
           /\ pos + 1 \in 0..filled
           /\ error_code = "NONE"
<1>1. /\ stream \in Seq(Byte) /\ filled \in 0..Len(stream) /\ pos \in 0..filled
      /\ start \in 0..pos /\ value \in Seq(Byte) /\ type = "NONE" /\ pos < filled
  BY DEF IInv, TypeOK, Scanning
<1>2. Len(stream) \in Nat /\ Len(value) \in Nat
  BY <1>1, LenProperties
<1>3. value = SubSeq(stream, start + 1, pos)
  BY <1>1 DEF IInv, TokenShape, Segment
<1>4. pos \in Nat /\ pos < Len(stream) /\ start \in Nat /\ filled \in Nat
  BY <1>1, <1>2
<1>5. Len(value) = pos - start
  BY <1>1, <1>3, <1>4, SegmentGrows
<1>6. c \in Byte
  <2>1. pos + 1 \in 1..Len(stream)
    BY <1>2, <1>4
  <2> QED
    BY <1>1, <2>1, ElementOfSeq DEF c
<1>7. error_code = "NONE"
  BY <1>1 DEF IInv, NoStaleError
<1> QED
  BY <1>1, <1>2, <1>3, <1>4, <1>5, <1>6, <1>7

LEMMA TakeStep ==
    ASSUME IInv, Scanning, NEW tp, NEW err, Take(value, tp, err)
    PROVE  Grew(tp, err) \/ Overflowed
<1>1. value \in Seq(Byte) /\ stream \in Seq(Byte) /\ Capacity \in Nat /\ Capacity > 32
  BY CapacityAssumption DEF IInv, TypeOK
<1>2. CASE Fits(value)
  <2>1. value' = Append(value, c) /\ pos' = pos + 1 /\ type' = tp /\ error_code' = err
    BY <1>2 DEF Take
  <2>2. pos < Len(stream) /\ start \in 0..pos
    BY <1>1, LenProperties DEF IInv, TypeOK, Scanning
  <2>3. Append(value, c) = SubSeq(stream, start + 1, pos + 1)
    BY <1>1, <2>2, ScanFacts, SegmentGrows DEF c
  <2>4. /\ value' \in Seq(Byte)
        /\ Len(value') = Len(value) + 1
        /\ \A k \in 0..(Len(value) - 1) : At(value', k) = At(value, k)
        /\ At(value', Len(value)) = c
    BY <1>1, <2>1, ScanFacts, Grown
  <2>5. Len(value') < Capacity
    BY <1>2, <2>4 DEF Fits
  <2> QED
    BY <2>1, <2>3, <2>4, <2>5, ScanFacts DEF Grew
<1>3. CASE ~Fits(value)
  <2>1. Len(value) >= 32
    BY <1>1, <1>3, ScanFacts DEF Fits
  <2> QED
    BY <1>3, <2>1 DEF Take, Overflowed
<1> QED
  BY <1>2, <1>3

\* The step took a byte and the scan goes on in a state that knows the token.
LEMMA GrewKeepsInv ==
    ASSUME IInv, Scanning, Grew("NONE", error_code),
           state' \in States \ {"S0"}, specified_len' \in Nat,
           HeadKnown(state', value'), EndKnown(state', value', specified_len')
    PROVE  IInv'
<1>1. TypeOK'
  BY ScanFacts DEF Grew, Scanning, IInv, TypeOK, Types
<1>2. TokenShape'
  BY DEF Grew, Scanning, TokenShape, Segment, Types, FrameTypes
<1>3. NoStaleError' /\ ScanAdvances' /\ FramesAreWhole'
  BY ScanFacts DEF Grew, Scanning, NoStaleError, ScanAdvances, FramesAreWhole, FrameTypes
<1> QED
  BY <1>1, <1>2, <1>3 DEF IInv

\* The step took the last byte of a frame.
LEMMA EmitKeepsInv ==
    ASSUME IInv, Scanning, NEW tp \in FrameTypes, Grew(tp, error_code),
           state' = "S0", specified_len' \in Nat,
           IsFrame(tp, value')
    PROVE  IInv'
<1>1. TypeOK'
  BY ScanFacts DEF Grew, Scanning, IInv, TypeOK, Types, FrameTypes, States, SyncStates
<1>2. type' = tp /\ tp # "NONE" /\ tp # "ERROR" /\ start < pos' /\ start' = start
  <2>1. tp # "NONE" /\ tp # "ERROR"
    BY DEF FrameTypes
  <2>2. type' = tp /\ pos' = pos + 1 /\ start' = start
    BY DEF Grew, Scanning
  <2>3. start < pos + 1
    BY ScanFacts
  <2> QED
    BY <2>1, <2>2, <2>3
<1>3. TokenShape'
  BY <1>2 DEF TokenShape
<1>4. NoStaleError' /\ ScanAdvances'
  BY <1>2, ScanFacts DEF Grew, NoStaleError, ScanAdvances
<1>5. FramesAreWhole'
  BY <1>2 DEF Grew, Scanning, FramesAreWhole, Segment
<1> QED
  BY <1>1, <1>3, <1>4, <1>5 DEF IInv

\* The step took a byte that broke the token (S0 or a failed checksum).
LEMMA BreakKeepsInv ==
    ASSUME IInv, Scanning, Grew("ERROR", state),
           state' \in States, specified_len' \in Nat
    PROVE  IInv'
<1>1. TypeOK'
  BY ScanFacts DEF Grew, Scanning, IInv, TypeOK, Types
<1>2. state # "NONE"
  BY DEF IInv, TypeOK, States, SyncStates, FieldStates, BodyStates
<1>3. TokenShape' /\ NoStaleError' /\ ScanAdvances' /\ FramesAreWhole'
  BY <1>2, ScanFacts
     DEF Grew, Scanning, TokenShape, NoStaleError, ScanAdvances, FramesAreWhole, FrameTypes
<1> QED
  BY <1>1, <1>3 DEF IInv

\* The token was full.
LEMMA OverflowKeepsInv ==
    ASSUME IInv, Scanning, Overflowed, state' \in States, specified_len' \in Nat
    PROVE  IInv'
<1>1. TypeOK'
  BY DEF Overflowed, Scanning, IInv, TypeOK, Types
<1>2. state' # "NONE"
  BY DEF States, SyncStates, FieldStates, BodyStates
<1>3. start < pos
  BY ScanFacts DEF Overflowed
<1>4. TokenShape' /\ NoStaleError' /\ ScanAdvances' /\ FramesAreWhole'
  BY <1>2, <1>3
     DEF Overflowed, Scanning, TokenShape, NoStaleError, ScanAdvances, FramesAreWhole, FrameTypes
<1> QED
  BY <1>1, <1>4 DEF IInv

\* The step only looked at the byte and the scan goes on.
LEMMA PeekKeepsInv ==
    ASSUME IInv, Scanning, Peek("NONE", error_code),
           state' \in States \ {"S0"}, specified_len' \in Nat, pos > start,
           HeadKnown(state', value'), EndKnown(state', value', specified_len')
    PROVE  IInv'
<1>1. TypeOK'
  BY DEF Peek, Scanning, IInv, TypeOK
<1>2. TokenShape'
  BY DEF Peek, Scanning, IInv, TokenShape, Segment, FrameTypes
<1>3. NoStaleError' /\ ScanAdvances' /\ FramesAreWhole'
  BY ScanFacts DEF Peek, Scanning, NoStaleError, ScanAdvances, FramesAreWhole, FrameTypes
<1> QED
  BY <1>1, <1>2, <1>3 DEF IInv

\* The step refused the byte.
LEMMA RefuseKeepsInv ==
    ASSUME IInv, Scanning, Stay, Peek("ERROR", state), pos > start
    PROVE  IInv'
<1>1. TypeOK'
  BY DEF Peek, Scanning, Stay, IInv, TypeOK, Types
<1>2. state # "NONE"
  BY DEF IInv, TypeOK, States, SyncStates, FieldStates, BodyStates
<1>3. TokenShape' /\ NoStaleError' /\ ScanAdvances' /\ FramesAreWhole'
  BY <1>2
     DEF Peek, Scanning, Stay, TokenShape, NoStaleError, ScanAdvances, FramesAreWhole, FrameTypes
<1> QED
  BY <1>1, <1>3 DEF IInv

\* In every state but S0 the token has a byte.
LEMMA TokenBegun ==
    ASSUME IInv, Scanning, state # "S0"
    PROVE  pos > start
<1>1. state \in States /\ HeadKnown(state, value) /\ EndKnown(state, value, specified_len)
  BY DEF IInv, TypeOK, TokenShape, Scanning
<1>2. CASE state \in SyncStates
  BY <1>1, <1>2, ScanFacts DEF HeadKnown, SyncStates
<1>3. CASE state \notin SyncStates
  BY <1>1, <1>3, ScanFacts DEF HeadKnown, States, FieldStates, BodyStates
<1> QED
  BY <1>2, <1>3

LEMMA FieldEnds ==
    /\ FieldEnd["S4"] = 6 /\ FieldEnd["S5"] = 8 /\ FieldEnd["S6"] = 10
    /\ FieldEnd["S7"] = 14 /\ FieldEnd["S8"] = 18 /\ FieldEnd["S9"] = 22
    /\ FieldEnd["S14"] = 6 /\ FieldEnd["S15"] = 8
    /\ FieldEnd["S18"] = 6 /\ FieldEnd["S27"] = 28
  BY DEF FieldEnd

\* A field ends where its successor starts.
LEMMA FieldChain ==
    \A st \in {"S4", "S5", "S6", "S7", "S8", "S14"} :
        /\ NextField[st] \in {"S5", "S6", "S7", "S8", "S9", "S15"}
        /\ FieldEnd[NextField[st]] = FieldEnd[st] + FieldLen[NextField[st]]
        /\ NextField[st] \in DOMAIN FieldLen
<1>1. /\ NextField["S4"] = "S5" /\ NextField["S5"] = "S6" /\ NextField["S6"] = "S7"
      /\ NextField["S7"] = "S8" /\ NextField["S8"] = "S9" /\ NextField["S14"] = "S15"
  BY DEF NextField
<1>2. /\ FieldLen["S5"] = 2 /\ FieldLen["S6"] = 2 /\ FieldLen["S7"] = 4
      /\ FieldLen["S8"] = 4 /\ FieldLen["S9"] = 4 /\ FieldLen["S15"] = 2
  BY DEF FieldLen
<1>3. {"S5", "S6", "S7", "S8", "S9", "S15"} \subseteq DOMAIN FieldLen
  BY DEF FieldLen
<1> QED
  BY <1>1, <1>2, <1>3, FieldEnds

\* Header matching: the byte b takes the header s of state st to state next.
LEMMA HeadGrows ==
    ASSUME NEW st, NEW next, NEW b, NEW s, NEW t,
           Len(s) \in Nat, Len(t) = Len(s) + 1, At(t, Len(s)) = b,
           \A k \in 0..(Len(s) - 1) : At(t, k) = At(s, k),
           HeadKnown(st, s),
           \/ st = "S0" /\ b = 170 /\ next = "S1"
           \/ st = "S0" /\ b = Dollar /\ next = "S18"
           \/ st = "S1" /\ b = 204 /\ next = "S2"
           \/ st = "S2" /\ b = 72 /\ next = "S3"
           \/ st = "S3" /\ b = 67 /\ next = "S4"
           \/ st = "S1" /\ b = 85 /\ next = "S12"
           \/ st = "S12" /\ b = 72 /\ next = "S13"
           \/ st = "S13" /\ b = 67 /\ next = "S14"
           \/ st = "S1" /\ b = 68 /\ next = "S25"
           \/ st = "S25" /\ b = 18 /\ next = "S26"
           \/ st = "S26" /\ b = 28 /\ next = "S27"
    PROVE  HeadKnown(next, t) /\ Len(s) \in 0..3 /\ (st = "S0" <=> Len(s) = 0)
             /\ (Len(s) = 3 <=> next \in {"S4", "S14", "S27"})
<1>1. CASE st = "S0"
  <2>1. Len(s) = 0 /\ Len(t) = 1 /\ At(t, 0) = b
    BY <1>1 DEF HeadKnown
  <2> QED
    BY <1>1, <2>1 DEF HeadKnown
<1>2. CASE st = "S1"
  <2>1. Len(s) = 1 /\ At(s, 0) = 170
    BY <1>2 DEF HeadKnown
  <2>2. Len(t) = 2 /\ At(t, 0) = 170 /\ At(t, 1) = b
    BY <2>1
  <2> QED
    BY <1>2, <2>1, <2>2 DEF HeadKnown
<1>3. CASE st \in {"S2", "S12", "S25"}
  <2>1. /\ Len(s) = 2 /\ At(s, 0) = 170
        /\ At(s, 1) = IF st = "S2" THEN 204 ELSE IF st = "S12" THEN 85 ELSE 68
    BY <1>3 DEF HeadKnown
  <2>2. Len(t) = 3 /\ At(t, 0) = 170 /\ At(t, 1) = At(s, 1) /\ At(t, 2) = b
    BY <2>1
  <2> QED
    BY <1>3, <2>1, <2>2 DEF HeadKnown
<1>4. CASE st \in {"S3", "S13", "S26"}
  <2>1. /\ Len(s) = 3 /\ At(s, 0) = 170
        /\ At(s, 1) = IF st = "S3" THEN 204 ELSE IF st = "S13" THEN 85 ELSE 68
        /\ At(s, 2) = IF st = "S26" THEN 18 ELSE 72
    BY <1>4 DEF HeadKnown
  <2>2. /\ Len(t) = 4 /\ At(t, 0) = 170 /\ At(t, 1) = At(s, 1)
        /\ At(t, 2) = At(s, 2) /\ At(t, 3) = b
    BY <2>1
  <2> QED
    BY <1>4, <2>1, <2>2 DEF HeadKnown, Begins
<1> QED
  BY <1>1, <1>2, <1>3, <1>4

\* t is the token s with one byte more.
Longer(s, t) ==
    /\ Len(s) \in Nat
    /\ Len(t) = Len(s) + 1
    /\ \A k \in 0..(Len(s) - 1) : At(t, k) = At(s, k)

\* What is known of the beginning of a token stays known when it grows.
LEMMA HeadKept ==
    ASSUME NEW st, st \notin SyncStates, NEW s, NEW t, Longer(s, t), HeadKnown(st, s)
    PROVE  HeadKnown(st, t)
<1>1. CASE st \in {"S4", "S5", "S6", "S7", "S8", "S9", "S10", "S14", "S15", "S16", "S27", "S28"}
  <2>1. /\ Len(s) >= 4 => /\ At(t, 0) = At(s, 0) /\ At(t, 1) = At(s, 1)
                          /\ At(t, 2) = At(s, 2) /\ At(t, 3) = At(s, 3)
    BY DEF Longer
  <2> QED
    BY <1>1, <2>1 DEF HeadKnown, Longer, Begins
<1>2. CASE st \in {"S18", "S19", "S20", "S21", "S22"}
  <2>1. /\ Len(s) >= 1 => At(t, 0) = At(s, 0)
        /\ Len(s) >= 7 => At(t, 1) = At(s, 1) /\ At(t, 2) = At(s, 2)
    BY DEF Longer
  <2> QED
    BY <1>2, <2>1 DEF HeadKnown, Longer
<1> QED
  BY <1>1, <1>2 DEF HeadKnown, SyncStates

LEMMA CommaKept ==
    ASSUME NEW s, NEW t, Longer(s, t), NEW n \in Nat, n <= Len(s), CommaThenBody(s, n)
    PROVE  CommaThenBody(t, n)
<1>1. PICK k \in {6, 7} :
          /\ k < n
          /\ At(s, k) = Comma
          /\ \A j \in (k + 1)..(n - 1) : At(s, j) \in NmeaBody
  BY DEF CommaThenBody
<1>2. \A j \in 0..(n - 1) : At(t, j) = At(s, j)
  BY DEF Longer
<1>3. At(t, k) = Comma
  BY <1>1, <1>2
<1>4. \A j \in (k + 1)..(n - 1) : At(t, j) \in NmeaBody
  BY <1>1, <1>2
<1> QED
  BY <1>1, <1>3, <1>4 DEF CommaThenBody

LEMMA Le16Kept ==
    ASSUME NEW s, NEW t, Longer(s, t), NEW k \in Nat, k + 2 <= Len(s)
    PROVE  Le16(t, k) = Le16(s, k)
<1>1. k \in 0..(Len(s) - 1) /\ k + 1 \in 0..(Len(s) - 1)
  BY DEF Longer
<1>2. At(t, k) = At(s, k) /\ At(t, k + 1) = At(s, k + 1)
  BY <1>1 DEF Longer
<1> QED
  BY <1>2 DEF Le16

-----------------------------------------------------------------------------
(* The handlers keep the invariant *)

LEMMA MatchSyncKeepsInv ==
    ASSUME IInv, MatchSync PROVE IInv'
<1>1. Scanning /\ Take(value, "NONE", error_code)
  BY DEF MatchSync
<1>2. PICK e \in SyncEdges :
          /\ e[1] = state
          /\ e[2] = c
          /\ state' = e[3]
          /\ specified_len' = IF e[3] \in DOMAIN FieldLen THEN FieldLen[e[3]]
                                                          ELSE specified_len
  BY DEF MatchSync, Goto
<1>3. \/ state = "S0" /\ c = 170 /\ state' = "S1" /\ specified_len' = specified_len
      \/ state = "S0" /\ c = Dollar /\ state' = "S18" /\ specified_len' = 5
      \/ state = "S1" /\ c = 204 /\ state' = "S2" /\ specified_len' = specified_len
      \/ state = "S2" /\ c = 72 /\ state' = "S3" /\ specified_len' = specified_len
      \/ state = "S3" /\ c = 67 /\ state' = "S4" /\ specified_len' = 2
      \/ state = "S1" /\ c = 85 /\ state' = "S12" /\ specified_len' = specified_len
      \/ state = "S12" /\ c = 72 /\ state' = "S13" /\ specified_len' = specified_len
      \/ state = "S13" /\ c = 67 /\ state' = "S14" /\ specified_len' = 2
      \/ state = "S1" /\ c = 68 /\ state' = "S25" /\ specified_len' = specified_len
      \/ state = "S25" /\ c = 18 /\ state' = "S26" /\ specified_len' = specified_len
      \/ state = "S26" /\ c = 28 /\ state' = "S27" /\ specified_len' = 24
  BY <1>2 DEF SyncEdges, HeaderEdges, ShortEdges, NovatelEdges, FieldLen
<1>4. state' \in States \ {"S0"} /\ specified_len' \in Nat
  BY <1>3 DEF States, SyncStates, FieldStates, IInv, TypeOK
<1>5. CASE Overflowed
  BY <1>1, <1>4, <1>5, OverflowKeepsInv
<1>6. CASE Grew("NONE", error_code)
  <2>1. HeadKnown(state, value)
    BY <1>1 DEF IInv, TokenShape, Scanning
  <2>2. /\ Len(value') = Len(value) + 1
        /\ \A k \in 0..(Len(value) - 1) : At(value', k) = At(value, k)
        /\ At(value', Len(value)) = c
        /\ Len(value) \in Nat
    BY <1>1, <1>6, ScanFacts DEF Grew
  <2>3. HeadKnown(state', value') /\ Len(value) \in 0..3
          /\ (state = "S0" <=> Len(value) = 0)
          /\ (Len(value) = 3 <=> state' \in {"S4", "S14", "S27"})
    <3>1. \/ state = "S0" /\ c = 170 /\ state' = "S1"
          \/ state = "S0" /\ c = Dollar /\ state' = "S18"
          \/ state = "S1" /\ c = 204 /\ state' = "S2"
          \/ state = "S2" /\ c = 72 /\ state' = "S3"
          \/ state = "S3" /\ c = 67 /\ state' = "S4"
          \/ state = "S1" /\ c = 85 /\ state' = "S12"
          \/ state = "S12" /\ c = 72 /\ state' = "S13"
          \/ state = "S13" /\ c = 67 /\ state' = "S14"
          \/ state = "S1" /\ c = 68 /\ state' = "S25"
          \/ state = "S25" /\ c = 18 /\ state' = "S26"
          \/ state = "S26" /\ c = 28 /\ state' = "S27"
      BY <1>3
    <3> QED
      BY <2>1, <2>2, <3>1, HeadGrows
  <2>4. EndKnown(state', value', specified_len')
    <3>1. CASE state' = "S18"
      BY <1>3, <2>2, <2>3, <3>1 DEF EndKnown, FieldEnd
    <3>2. CASE state' \in {"S4", "S14"}
      <4>1. Len(value') = 4 /\ specified_len' = 2
        <5>1. Len(value) = 3
          BY <2>3, <3>2
        <5> QED
          BY <1>3, <2>2, <3>2, <5>1
      <4> QED
        BY <3>2, <4>1 DEF EndKnown, FieldEnd
    <3>3. CASE state' = "S27"
      <4>1. Len(value') = 4 /\ specified_len' = 24
        <5>1. Len(value) = 3
          BY <2>3, <3>3
        <5> QED
          BY <1>3, <2>2, <3>3, <5>1
      <4> QED
        BY <3>3, <4>1 DEF EndKnown, FieldEnd
    <3>4. CASE state' \in {"S1", "S2", "S3", "S12", "S13", "S25", "S26"}
      BY <3>4 DEF EndKnown, FieldStates
    <3> QED
      BY <1>3, <3>1, <3>2, <3>3, <3>4
  <2> QED
    BY <1>1, <1>4, <1>6, <2>3, <2>4, GrewKeepsInv
<1> QED
  BY <1>1, <1>5, <1>6, TakeStep

LEMMA MismatchSyncKeepsInv ==
    ASSUME IInv, MismatchSync PROVE IInv'
<1>1. Scanning /\ Stay /\ Reject /\ state' \in States /\ specified_len' \in Nat
  BY DEF MismatchSync, Stay, IInv, TypeOK
<1>2. CASE state = "S0"
  <2>1. Grew("ERROR", state) \/ Overflowed
    BY <1>1, <1>2, TakeStep DEF Reject
  <2> QED
    BY <1>1, <2>1, BreakKeepsInv, OverflowKeepsInv
<1>3. CASE state # "S0"
  BY <1>1, <1>3, TokenBegun, RefuseKeepsInv DEF Reject
<1> QED
  BY <1>2, <1>3

LEMMA CountFieldKeepsInv ==
    ASSUME IInv, CountField PROVE IInv'
<1>1. /\ Scanning /\ Take(value, "NONE", error_code) /\ state \in FieldStates
      /\ state' = state /\ specified_len' = specified_len - 1
      /\ specified_len > 0 /\ specified_len \in Nat
  BY DEF CountField, Goto, IInv, TypeOK
<1>2. state' \in States \ {"S0"} /\ specified_len' \in Nat
  BY <1>1 DEF States, FieldStates
<1>3. CASE Overflowed
  BY <1>1, <1>2, <1>3, OverflowKeepsInv
<1>4. CASE Grew("NONE", error_code)
  <2>1. HeadKnown(state, value) /\ EndKnown(state, value, specified_len)
    BY <1>1 DEF IInv, TokenShape, Scanning
  <2>2. Longer(value, value') /\ Len(value') = Len(value) + 1 /\ Len(value) \in Nat
    BY <1>1, <1>4, ScanFacts DEF Grew, Longer
  <2>3. HeadKnown(state', value')
    BY <1>1, <2>1, <2>2, HeadKept DEF FieldStates, SyncStates
  <2>4. EndKnown(state', value', specified_len')
    BY <1>1, <2>1, <2>2 DEF EndKnown, FieldStates, FieldEnd
  <2> QED
    BY <1>1, <1>2, <1>4, <2>3, <2>4, GrewKeepsInv
<1> QED
  BY <1>1, <1>3, <1>4, TakeStep

LEMMA FieldDoneKeepsInv ==
    ASSUME IInv, FieldDone PROVE IInv'
<1>1. /\ Scanning /\ Peek("NONE", error_code) /\ value' = value
      /\ state \in {"S4", "S5", "S6", "S7", "S8", "S14", "S18"}
      /\ state' = NextField[state] /\ specified_len = 0
      /\ specified_len' = IF NextField[state] \in DOMAIN FieldLen
                          THEN FieldLen[NextField[state]] ELSE 0
  BY DEF FieldDone, Goto, Peek, NextField
<1>2. state' \in States \ {"S0"} /\ specified_len' \in Nat
  BY <1>1 DEF States, FieldStates, NextField, FieldLen
<1>3. HeadKnown(state, value) /\ EndKnown(state, value, specified_len) /\ Len(value) \in Nat
  BY <1>1, ScanFacts DEF IInv, TokenShape, Scanning
<1>4. HeadKnown(state', value')
  BY <1>1, <1>3 DEF HeadKnown, NextField, Begins
<1>5. EndKnown(state', value', specified_len')
  <2>1. Len(value) = FieldEnd[state]
    BY <1>1, <1>3 DEF EndKnown, FieldStates
  <2>2. CASE state = "S18"
    <3>1. state' = "S19" /\ Len(value') = 6
      BY <1>1, <2>1, <2>2, FieldEnds DEF NextField
    <3> QED
      BY <3>1 DEF EndKnown, FieldStates
  <2>3. CASE state # "S18"
    <3>1. state \in {"S4", "S5", "S6", "S7", "S8", "S14"}
      BY <1>1, <2>3
    <3>2. /\ state' \in {"S5", "S6", "S7", "S8", "S9", "S15"}
          /\ specified_len' = FieldLen[state']
          /\ FieldEnd[state'] = FieldEnd[state] + FieldLen[state']
      BY <1>1, <3>1, FieldChain
    <3>3. Len(value') + specified_len' = FieldEnd[state']
      BY <1>1, <2>1, <3>2
    <3> QED
      BY <3>2, <3>3 DEF EndKnown
  <2> QED
    BY <2>2, <2>3
<1>6. pos > start
  BY <1>1, TokenBegun
<1> QED
  BY <1>1, <1>2, <1>4, <1>5, <1>6, PeekKeepsInv

\* The two bytes of a length field are a number.
LEMMA Le16Nat ==
    ASSUME NEW s \in Seq(Byte), NEW k \in Nat, k + 2 <= Len(s)
    PROVE  Le16(s, k) \in Nat
<1>1. Len(s) \in Nat /\ k + 1 \in 1..Len(s) /\ (k + 1) + 1 \in 1..Len(s)
  BY LenProperties
<1>2. s[k + 1] \in Byte /\ s[(k + 1) + 1] \in Byte
  BY <1>1, ElementOfSeq
<1>3. s[k + 1] \in Nat /\ s[(k + 1) + 1] \in Nat
  <2>1. \A b \in Byte : b \in Nat
    BY DEF Byte
  <2> QED
    BY <1>2, <2>1
<1>4. Le16(s, k) = s[k + 1] + 256 * s[(k + 1) + 1]
  BY DEF Le16, At
<1> QED
  BY <1>3, <1>4

LEMMA LengthKnownKeepsInv ==
    ASSUME IInv, LengthKnown PROVE IInv'
<1>1. /\ Scanning /\ Peek("NONE", error_code) /\ value' = value
      /\ state \in {"S9", "S15"} /\ specified_len = 0
      /\ state' = IF state = "S9" THEN "S10" ELSE "S16"
      /\ specified_len' = Le16(value, 4) + 4
  BY DEF LengthKnown, Goto, Peek, BodyLen
<1>2. HeadKnown(state, value) /\ EndKnown(state, value, specified_len)
      /\ Len(value) \in Nat /\ value \in Seq(Byte)
  BY <1>1, ScanFacts DEF IInv, TypeOK, TokenShape, Scanning
<1>3. Len(value) = IF state = "S9" THEN 22 ELSE 8
  <2>1. Len(value) = FieldEnd[state]
    BY <1>1, <1>2 DEF EndKnown, FieldStates
  <2> QED
    BY <1>1, <2>1, FieldEnds
<1>4. Le16(value, 4) \in Nat
  <2>1. 4 + 2 <= Len(value)
    BY <1>1, <1>3
  <2> QED
    BY <1>2, <2>1, Le16Nat
<1>5. state' \in States \ {"S0"} /\ specified_len' \in Nat
  BY <1>1, <1>4 DEF States, BodyStates
<1>6. HeadKnown(state', value')
  BY <1>1, <1>2 DEF HeadKnown
<1>7. EndKnown(state', value', specified_len')
  BY <1>1, <1>3, <1>4 DEF EndKnown, FieldStates
<1>8. pos > start
  BY <1>1, TokenBegun
<1> QED
  BY <1>1, <1>5, <1>6, <1>7, <1>8, PeekKeepsInv

LEMMA NovatelLengthKeepsInv ==
    ASSUME IInv, NovatelLength PROVE IInv'
<1>1. Scanning /\ state = "S27" /\ specified_len = 0 /\ pos > start
  BY TokenBegun DEF NovatelLength
<1>2. HeadKnown(state, value) /\ EndKnown(state, value, specified_len)
      /\ Len(value) \in Nat /\ value \in Seq(Byte)
  BY <1>1, ScanFacts DEF IInv, TypeOK, TokenShape, Scanning
<1>3. Len(value) = 28
  <2>1. Len(value) = FieldEnd[state]
    BY <1>1, <1>2 DEF EndKnown, FieldStates
  <2> QED
    BY <1>1, <2>1, FieldEnds
<1>4. Le16(value, 8) \in Nat
  <2>1. 8 + 2 <= Len(value)
    BY <1>3
  <2> QED
    BY <1>2, <2>1, Le16Nat
<1>5. CASE Stay /\ Peek("ERROR", state)
  BY <1>1, <1>5, RefuseKeepsInv
<1>6. CASE /\ Le16(value, 8) # 0
           /\ Goto("S28", Le16(value, 8) + 4) /\ Peek("NONE", error_code)
  <2>1. /\ value' = value /\ state' = "S28"
        /\ specified_len' = Le16(value, 8) + 4 /\ Le16(value, 8) > 0
    BY <1>4, <1>6 DEF Goto, Peek
  <2>2. state' \in States \ {"S0"} /\ specified_len' \in Nat
    BY <1>4, <2>1 DEF States
  <2>3. HeadKnown(state', value')
    BY <1>1, <1>2, <2>1 DEF HeadKnown
  <2>4. EndKnown(state', value', specified_len')
    <3>1. /\ Len(value') = 28 /\ specified_len' > 0 /\ Le16(value', 8) > 0
          /\ Len(value') + specified_len' = 28 + Le16(value', 8) + 4
      <4>1. Len(value') = 28 /\ specified_len' = Le16(value', 8) + 4
        BY <1>3, <2>1
      <4>2. Le16(value', 8) \in Nat \ {0}
        BY <1>4, <2>1
      <4> QED
        BY <4>1, <4>2
    <3> QED
      BY <2>1, <3>1 DEF EndKnown, FieldStates
  <2> QED
    BY <1>1, <1>6, <2>2, <2>3, <2>4, PeekKeepsInv
<1> QED
  BY <1>5, <1>6 DEF NovatelLength

\* A counted sentence keeps its star and its body while it grows.
LEMMA SentenceKept ==
    ASSUME NEW s, NEW t, Longer(s, t), NEW left \in 1..4,
           At(s, Len(s) + left - 5) = Star, CommaThenBody(s, Len(s) + left - 5)
    PROVE  /\ At(t, Len(t) + (left - 1) - 5) = Star
           /\ CommaThenBody(t, Len(t) + (left - 1) - 5)
           /\ Len(s) + left - 5 >= 7
<1> DEFINE n == Len(s) + left - 5
<1>1. n \in Int /\ n <= Len(s) - 1 /\ Len(t) + (left - 1) - 5 = n
  BY DEF Longer
<1>2. n >= 7
  <2>1. PICK k \in {6, 7} : k < n
    BY DEF CommaThenBody
  <2> QED
    BY <1>1, <2>1
<1> HIDE DEF n
<1>3. n \in Nat /\ n <= Len(s) /\ n \in 0..(Len(s) - 1)
  BY <1>1, <1>2 DEF Longer
<1>4. At(t, n) = At(s, n)
  BY <1>3 DEF Longer
<1>5. CommaThenBody(t, n)
  BY <1>3, CommaKept DEF n
<1> QED
  BY <1>1, <1>2, <1>4, <1>5 DEF n

LEMMA BodyKeepsInv ==
    ASSUME IInv, Body PROVE IInv'
<1>1. Scanning /\ state \in {"S10", "S16", "S22"} /\ specified_len \in Nat
  BY DEF Body, BodyStates, IInv, TypeOK
<1>2. /\ HeadKnown(state, value) /\ EndKnown(state, value, specified_len)
      /\ Len(value) \in Nat
  BY <1>1, ScanFacts DEF IInv, TokenShape, Scanning
<1>3. specified_len > 0
  BY <1>1, <1>2 DEF EndKnown
<1>4. state = "S10" => Len(value) >= 22 /\ Len(value) + specified_len = 26 + Le16(value, 4)
  BY <1>2 DEF EndKnown
<1>5. state = "S16" => Len(value) >= 8 /\ Len(value) + specified_len = 12 + Le16(value, 4)
  BY <1>2 DEF EndKnown
<1>6. state = "S22" => /\ specified_len \in 1..4
                       /\ At(value, Len(value) + specified_len - 5) = Star
                       /\ CommaThenBody(value, Len(value) + specified_len - 5)
  BY <1>2 DEF EndKnown
<1>7. CASE specified_len > 1
  <2>1. /\ state' = state /\ specified_len' = specified_len - 1
        /\ Take(value, "NONE", error_code)
    BY <1>1, <1>7 DEF Body, Goto
  <2>2. state' \in States \ {"S0"} /\ specified_len' \in Nat \ {0}
    BY <1>1, <1>7, <2>1 DEF States, BodyStates
  <2>3. CASE Overflowed
    BY <1>1, <2>2, <2>3, OverflowKeepsInv
  <2>4. CASE Grew("NONE", error_code)
    <3>1. Longer(value, value')
      BY <1>1, <2>4, ScanFacts DEF Grew, Longer
    <3>2. HeadKnown(state', value')
      BY <1>1, <1>2, <2>1, <3>1, HeadKept DEF SyncStates
    <3>3. /\ Len(value') = Len(value) + 1
          /\ Len(value') + specified_len' = Len(value) + specified_len
      BY <1>1, <1>2, <2>1, <3>1 DEF Longer
    <3>4. ASSUME state \in {"S10", "S16"}
          PROVE  EndKnown(state', value', specified_len')
      <4>1. Le16(value', 4) = Le16(value, 4)
        BY <1>2, <1>4, <1>5, <3>1, <3>4, Le16Kept
      <4>2. /\ state' = "S10" => Len(value') >= 22
                                  /\ Len(value') + specified_len' = 26 + Le16(value', 4)
            /\ state' = "S16" => Len(value') >= 8
                                  /\ Len(value') + specified_len' = 12 + Le16(value', 4)
        BY <1>2, <1>4, <1>5, <2>1, <3>3, <4>1
      <4>3. specified_len' > 0
        BY <2>2
      <4> QED
        BY <2>1, <3>4, <4>2, <4>3 DEF EndKnown, FieldStates
    <3>5. ASSUME state = "S22"
          PROVE  EndKnown(state', value', specified_len')
      <4>1. specified_len' \in 1..4
        BY <1>1, <1>6, <1>7, <2>1, <3>5
      <4>2. /\ At(value', Len(value') + specified_len' - 5) = Star
            /\ CommaThenBody(value', Len(value') + specified_len' - 5)
        BY <1>6, <2>1, <3>1, <3>5, SentenceKept
      <4> QED
        BY <2>1, <3>5, <4>1, <4>2 DEF EndKnown, FieldStates
    <3>6. EndKnown(state', value', specified_len')
      BY <1>1, <3>4, <3>5
    <3> QED
      BY <1>1, <2>2, <2>4, <3>2, <3>6, GrewKeepsInv
  <2> QED
    BY <1>1, <2>1, <2>3, <2>4, TakeStep
<1>8. CASE specified_len = 1
  <2>1. /\ state' = "S0" /\ specified_len' = 0
        /\ Take(value, Emits[state], error_code)
    BY <1>8 DEF Body, Goto
  <2>2. state' \in States /\ specified_len' \in Nat
    BY <2>1 DEF States, SyncStates
  <2>3. CASE Overflowed
    BY <1>1, <2>2, <2>3, OverflowKeepsInv
  <2>4. CASE Grew(Emits[state], error_code)
    <3>1. Longer(value, value') /\ Len(value') = Len(value) + 1
      BY <1>1, <2>4, ScanFacts DEF Grew, Longer
    <3>2. HeadKnown(state, value')
      BY <1>1, <1>2, <3>1, HeadKept DEF SyncStates
    <3>3. ASSUME state \in {"S10", "S16"}
          PROVE  IsFrame(Emits[state], value')
      <4>1. Le16(value', 4) = Le16(value, 4)
        BY <1>2, <1>4, <1>5, <3>1, <3>3, Le16Kept
      <4>2. value' \in Seq(Byte)
        BY <2>4 DEF Grew
      <4>3. 4 + 2 <= Len(value')
        BY <1>2, <1>4, <1>5, <3>1, <3>3
      <4>4. Le16(value', 4) \in Nat
        BY <4>2, <4>3, Le16Nat
      <4>5. state = "S10" => IsCgi(value')
        <5>1. state = "S10" => Len(value') = 26 + Le16(value', 4)
          BY <1>2, <1>4, <1>8, <3>1, <4>1
        <5>2. state = "S10" => Begins(value', 170, 204, 72, 67)
          BY <3>2 DEF HeadKnown
        <5> QED
          BY <4>4, <5>1, <5>2 DEF IsCgi
      <4>6. state = "S16" => IsShort(value')
        <5>1. state = "S16" => Len(value') = 12 + Le16(value', 4)
          BY <1>2, <1>5, <1>8, <3>1, <4>1
        <5>2. state = "S16" => Begins(value', 170, 85, 72, 67)
          BY <3>2 DEF HeadKnown
        <5> QED
          BY <4>4, <5>1, <5>2 DEF IsShort
      <4> QED
        BY <3>3, <4>5, <4>6 DEF Emits, IsFrame
    <3>4. ASSUME state = "S22"
          PROVE  IsFrame(Emits[state], value')
      <4>1. /\ At(value', Len(value') + 0 - 5) = Star
            /\ CommaThenBody(value', Len(value') + 0 - 5)
            /\ Len(value) + 1 - 5 >= 7
        <5>1. /\ At(value', Len(value') + (1 - 1) - 5) = Star
              /\ CommaThenBody(value', Len(value') + (1 - 1) - 5)
              /\ Len(value) + 1 - 5 >= 7
          BY <1>6, <1>8, <3>1, <3>4, SentenceKept
        <5> QED
          BY <5>1
      <4>2. Len(value') \in Nat /\ Len(value') >= 11
        BY <1>2, <3>1, <4>1
      <4>3. /\ At(value', 0) = Dollar
            /\ <<At(value', 1), At(value', 2)>> \in Talkers
        BY <3>2, <3>4 DEF HeadKnown
      <4>4. Len(value') + 0 - 5 = Len(value') - 5
        BY <4>2
      <4>5. At(value', Len(value') - 5) = Star /\ CommaThenBody(value', Len(value') - 5)
        BY <4>1, <4>4
      <4>6. IsNmea(value')
        BY <4>2, <4>3, <4>5, <1>2, <3>1, <4>1 DEF IsNmea
      <4> QED
        BY <3>4, <4>6 DEF Emits, IsFrame
    <3>5. IsFrame(Emits[state], value') /\ Emits[state] \in FrameTypes
      <4>1. Emits[state] \in FrameTypes
        BY <1>1 DEF Emits, FrameTypes
      <4> QED
        BY <1>1, <3>3, <3>4, <4>1
    <3> QED
      BY <1>1, <2>1, <2>2, <2>4, <3>5, EmitKeepsInv
  <2> QED
    BY <1>1, <2>1, <2>3, <2>4, TakeStep
<1> QED
  BY <1>1, <1>3, <1>7, <1>8

LEMMA NmeaHeadKeepsInv ==
    ASSUME IInv, NmeaHead PROVE IInv'
<1>1. Scanning /\ state = "S19" /\ pos > start
  BY TokenBegun DEF NmeaHead
<1>2. /\ HeadKnown(state, value) /\ EndKnown(state, value, specified_len)
      /\ Len(value) = 6 /\ At(value, 0) = Dollar
  BY <1>1 DEF IInv, TokenShape, Scanning, HeadKnown, EndKnown
<1>3. CASE Stay /\ Peek("ERROR", state)
  BY <1>1, <1>3, RefuseKeepsInv
<1>4. CASE /\ <<value[2], value[3]>> \in Talkers
           /\ Goto(IF c = Comma THEN "S21" ELSE "S20", specified_len)
           /\ Take(value, "NONE", error_code)
  <2>1. /\ state' = IF c = Comma THEN "S21" ELSE "S20"
        /\ specified_len' = specified_len
    BY <1>4 DEF Goto
  <2>2. state' \in States \ {"S0"} /\ specified_len' \in Nat
    BY <2>1 DEF States, IInv, TypeOK
  <2>3. CASE Overflowed
    BY <1>1, <2>2, <2>3, OverflowKeepsInv
  <2>4. CASE Grew("NONE", error_code)
    <3>1. /\ Len(value') = 7
          /\ At(value', 0) = Dollar /\ At(value', 1) = At(value, 1)
          /\ At(value', 2) = At(value, 2) /\ At(value', 6) = c
      BY <1>2, <2>4 DEF Grew
    <3>2. <<At(value', 1), At(value', 2)>> \in Talkers
      <4>1. At(value, 1) = value[2] /\ At(value, 2) = value[3]
        BY DEF At
      <4> QED
        BY <1>4, <3>1, <4>1
    <3>3. HeadKnown(state', value')
      BY <2>1, <3>1, <3>2 DEF HeadKnown
    <3>4. c = Comma => CommaThenBody(value', Len(value'))
      BY <3>1 DEF CommaThenBody
    <3>5. EndKnown(state', value', specified_len')
      BY <2>1, <3>1, <3>4 DEF EndKnown, FieldStates
    <3> QED
      BY <1>1, <2>2, <2>4, <3>3, <3>5, GrewKeepsInv
  <2> QED
    BY <1>1, <1>4, <2>3, <2>4, TakeStep
<1> QED
  BY <1>3, <1>4 DEF NmeaHead

LEMMA NmeaCommaKeepsInv ==
    ASSUME IInv, NmeaComma PROVE IInv'
<1>1. Scanning /\ state = "S20" /\ pos > start
  BY TokenBegun DEF NmeaComma
<1>2. /\ HeadKnown(state, value)
      /\ Len(value) = 7
  BY <1>1 DEF IInv, TokenShape, Scanning, EndKnown
<1>3. CASE Stay /\ Peek("ERROR", state)
  BY <1>1, <1>3, RefuseKeepsInv
<1>4. CASE c = Comma /\ Goto("S21", specified_len) /\ Take(value, "NONE", error_code)
  <2>1. state' = "S21" /\ specified_len' \in Nat /\ state' \in States \ {"S0"}
    BY <1>4 DEF Goto, States, IInv, TypeOK
  <2>2. CASE Overflowed
    BY <1>1, <2>1, <2>2, OverflowKeepsInv
  <2>3. CASE Grew("NONE", error_code)
    <3>1. Longer(value, value') /\ Len(value') = 8 /\ At(value', 7) = Comma
      BY <1>2, <1>4, <2>3 DEF Grew, Longer
    <3>2. HeadKnown(state, value')
      BY <1>1, <1>2, <3>1, HeadKept DEF SyncStates
    <3>3. HeadKnown(state', value')
      BY <1>1, <2>1, <3>2 DEF HeadKnown
    <3>4. CommaThenBody(value', Len(value'))
      BY <3>1 DEF CommaThenBody
    <3>5. EndKnown(state', value', specified_len')
      BY <2>1, <3>4 DEF EndKnown, FieldStates
    <3> QED
      BY <1>1, <2>1, <2>3, <3>3, <3>5, GrewKeepsInv
  <2> QED
    BY <1>1, <1>4, <2>2, <2>3, TakeStep
<1> QED
  BY <1>3, <1>4 DEF NmeaComma

LEMMA NmeaFieldsKeepsInv ==
    ASSUME IInv, NmeaFields PROVE IInv'
<1>1. Scanning /\ state = "S21" /\ pos > start
  BY TokenBegun DEF NmeaFields
<1>2. /\ HeadKnown(state, value) /\ CommaThenBody(value, Len(value))
      /\ Len(value) \in Nat
  BY <1>1, ScanFacts DEF IInv, TokenShape, Scanning, EndKnown
<1>3. CASE Stay /\ Peek("ERROR", state)
  BY <1>1, <1>3, RefuseKeepsInv
<1>4. CASE c = Star /\ Goto("S22", 4) /\ Take(value, "NONE", error_code)
  <2>1. /\ state' = "S22" /\ specified_len' = 4 /\ state' \in States \ {"S0"}
        /\ specified_len' \in Nat
    BY <1>4 DEF Goto, States, BodyStates
  <2>2. CASE Overflowed
    BY <1>1, <2>1, <2>2, OverflowKeepsInv
  <2>3. CASE Grew("NONE", error_code)
    <3>1. /\ Longer(value, value') /\ Len(value') + 4 - 5 = Len(value)
          /\ At(value', Len(value)) = Star
      BY <1>2, <1>4, <2>3 DEF Grew, Longer
    <3>2. HeadKnown(state, value')
      BY <1>1, <1>2, <3>1, HeadKept DEF SyncStates
    <3>3. HeadKnown(state', value')
      BY <1>1, <2>1, <3>2 DEF HeadKnown
    <3>4. CommaThenBody(value', Len(value))
      BY <1>2, <3>1, CommaKept
    <3>5. /\ At(value', Len(value') + specified_len' - 5) = Star
          /\ CommaThenBody(value', Len(value') + specified_len' - 5)
          /\ specified_len' \in 1..4
      BY <2>1, <3>1, <3>4
    <3>6. EndKnown(state', value', specified_len')
      BY <2>1, <3>5 DEF EndKnown, FieldStates
    <3> QED
      BY <1>1, <2>1, <2>3, <3>3, <3>6, GrewKeepsInv
  <2> QED
    BY <1>1, <1>4, <2>2, <2>3, TakeStep
<1>5. CASE c \in NmeaBody /\ Stay /\ Take(value, "NONE", error_code)
  <2>1. state' = "S21" /\ specified_len' \in Nat /\ state' \in States \ {"S0"}
    BY <1>1, <1>5 DEF Stay, States, IInv, TypeOK
  <2>2. CASE Overflowed
    BY <1>1, <2>1, <2>2, OverflowKeepsInv
  <2>3. CASE Grew("NONE", error_code)
    <3>1. /\ Longer(value, value') /\ Len(value') = Len(value) + 1
          /\ At(value', Len(value)) \in NmeaBody
      BY <1>2, <1>5, <2>3 DEF Grew, Longer
    <3>2. HeadKnown(state', value')
      BY <1>1, <1>2, <2>1, <3>1, HeadKept DEF SyncStates
    <3>3. CommaThenBody(value', Len(value'))
      <4>1. PICK k \in {6, 7} :
               /\ k < Len(value)
               /\ At(value, k) = Comma
               /\ \A j \in (k + 1)..(Len(value) - 1) : At(value, j) \in NmeaBody
        BY <1>2 DEF CommaThenBody
      <4>2. At(value', k) = Comma /\ k < Len(value')
        BY <1>2, <3>1, <4>1 DEF Longer
      <4>3. ASSUME NEW j \in (k + 1)..(Len(value') - 1) PROVE At(value', j) \in NmeaBody
        <5>1. CASE j = Len(value)
          BY <3>1, <5>1
        <5>2. CASE j # Len(value)
          <6>1. j \in (k + 1)..(Len(value) - 1) /\ j \in 0..(Len(value) - 1)
            BY <1>2, <3>1, <4>1, <5>2
          <6>2. At(value', j) = At(value, j)
            BY <3>1, <6>1 DEF Longer
          <6> QED
            BY <4>1, <6>1, <6>2
        <5> QED
          BY <5>1, <5>2
      <4> QED
        BY <4>2, <4>3 DEF CommaThenBody
    <3>4. EndKnown(state', value', specified_len')
      BY <2>1, <3>3 DEF EndKnown, FieldStates
    <3> QED
      BY <1>1, <2>1, <2>3, <3>2, <3>4, GrewKeepsInv
  <2> QED
    BY <1>1, <1>5, <2>2, <2>3, TakeStep
<1> QED
  BY <1>3, <1>4, <1>5 DEF NmeaFields

\* The log of a frame whose checksum is four bytes before its end.
LEMMA InclusiveFrame ==
    ASSUME NEW s \in Seq(Byte), Len(s) >= 33, Begins(s, 170, 68, 18, 28),
           Len(s) = 28 + Le16(s, 8) + 4, CrcAt(s, Len(s) - 8)
    PROVE  IsFrame("NOVATEL_MSG", s)
<1> DEFINE n == Len(s) - 4
           g == SubSeq(s, 1, n)
<1>1. Len(s) \in Nat /\ n \in Nat /\ n >= 29 /\ n <= Len(s)
  BY LenProperties
<1>2. \A i \in 1..n : s[i] \in Byte
  <2> SUFFICES ASSUME NEW i \in 1..n PROVE s[i] \in Byte
    OBVIOUS
  <2>1. i \in 1..Len(s)
    BY <1>1
  <2> QED
    BY <2>1, ElementOfSeq
<1>3. /\ Len(g) = n
      /\ \A i \in 1..n : g[i] = s[i]
  <2>1. /\ Len(g) = IF 1 <= n THEN n - 1 + 1 ELSE 0
        /\ \A i \in 1..(n - 1 + 1) : g[i] = s[1 + i - 1]
    BY <1>1, <1>2, SubSeqProperties
  <2> QED
    BY <1>1, <2>1
<1>4. Begins(g, 170, 68, 18, 28)
  <2>1. g[1] = s[1] /\ g[2] = s[2] /\ g[3] = s[3] /\ g[4] = s[4]
    BY <1>1, <1>3
  <2>2. \A k \in 0..3 : At(g, k) = At(s, k)
    <3>1. At(g, 0) = At(s, 0) /\ At(g, 1) = At(s, 1) /\ At(g, 2) = At(s, 2) /\ At(g, 3) = At(s, 3)
      BY <2>1 DEF At
    <3> QED
      BY <3>1
  <2> QED
    BY <2>2 DEF Begins
<1>5. Len(g) = 28 + Le16(g, 8)
  <2>1. g[9] = s[9] /\ g[10] = s[10]
    BY <1>1, <1>3
  <2>2. Le16(g, 8) = Le16(s, 8)
    BY <2>1 DEF Le16, At
  <2>3. Le16(s, 8) \in Nat
    BY <1>1, Le16Nat
  <2> QED
    BY <1>1, <1>3, <2>2, <2>3
<1>6. CrcAt(g, n - 4)
  <2>1. ASSUME NEW a \in 1..n, NEW b \in 1..n
        PROVE  SubSeq(g, a, b) = SubSeq(s, a, b)
    <3>1. 1 \in 1..Len(s) /\ n \in 1..Len(s) /\ n - 1 + 1 = n
      BY <1>1
    <3>2. SubSeq(g, a, b) = SubSeq(s, 1 + a - 1, 1 + b - 1)
      BY <3>1, SubSeqOfSubSeq
    <3> QED
      BY <3>2
  <2>2. /\ 1 \in 1..n /\ n - 4 \in 1..n /\ (n - 4) + 1 \in 1..n /\ (n - 4) + 4 \in 1..n
        /\ n - 4 = Len(s) - 8 /\ (n - 4) + 1 = (Len(s) - 8) + 1
        /\ (n - 4) + 4 = (Len(s) - 8) + 4
    BY <1>1
  <2>3. /\ SubSeq(g, 1, n - 4) = SubSeq(s, 1, Len(s) - 8)
        /\ SubSeq(g, (n - 4) + 1, (n - 4) + 4) = SubSeq(s, (Len(s) - 8) + 1, (Len(s) - 8) + 4)
    BY <2>1, <2>2
  <2>4. Crc(SubSeq(s, 1, Len(s) - 8)) = SubSeq(s, (Len(s) - 8) + 1, (Len(s) - 8) + 4)
    BY DEF CrcAt
  <2> QED
    BY <2>3, <2>4 DEF CrcAt
<1>7. IsNovatelIncl(g)
  BY <1>1, <1>3, <1>4, <1>5, <1>6 DEF IsNovatelIncl
<1> QED
  BY <1>7 DEF IsFrame

LEMMA NovatelDataKeepsInv ==
    ASSUME IInv, NovatelData PROVE IInv'
<1>1. Scanning /\ state = "S28" /\ specified_len \in Nat
  BY DEF NovatelData, IInv, TypeOK
<1>2. /\ HeadKnown(state, value) /\ Len(value) \in Nat /\ value \in Seq(Byte)
      /\ stream \in Seq(Byte) /\ c \in Byte
      /\ Len(value) >= 28 /\ specified_len > 0 /\ Le16(value, 8) > 0
      /\ Len(value) + specified_len = 28 + Le16(value, 8) + 4
  BY <1>1, ScanFacts DEF IInv, TypeOK, TokenShape, Scanning, EndKnown
<1>3. Le16(value, 8) \in Nat
  <2>1. 8 + 2 <= Len(value)
    BY <1>2
  <2> QED
    BY <1>2, <2>1, Le16Nat
<1>4. CASE /\ specified_len > 1
           /\ Goto(state, specified_len - 1)
           /\ Take(value, "NONE", error_code)
  <2>1. /\ state' = "S28" /\ specified_len' = specified_len - 1
        /\ state' \in States \ {"S0"} /\ specified_len' \in Nat /\ specified_len' > 0
    BY <1>1, <1>4 DEF Goto, States
  <2>2. CASE Overflowed
    BY <1>1, <2>1, <2>2, OverflowKeepsInv
  <2>3. CASE Grew("NONE", error_code)
    <3>1. Longer(value, value') /\ Len(value') = Len(value) + 1
      BY <1>2, <2>3 DEF Grew, Longer
    <3>2. HeadKnown(state', value')
      BY <1>1, <1>2, <2>1, <3>1, HeadKept DEF SyncStates
    <3>3. Le16(value', 8) = Le16(value, 8)
      BY <1>2, <3>1, Le16Kept
    <3>4. /\ Len(value') >= 28 /\ Le16(value', 8) > 0
          /\ Len(value') + specified_len' = 28 + Le16(value', 8) + 4
      BY <1>1, <1>2, <1>3, <2>1, <3>1, <3>3
    <3>5. EndKnown(state', value', specified_len')
      BY <2>1, <3>4 DEF EndKnown, FieldStates
    <3> QED
      BY <1>1, <2>1, <2>3, <3>2, <3>5, GrewKeepsInv
  <2> QED
    BY <1>1, <1>4, <2>2, <2>3, TakeStep
<1>5. ASSUME specified_len <= 1, Goto("S0", 0) PROVE
        /\ specified_len = 1 /\ state' = "S0" /\ specified_len' = 0
        /\ state' \in States /\ specified_len' \in Nat
  BY <1>1, <1>2, <1>5 DEF Goto, States, SyncStates
<1> DEFINE frame == Append(value, c)
<1>6. /\ Longer(value, frame) /\ frame \in Seq(Byte) /\ Len(frame) = Len(value) + 1
  BY <1>2, Grown DEF Longer
<1>7. ASSUME specified_len = 1
      PROVE  /\ Len(frame) >= 33 /\ Begins(frame, 170, 68, 18, 28)
             /\ Len(frame) = 28 + Le16(frame, 8) + 4
  <2>1. Le16(frame, 8) = Le16(value, 8)
    BY <1>2, <1>6, Le16Kept
  <2>2. HeadKnown(state, frame)
    BY <1>1, <1>2, <1>6, HeadKept DEF SyncStates
  <2>3. Begins(frame, 170, 68, 18, 28)
    BY <1>1, <2>2 DEF HeadKnown
  <2>4. Len(frame) = 28 + Le16(frame, 8) + 4 /\ Len(frame) >= 33
    BY <1>2, <1>3, <1>6, <1>7, <2>1
  <2> QED
    BY <2>3, <2>4
<1>8. CASE /\ specified_len <= 1 /\ Goto("S0", 0) /\ CrcExcluded(frame)
           /\ Take(value, "NOVATEL_MSG", error_code)
  <2>1. CASE Overflowed
    BY <1>1, <1>5, <1>8, <2>1, OverflowKeepsInv
  <2>2. CASE Grew("NOVATEL_MSG", error_code)
    <3>1. value' = frame
      BY <2>2 DEF Grew
    <3>2. IsNovatel(frame)
      BY <1>5, <1>7, <1>8 DEF IsNovatel, CrcExcluded
    <3>3. IsFrame("NOVATEL_MSG", value') /\ "NOVATEL_MSG" \in FrameTypes
      BY <3>1, <3>2 DEF IsFrame, FrameTypes
    <3> QED
      BY <1>1, <1>5, <1>8, <2>2, <3>3, EmitKeepsInv
  <2> QED
    BY <1>1, <1>8, <2>1, <2>2, TakeStep
<1>9. CASE /\ specified_len <= 1 /\ Goto("S0", 0) /\ CrcIncluded(frame)
           /\ Take(SubSeq(value, 1, Len(value) - 4), "NOVATEL_MSG", error_code)
  <2> DEFINE cut == SubSeq(value, 1, Len(value) - 4)
  <2>1. cut \in Seq(Byte) /\ Len(cut) = Len(value) - 4
    <3>1. \A i \in 1..(Len(value) - 4) : value[i] \in Byte
      <4> SUFFICES ASSUME NEW i \in 1..(Len(value) - 4) PROVE value[i] \in Byte
        OBVIOUS
      <4>1. i \in 1..Len(value)
        BY <1>2
      <4> QED
        BY <1>2, <4>1, ElementOfSeq
    <3>2. /\ cut \in Seq(Byte)
          /\ Len(cut) = IF 1 <= Len(value) - 4 THEN (Len(value) - 4) - 1 + 1 ELSE 0
      BY <1>2, <3>1, SubSeqProperties
    <3> QED
      BY <1>2, <3>2
  <2>2. Capacity \in Nat /\ Len(value) < Capacity
    BY CapacityAssumption DEF IInv, TypeOK
  <2>3. Fits(cut)
    BY <1>2, <2>1, <2>2 DEF Fits
  <2> HIDE DEF cut
  <2>4. /\ value' = Append(cut, c) /\ pos' = pos + 1 /\ type' = "NOVATEL_MSG"
        /\ error_code' = error_code
    BY <1>9, <2>3 DEF Take, cut
  <2>5. value' \in Seq(Byte) /\ Len(value') < Capacity
    BY <1>2, <2>1, <2>2, <2>4, AppendProperties
  <2>6. frame = SubSeq(stream, start + 1, pos + 1)
    <3>1. pos \in Nat /\ pos < Len(stream) /\ start \in 0..pos /\ value = SubSeq(stream, start + 1, pos)
      BY <1>1, <1>2, ScanFacts, LenProperties DEF IInv, TypeOK, Scanning
    <3> QED
      BY <1>2, <3>1, SegmentGrows DEF c
  <2>7. IsFrame("NOVATEL_MSG", frame)
    BY <1>5, <1>6, <1>7, <1>9, InclusiveFrame DEF CrcIncluded
  <2>8. TypeOK'
    BY <1>1, <1>5, <1>9, <2>4, <2>5, ScanFacts DEF Scanning, IInv, TypeOK, Types, FrameTypes
  <2>9. TokenShape' /\ NoStaleError' /\ ScanAdvances'
    BY <1>1, <1>5, <1>9, <2>4, ScanFacts
       DEF Scanning, TokenShape, NoStaleError, ScanAdvances, FrameTypes
  <2>10. FramesAreWhole'
    BY <1>1, <2>4, <2>6, <2>7 DEF Scanning, FramesAreWhole, Segment
  <2> QED
    BY <2>8, <2>9, <2>10 DEF IInv
<1>10. CASE /\ specified_len <= 1 /\ Goto("S0", 0) /\ Take(value, "ERROR", state)
  <2>1. Grew("ERROR", state) \/ Overflowed
    BY <1>1, <1>10, TakeStep
  <2> QED
    BY <1>1, <1>5, <1>10, <2>1, BreakKeepsInv, OverflowKeepsInv
<1> QED
  BY <1>4, <1>8, <1>9, <1>10 DEF NovatelData

LEMMA RefillKeepsInv ==
    ASSUME IInv, Refill PROVE IInv'
<1>1. PICK n \in 1..BufferSize : filled + n <= Len(stream) /\ filled' = filled + n
  BY DEF Refill
<1>2. /\ n \in Nat /\ filled \in Nat /\ filled <= Len(stream) /\ Len(stream) \in Nat
      /\ pos \in Nat /\ pos <= filled
  BY BufferAssumption, LenProperties DEF IInv, TypeOK
<1>3. filled' \in 0..Len(stream) /\ pos \in 0..filled'
  BY <1>1, <1>2
<1>4. TypeOK'
  BY <1>3 DEF Refill, IInv, TypeOK
<1> QED
  BY <1>4 DEF Refill, IInv, TokenShape, NoStaleError, FramesAreWhole, ScanAdvances, Segment

LEMMA DispatchKeepsInv ==
    ASSUME IInv, Dispatch PROVE IInv'
<1>1. /\ type \in Types \ {"NONE"} /\ start \in Nat /\ pos \in Nat
      /\ type' = "NONE" /\ value' = <<>> /\ start' = pos /\ pos' = pos
      /\ pieces' = Append(pieces, [type |-> type, from |-> start, to |-> pos])
      /\ stream \in Seq(Byte) /\ pos \in 0..Len(stream) /\ pos \in 0..filled
      /\ stream' = stream
  BY LenProperties DEF Dispatch, IInv, TypeOK, Splitter!Piece
<1>2. state' = "S0" /\ error_code' = "NONE"
  <2>1. CASE type \in FrameTypes
    BY <2>1 DEF Dispatch, ClearError, IInv, TokenShape, NoStaleError, FrameTypes
  <2>2. CASE type \notin FrameTypes
    BY <2>2 DEF Dispatch, ClearError
  <2> QED
    BY <2>1, <2>2
<1>3. TypeOK'
  <2>1. pieces' \in Seq([type : Types \ {"NONE"}, from : Nat, to : Nat])
    BY <1>1, AppendProperties DEF IInv, TypeOK
  <2>2. value' \in Seq(Byte) /\ Len(value') < Capacity
    BY <1>1, EmptySeq, CapacityAssumption
  <2>3. state' \in States /\ error_code' \in States \cup {"NONE"} /\ type' \in Types
    BY <1>1, <1>2 DEF States, SyncStates, Types
  <2> QED
    BY <1>1, <2>1, <2>2, <2>3 DEF Dispatch, IInv, TypeOK
<1>4. TokenShape'
  <2>1. value' = SubSeq(stream', start' + 1, pos')
    BY <1>1, SubSeqEmpty
  <2>2. Len(value') = 0
    BY <1>1, EmptySeq
  <2>3. HeadKnown(state', value') /\ EndKnown(state', value', specified_len')
    BY <1>2, <2>2 DEF HeadKnown, EndKnown, FieldStates
  <2> QED
    BY <1>1, <2>1, <2>3 DEF TokenShape, Segment, FrameTypes
<1>5. NoStaleError' /\ ScanAdvances' /\ FramesAreWhole'
  BY <1>1, <1>2 DEF NoStaleError, ScanAdvances, FramesAreWhole, FrameTypes
<1> QED
  BY <1>3, <1>4, <1>5 DEF IInv

-----------------------------------------------------------------------------
(* The theorems *)

LEMMA InitEstablishesInv == Init => IInv
<1> SUFFICES ASSUME Init PROVE IInv
  OBVIOUS
<1>1. /\ stream \in Seq(Byte) /\ filled = 0 /\ pos = 0 /\ start = 0 /\ state = "S0"
      /\ specified_len = 0 /\ value = <<>> /\ type = "NONE" /\ error_code = "NONE"
      /\ pieces = <<>>
  BY InputAssumption DEF Init
<1>2. Len(stream) \in Nat /\ <<>> \in Seq(Byte) /\ Len(<<>>) = 0
  BY <1>1, LenProperties, EmptySeq
<1>3. TypeOK
  <2>1. pieces \in Seq([type : Types \ {"NONE"}, from : Nat, to : Nat])
    BY <1>1, EmptySeq
  <2>2. state \in States /\ type \in Types
    BY <1>1 DEF States, SyncStates, Types
  <2> QED
    BY <1>1, <1>2, <2>1, <2>2, CapacityAssumption DEF TypeOK
<1>4. TokenShape
  <2>1. value = SubSeq(stream, start + 1, pos)
    BY <1>1, SubSeqEmpty
  <2>2. HeadKnown(state, value) /\ EndKnown(state, value, specified_len)
    BY <1>1, <1>2 DEF HeadKnown, EndKnown, FieldStates
  <2> QED
    BY <1>1, <2>1, <2>2 DEF TokenShape, Segment, FrameTypes
<1>5. NoStaleError /\ ScanAdvances /\ FramesAreWhole
  BY <1>1 DEF NoStaleError, ScanAdvances, FramesAreWhole, FrameTypes
<1> QED
  BY <1>3, <1>4, <1>5 DEF IInv

LEMMA StepKeepsInv == IInv /\ [Next]_vars => IInv'
<1> SUFFICES ASSUME IInv, [Next]_vars PROVE IInv'
  OBVIOUS
<1>1. CASE Refill
  BY <1>1, RefillKeepsInv
<1>2. CASE Handler
  BY <1>2, MatchSyncKeepsInv, MismatchSyncKeepsInv, CountFieldKeepsInv,
     FieldDoneKeepsInv, LengthKnownKeepsInv, BodyKeepsInv, NmeaHeadKeepsInv,
     NmeaCommaKeepsInv, NmeaFieldsKeepsInv, NovatelLengthKeepsInv,
     NovatelDataKeepsInv DEF Handler
<1>3. CASE Dispatch
  BY <1>3, DispatchKeepsInv
<1>4. CASE UNCHANGED vars
  BY <1>4 DEF vars, IInv, TypeOK, TokenShape, NoStaleError, FramesAreWhole,
              ScanAdvances, Segment
<1> QED
  BY <1>1, <1>2, <1>3, <1>4 DEF Next

THEOREM Invariance == Spec => []IInv
  BY InitEstablishesInv, StepKeepsInv, PTL DEF Spec

\* Every variable keeps its type, whatever the device sends: in particular the
\* token never outgrows its array (hc_msg_parser.c:165).
THEOREM TypeCorrect == Spec => []TypeOK
<1>1. IInv => TypeOK
  BY DEF IInv
<1> QED
  BY <1>1, Invariance, PTL

\* Every token the node is handed as a frame is a complete frame of its type.
THEOREM OnlyWholeFrames == Spec => []FramesAreWhole
<1>1. IInv => FramesAreWhole
  BY DEF IInv
<1> QED
  BY <1>1, Invariance, PTL

\* The error code is set exactly while an error token is, and a scan starts in
\* S0: the early return of the scan finds no error of an earlier one.
THEOREM ErrorsAreCleared == Spec => []NoStaleError
<1>1. IInv => NoStaleError
  BY DEF IInv
<1> QED
  BY <1>1, Invariance, PTL

LEMMA DispatchKeepsTiling ==
    ASSUME IInv, PiecesTile, Dispatch
    PROVE  PiecesTile'
<1> DEFINE p == Splitter!Piece(type, start, pos)
           R == [type : Types \ {"NONE"}, from : Nat, to : Nat]
           n == Len(pieces)
<1>1. /\ pieces' = Append(pieces, p) /\ start' = pos /\ type' = "NONE"
      /\ type # "NONE"
  BY DEF Dispatch
<1>2. start \in Nat /\ pos \in Nat /\ start < pos /\ type \in Types
  <2>1. filled \in Nat
    BY LenProperties DEF IInv, TypeOK
  <2> QED
    BY <1>1, <2>1 DEF IInv, TypeOK, ScanAdvances
<1>3. p \in R /\ p.from = start /\ p.to = pos
  BY <1>1, <1>2 DEF Splitter!Piece
<1>4. pieces \in Seq(R) /\ n \in Nat
  BY LenProperties DEF IInv, TypeOK
<1> HIDE DEF p, R
<1>5. /\ pieces' \in Seq(R) /\ Len(pieces') = n + 1 /\ pieces' # <<>>
      /\ \A i \in 1..n : pieces'[i] = pieces[i]
      /\ pieces'[n + 1] = p
  BY <1>1, <1>3, <1>4, AppendProperties
<1>6. DOMAIN pieces = 1..n /\ DOMAIN pieces' = 1..(n + 1)
  BY <1>4, <1>5, LenProperties
<1>7. /\ \A i \in 1..n : pieces[i].from < pieces[i].to
      /\ \A i \in 1..n : pieces[i].from = IF i = 1 THEN 0 ELSE pieces[i - 1].to
      /\ start = IF pieces = <<>> THEN 0 ELSE pieces[n].to
  BY <1>6 DEF PiecesTile
<1>8. start = IF n + 1 = 1 THEN 0 ELSE pieces[n].to
  BY <1>4, <1>7, EmptySeq
<1> HIDE DEF n
<1>9. ASSUME NEW i \in 1..(n + 1) PROVE pieces'[i].from < pieces'[i].to
  BY <1>2, <1>3, <1>4, <1>5, <1>7
<1>10. ASSUME NEW i \in 1..(n + 1)
       PROVE  pieces'[i].from = IF i = 1 THEN 0 ELSE pieces'[i - 1].to
  <2>1. CASE i = n + 1
    <3>1. i # 1 => pieces'[i - 1] = pieces[n]
      BY <2>1, <1>4, <1>5
    <3> QED
      BY <2>1, <3>1, <1>3, <1>5, <1>8
  <2>2. CASE i # n + 1
    <3>1. i \in 1..n /\ pieces'[i] = pieces[i]
      BY <2>2, <1>4, <1>5
    <3>2. i # 1 => pieces'[i - 1] = pieces[i - 1]
      BY <3>1, <1>4, <1>5
    <3> QED
      BY <3>1, <3>2, <1>7
  <2> QED
    BY <2>1, <2>2
<1>11. start' = pieces'[n + 1].to
  BY <1>1, <1>3, <1>5
<1> QED
  BY <1>1, <1>5, <1>6, <1>9, <1>10, <1>11 DEF PiecesTile, n

\* No scan returns without having taken a byte, no byte is lost between two
\* tokens, and none is part of two.
THEOREM PiecesAreConsecutive == Spec => []PiecesTile
<1>1. Init => PiecesTile
  BY DEF Init, PiecesTile
<1>2. IInv /\ IInv' /\ PiecesTile /\ [Next]_vars => PiecesTile'
  <2> SUFFICES ASSUME IInv, IInv', PiecesTile, [Next]_vars PROVE PiecesTile'
    OBVIOUS
  <2>1. CASE Dispatch
    BY <2>1, DispatchKeepsTiling
  <2>2. CASE ~Dispatch
    <3>1. UNCHANGED <<start, pieces>>
      BY <2>2 DEF Next, Refill, vars, Handler, Scanning, MatchSync, MismatchSync,
                  CountField, FieldDone, LengthKnown, Body, NmeaHead, NmeaComma,
                  NmeaFields, NovatelLength, NovatelData
    <3>2. type' # "NONE" => start' < pos'
      BY DEF IInv, ScanAdvances
    <3> QED
      BY <3>1, <3>2 DEF PiecesTile
  <2> QED
    BY <2>1, <2>2
<1> QED
  BY <1>1, <1>2, Invariance, PTL DEF Spec

\* The parser implements the abstract splitter: whatever the device sends, the
\* scans cut it into consecutive non-empty pieces, and only complete frames are
\* handed on.
THEOREM ImplementsSplitter == Spec => SplitsIntoFrames
<1>1. Init => Splitter!Init
  BY DEF Init, Splitter!Init
<1>2. IInv /\ [Next]_vars => [Splitter!Next]_(Splitter!vars)
  <2> SUFFICES ASSUME IInv, [Next]_vars
               PROVE  Splitter!Next \/ UNCHANGED <<stream, start, pieces>>
    BY DEF Splitter!vars
  <2>1. CASE Dispatch
    <3>1. /\ pos \in (start + 1)..Len(stream) /\ type \in FrameTypes \cup {"ERROR"}
      BY <2>1, LenProperties DEF Dispatch, IInv, TypeOK, ScanAdvances, Types
    <3>2. type \in FrameTypes => IsFrame(type, SubSeq(stream, start + 1, pos))
      BY DEF IInv, FramesAreWhole, Segment
    <3>3. /\ stream' = stream /\ start' = pos
          /\ pieces' = Append(pieces, Splitter!Piece(type, start, pos))
      BY <2>1 DEF Dispatch
    <3>4. /\ Splitter!FrameTypes = FrameTypes
          /\ \A tp, s : Splitter!IsFrame(tp, s) <=> IsFrame(tp, s)
      <4>1. Splitter!FrameTypes = FrameTypes
        BY DEF FrameTypes, Splitter!FrameTypes
      <4>2. ASSUME NEW tp, NEW s PROVE Splitter!IsFrame(tp, s) <=> IsFrame(tp, s)
        <5>1. \A q : Splitter!IsCgi(q) <=> IsCgi(q)
          BY Zenon DEF IsCgi, Begins, Le16, At,
             Splitter!IsCgi, Splitter!Begins, Splitter!Le16, Splitter!At
        <5>2. \A q : Splitter!IsShort(q) <=> IsShort(q)
          BY Zenon DEF IsShort, Begins, Le16, At,
             Splitter!IsShort, Splitter!Begins, Splitter!Le16, Splitter!At
        <5>3. \A q : Splitter!IsNmea(q) <=> IsNmea(q)
          BY Zenon DEF IsNmea, At, Dollar, Star, Comma, Talkers, NmeaBody, CommaThenBody,
             Splitter!IsNmea, Splitter!At, Splitter!Dollar, Splitter!Star,
             Splitter!Comma, Splitter!Talkers, Splitter!NmeaBody,
             Splitter!CommaThenBody
        <5>4. \A q : Splitter!IsNovatel(q) <=> IsNovatel(q)
          BY Zenon DEF IsNovatel, Begins, Le16, At, CrcAt, Splitter!IsNovatel,
             Splitter!Begins, Splitter!Le16, Splitter!At, Splitter!CrcAt
        <5>5. \A q : Splitter!IsNovatelIncl(q) <=> IsNovatelIncl(q)
          BY Zenon DEF IsNovatelIncl, Begins, Le16, At, CrcAt, Splitter!IsNovatelIncl,
             Splitter!Begins, Splitter!Le16, Splitter!At, Splitter!CrcAt
        <5> QED
          BY <5>1, <5>2, <5>3, <5>4, <5>5 DEF IsFrame, Splitter!IsFrame
      <4> QED
        BY <4>1, <4>2
    <3>5. Splitter!Cut(pos, type)
      BY <3>2, <3>3, <3>4 DEF Splitter!Cut
    <3> QED
      BY <3>1, <3>4, <3>5 DEF Splitter!Next
  <2>2. CASE Refill
    BY <2>2 DEF Refill
  <2>3. CASE Handler
    BY <2>3 DEF Handler, Scanning, MatchSync, MismatchSync, CountField, FieldDone,
                LengthKnown, Body, NmeaHead, NmeaComma, NmeaFields,
                NovatelLength, NovatelData
  <2>4. CASE UNCHANGED vars
    BY <2>4 DEF vars
  <2> QED
    BY <2>1, <2>2, <2>3, <2>4 DEF Next
<1> QED
  BY <1>1, <1>2, Invariance, PTL DEF Spec, SplitsIntoFrames, Splitter!Spec

-----------------------------------------------------------------------------
(* A frame that starts where the scan starts is found *)

\* The states a scan passes while it reads a frame of each type.
CgiPath == {"S0", "S1", "S2", "S3", "S4", "S5", "S6", "S7", "S8", "S9", "S10"}
ShortPath == {"S0", "S1", "S12", "S13", "S14", "S15", "S16"}
NmeaPath == {"S0", "S18", "S19", "S20", "S21", "S22"}
NovatelPath == {"S0", "S1", "S25", "S26", "S27", "S28"}

\* A stretch of the stream that starts with the scan and fits the token.
Fitting(t) == t \in (start + 1)..Len(stream) /\ t - start < Capacity

\* The scan of a frame never leaves the frame's path.
OnPath ==
    type = "NONE" =>
        /\ state = "S20" => At(value, 6) # Comma
        /\ \A t \in Nat : Fitting(t) =>
              /\ IsCgi(Segment(start, t)) => state \in CgiPath
              /\ IsShort(Segment(start, t)) => state \in ShortPath
              /\ IsNmea(Segment(start, t)) => state \in NmeaPath
              /\ IsNovatel(Segment(start, t)) => state \in NovatelPath

\* The edges of the header, and what breaks a header, spelled out.
LEMMA EdgeTaken ==
    ASSUME MatchSync
    PROVE  \/ state = "S0" /\ c = 170 /\ state' = "S1"
           \/ state = "S0" /\ c = Dollar /\ state' = "S18"
           \/ state = "S1" /\ c = 204 /\ state' = "S2"
           \/ state = "S2" /\ c = 72 /\ state' = "S3"
           \/ state = "S3" /\ c = 67 /\ state' = "S4"
           \/ state = "S1" /\ c = 85 /\ state' = "S12"
           \/ state = "S12" /\ c = 72 /\ state' = "S13"
           \/ state = "S13" /\ c = 67 /\ state' = "S14"
           \/ state = "S1" /\ c = 68 /\ state' = "S25"
           \/ state = "S25" /\ c = 18 /\ state' = "S26"
           \/ state = "S26" /\ c = 28 /\ state' = "S27"
<1>1. PICK e \in SyncEdges : e[1] = state /\ e[2] = c /\ state' = e[3]
  BY DEF MatchSync, Goto
<1> QED
  BY <1>1 DEF SyncEdges, HeaderEdges, ShortEdges, NovatelEdges

LEMMA EdgeMissed ==
    ASSUME MismatchSync
    PROVE  /\ state = "S0" => c # 170 /\ c # Dollar
           /\ state = "S1" => c # 204 /\ c # 85 /\ c # 68
           /\ state \in {"S2", "S12"} => c # 72
           /\ state \in {"S3", "S13"} => c # 67
           /\ state = "S25" => c # 18
           /\ state = "S26" => c # 28
<1>1. \A e \in SyncEdges : ~ (e[1] = state /\ e[2] = c)
  BY DEF MismatchSync
<1>2. {<<"S0", 170, "S1">>, <<"S0", Dollar, "S18">>, <<"S1", 204, "S2">>,
       <<"S1", 85, "S12">>, <<"S1", 68, "S25">>, <<"S2", 72, "S3">>,
       <<"S3", 67, "S4">>, <<"S12", 72, "S13">>, <<"S13", 67, "S14">>,
       <<"S25", 18, "S26">>, <<"S26", 28, "S27">>} \subseteq SyncEdges
  BY DEF SyncEdges, HeaderEdges, ShortEdges, NovatelEdges
<1> QED
  BY <1>1, <1>2

\* The token agrees with every stretch of the stream that starts where it does;
\* if it is the shorter one, the next byte is the stretch's and fits.
LEMMA Ahead ==
    ASSUME IInv, Scanning, NEW t \in Nat, Fitting(t)
    PROVE  /\ Segment(start, t) \in Seq(Byte)
           /\ Len(Segment(start, t)) = t - start
           /\ Len(Segment(start, t)) \in Nat
           /\ Len(value) = pos - start
           /\ Len(value) \in Nat
           /\ \A k \in Nat : k < Len(value) /\ k < t - start =>
                 At(Segment(start, t), k) = At(value, k)
           /\ Len(value) < t - start =>
                 /\ c = At(Segment(start, t), Len(value))
                 /\ Fits(value)
                 /\ pos < t
<1> DEFINE s == Segment(start, t)
<1>1. /\ value = SubSeq(stream, start + 1, pos) /\ Len(value) = pos - start
      /\ Len(value) \in Nat /\ pos \in Nat /\ start \in Nat
      /\ pos < Len(stream) /\ stream \in Seq(Byte) /\ Len(stream) \in Nat
  <2>1. filled \in 0..Len(stream) /\ pos < filled /\ stream \in Seq(Byte)
    BY DEF IInv, TypeOK, Scanning
  <2>2. Len(stream) \in Nat
    BY <2>1, LenProperties
  <2> QED
    BY <2>1, <2>2, ScanFacts
<1>2. t \in (start + 1)..Len(stream) /\ t - start < Capacity /\ Capacity \in Nat
  BY CapacityAssumption DEF Fitting
<1>3. ASSUME NEW p \in start..Len(stream)
      PROVE  /\ SubSeq(stream, start + 1, p) \in Seq(Byte)
             /\ Len(SubSeq(stream, start + 1, p)) = p - start
             /\ \A i \in 1..(p - start) : SubSeq(stream, start + 1, p)[i] = stream[start + i]
  <2>1. \A i \in (start + 1)..p : stream[i] \in Byte
    <3> SUFFICES ASSUME NEW i \in (start + 1)..p PROVE stream[i] \in Byte
      OBVIOUS
    <3>1. i \in 1..Len(stream)
      BY <1>1
    <3> QED
      BY <1>1, <3>1, ElementOfSeq
  <2>2. /\ SubSeq(stream, start + 1, p) \in Seq(Byte)
        /\ Len(SubSeq(stream, start + 1, p)) =
              IF start + 1 <= p THEN p - (start + 1) + 1 ELSE 0
        /\ \A i \in 1..(p - (start + 1) + 1) :
              SubSeq(stream, start + 1, p)[i] = stream[(start + 1) + i - 1]
    BY <1>1, <2>1, SubSeqProperties
  <2> QED
    BY <1>1, <2>2
<1>4. /\ s \in Seq(Byte) /\ Len(s) = t - start
      /\ \A i \in 1..(t - start) : s[i] = stream[start + i]
  BY <1>1, <1>2, <1>3 DEF Segment
<1>5. \A i \in 1..(pos - start) : value[i] = stream[start + i]
  <2>1. pos \in start..Len(stream)
    BY <1>1
  <2> QED
    BY <1>1, <1>3, <2>1
<1>6. ASSUME NEW k \in Nat, k < Len(value), k < t - start
      PROVE  At(s, k) = At(value, k)
  <2>1. k + 1 \in 1..(pos - start) /\ k + 1 \in 1..(t - start)
    BY <1>1, <1>2, <1>6
  <2>2. s[k + 1] = value[k + 1]
    BY <1>4, <1>5, <2>1
  <2> QED
    BY <2>2 DEF At
<1>7. ASSUME Len(value) < t - start
      PROVE  c = At(s, Len(value)) /\ Fits(value) /\ pos < t
  <2>1. Len(value) + 1 \in 1..(t - start) /\ start + (Len(value) + 1) = pos + 1
    BY <1>1, <1>2, <1>7
  <2>2. s[Len(value) + 1] = stream[pos + 1]
    BY <1>4, <2>1
  <2>3. Len(value) + 1 < Capacity /\ pos < t
    BY <1>1, <1>2, <1>7
  <2> QED
    BY <2>2, <2>3 DEF At, c, Fits
<1> HIDE DEF s
<1>8. Len(s) \in Nat
  BY <1>4, LenProperties
<1> QED
  BY <1>1, <1>4, <1>6, <1>7, <1>8 DEF s

\* A CHCNAV frame.
LEMMA CgiFound ==
    ASSUME IInv, Handler, NEW t \in Nat, Fitting(t), IsCgi(Segment(start, t)),
           state \in CgiPath
    PROVE  \/ type' = "NONE" /\ state' \in CgiPath
           \/ type' = "HC_MSG" /\ pos' = t
<1> DEFINE s == Segment(start, t)
<1>1. Scanning
  BY DEF Handler, MatchSync, MismatchSync, CountField, FieldDone, LengthKnown,
         Body, NmeaHead, NmeaComma, NmeaFields, NovatelLength, NovatelData
<1>2. /\ s \in Seq(Byte) /\ Len(s) = t - start /\ Len(s) \in Nat
      /\ Len(value) = pos - start /\ Len(value) \in Nat
      /\ \A k \in Nat : k < Len(value) /\ k < t - start => At(s, k) = At(value, k)
      /\ Len(value) < t - start => c = At(s, Len(value)) /\ Fits(value) /\ pos < t
  BY <1>1, Ahead
<1>3. /\ Len(s) >= 26 /\ Len(s) = 26 + Le16(s, 4)
      /\ At(s, 0) = 170 /\ At(s, 1) = 204 /\ At(s, 2) = 72 /\ At(s, 3) = 67
  BY DEF IsCgi, Begins
<1> HIDE DEF s
<1>4. /\ HeadKnown(state, value) /\ EndKnown(state, value, specified_len)
      /\ specified_len \in Nat /\ start \in Nat /\ pos \in Nat
  BY <1>1, ScanFacts DEF IInv, TypeOK, TokenShape, Scanning
<1>5. state = "S10" => Len(value) + specified_len = Len(s) /\ specified_len > 0
  <2> SUFFICES ASSUME state = "S10"
               PROVE  Len(value) + specified_len = Len(s) /\ specified_len > 0
    OBVIOUS
  <2>1. /\ Len(value) >= 22 /\ specified_len > 0
        /\ Len(value) + specified_len = 26 + Le16(value, 4)
    BY <1>4 DEF EndKnown
  <2>2. At(s, 4) = At(value, 4) /\ At(s, 5) = At(value, 5)
    BY <1>2, <1>3, <2>1
  <2>3. Le16(s, 4) = Le16(value, 4)
    BY <2>2 DEF Le16
  <2> QED
    BY <1>3, <2>1, <2>3
<1>6. Len(value) < Len(s)
  <2>1. CASE state = "S10"
    BY <1>2, <1>4, <1>5, <2>1
  <2>2. CASE state \in {"S0", "S1", "S2", "S3"}
    BY <1>2, <1>3, <1>4, <2>2 DEF HeadKnown
  <2>3. CASE state \in {"S4", "S5", "S6", "S7", "S8", "S9"}
    <3>1. Len(value) + specified_len = FieldEnd[state]
      BY <1>4, <2>3 DEF EndKnown, FieldStates
    <3>2. FieldEnd[state] \in Nat /\ FieldEnd[state] <= 22
      BY <2>3, FieldEnds
    <3> QED
      BY <1>2, <1>3, <1>4, <3>1, <3>2
  <2> QED
    BY <2>1, <2>2, <2>3 DEF CgiPath
<1>7. c = At(s, Len(value)) /\ Fits(value) /\ pos < t
  BY <1>2, <1>6
<1>8. ASSUME NEW tp, NEW err, Take(value, tp, err)
      PROVE  type' = tp /\ pos' = pos + 1
  BY <1>7, <1>8 DEF Take
<1>9. /\ state = "S0" => c = 170
      /\ state = "S1" => c = 204
      /\ state = "S2" => c = 72
      /\ state = "S3" => c = 67
  <2>1. /\ state = "S0" => Len(value) = 0
        /\ state = "S1" => Len(value) = 1
        /\ state = "S2" => Len(value) = 2
        /\ state = "S3" => Len(value) = 3
    BY <1>4 DEF HeadKnown
  <2>2. CASE state = "S0"
    BY <1>3, <1>7, <2>1, <2>2
  <2>3. CASE state = "S1"
    BY <1>3, <1>7, <2>1, <2>3
  <2>4. CASE state = "S2"
    BY <1>3, <1>7, <2>1, <2>4
  <2>5. CASE state = "S3"
    BY <1>3, <1>7, <2>1, <2>5
  <2> QED
    BY <2>2, <2>3, <2>4, <2>5
<1>10. CASE MatchSync
  <2>1. type' = "NONE"
    BY <1>8, <1>10 DEF MatchSync
  <2> QED
    BY <1>9, <1>10, <2>1, EdgeTaken DEF CgiPath, Dollar
<1>11. CASE MismatchSync
  BY <1>9, <1>11, EdgeMissed DEF CgiPath, MismatchSync, SyncStates
<1>12. CASE CountField
  BY <1>8, <1>12 DEF CountField, Goto
<1>13. CASE FieldDone
  BY <1>13 DEF FieldDone, Goto, Peek, NextField, CgiPath
<1>14. CASE LengthKnown
  BY <1>14 DEF LengthKnown, Goto, Peek, CgiPath
<1>15. CASE Body
  <2>1. state = "S10"
    BY <1>15 DEF Body, BodyStates, CgiPath
  <2>2. CASE specified_len = 1
    <3>1. Take(value, "HC_MSG", error_code)
      BY <1>15, <2>1, <2>2 DEF Body, Emits
    <3>2. pos + 1 = t
      BY <1>2, <1>4, <1>5, <2>1, <2>2
    <3> QED
      BY <1>8, <3>1, <3>2
  <2>3. CASE specified_len # 1
    <3>1. Take(value, "NONE", error_code) /\ state' = state
      BY <1>4, <1>5, <1>15, <2>1, <2>3 DEF Body, Goto
    <3> QED
      BY <1>8, <3>1
  <2> QED
    BY <2>2, <2>3
<1>16. CASE NmeaHead \/ NmeaComma \/ NmeaFields \/ NovatelLength \/ NovatelData
  BY <1>16 DEF NmeaHead, NmeaComma, NmeaFields, NovatelLength, NovatelData, CgiPath
<1> QED
  BY <1>10, <1>11, <1>12, <1>13, <1>14, <1>15, <1>16 DEF Handler

\* A short CHCNAV frame.
LEMMA ShortFound ==
    ASSUME IInv, Handler, NEW t \in Nat, Fitting(t), IsShort(Segment(start, t)),
           state \in ShortPath
    PROVE  \/ type' = "NONE" /\ state' \in ShortPath
           \/ type' = "HC_SHORT_MSG" /\ pos' = t
<1> DEFINE s == Segment(start, t)
<1>1. Scanning
  BY DEF Handler, MatchSync, MismatchSync, CountField, FieldDone, LengthKnown,
         Body, NmeaHead, NmeaComma, NmeaFields, NovatelLength, NovatelData
<1>2. /\ s \in Seq(Byte) /\ Len(s) = t - start /\ Len(s) \in Nat
      /\ Len(value) = pos - start /\ Len(value) \in Nat
      /\ \A k \in Nat : k < Len(value) /\ k < t - start => At(s, k) = At(value, k)
      /\ Len(value) < t - start => c = At(s, Len(value)) /\ Fits(value) /\ pos < t
  BY <1>1, Ahead
<1>3. /\ Len(s) >= 12 /\ Len(s) = 12 + Le16(s, 4)
      /\ At(s, 0) = 170 /\ At(s, 1) = 85 /\ At(s, 2) = 72 /\ At(s, 3) = 67
  BY DEF IsShort, Begins
<1> HIDE DEF s
<1>4. /\ HeadKnown(state, value) /\ EndKnown(state, value, specified_len)
      /\ specified_len \in Nat /\ start \in Nat /\ pos \in Nat
  BY <1>1, ScanFacts DEF IInv, TypeOK, TokenShape, Scanning
<1>5. state = "S16" => Len(value) + specified_len = Len(s) /\ specified_len > 0
  <2> SUFFICES ASSUME state = "S16"
               PROVE  Len(value) + specified_len = Len(s) /\ specified_len > 0
    OBVIOUS
  <2>1. /\ Len(value) >= 8 /\ specified_len > 0
        /\ Len(value) + specified_len = 12 + Le16(value, 4)
    BY <1>4 DEF EndKnown
  <2>2. At(s, 4) = At(value, 4) /\ At(s, 5) = At(value, 5)
    BY <1>2, <1>3, <2>1
  <2>3. Le16(s, 4) = Le16(value, 4)
    BY <2>2 DEF Le16
  <2> QED
    BY <1>3, <2>1, <2>3
<1>6. Len(value) < Len(s)
  <2>1. CASE state = "S16"
    BY <1>2, <1>4, <1>5, <2>1
  <2>2. CASE state \in {"S0", "S1", "S12", "S13"}
    BY <1>2, <1>3, <1>4, <2>2 DEF HeadKnown
  <2>3. CASE state \in {"S14", "S15"}
    <3>1. Len(value) + specified_len = FieldEnd[state]
      BY <1>4, <2>3 DEF EndKnown, FieldStates
    <3>2. FieldEnd[state] \in Nat /\ FieldEnd[state] <= 8
      BY <2>3, FieldEnds
    <3> QED
      BY <1>2, <1>3, <1>4, <3>1, <3>2
  <2> QED
    BY <2>1, <2>2, <2>3 DEF ShortPath
<1>7. c = At(s, Len(value)) /\ Fits(value) /\ pos < t
  BY <1>2, <1>6
<1>8. ASSUME NEW tp, NEW err, Take(value, tp, err)
      PROVE  type' = tp /\ pos' = pos + 1
  BY <1>7, <1>8 DEF Take
<1>9. /\ state = "S0" => c = 170
      /\ state = "S1" => c = 85
      /\ state = "S12" => c = 72
      /\ state = "S13" => c = 67
  <2>1. /\ state = "S0" => Len(value) = 0
        /\ state = "S1" => Len(value) = 1
        /\ state = "S12" => Len(value) = 2
        /\ state = "S13" => Len(value) = 3
    BY <1>4 DEF HeadKnown
  <2>2. CASE state = "S0"
    BY <1>3, <1>7, <2>1, <2>2
  <2>3. CASE state = "S1"
    BY <1>3, <1>7, <2>1, <2>3
  <2>4. CASE state = "S12"
    BY <1>3, <1>7, <2>1, <2>4
  <2>5. CASE state = "S13"
    BY <1>3, <1>7, <2>1, <2>5
  <2> QED
    BY <2>2, <2>3, <2>4, <2>5
<1>10. CASE MatchSync
  <2>1. type' = "NONE"
    BY <1>8, <1>10 DEF MatchSync
  <2> QED
    BY <1>9, <1>10, <2>1, EdgeTaken DEF ShortPath, Dollar
<1>11. CASE MismatchSync
  BY <1>9, <1>11, EdgeMissed DEF ShortPath, MismatchSync, SyncStates
<1>12. CASE CountField
  BY <1>8, <1>12 DEF CountField, Goto
<1>13. CASE FieldDone
  BY <1>13 DEF FieldDone, Goto, Peek, NextField, ShortPath
<1>14. CASE LengthKnown
  BY <1>14 DEF LengthKnown, Goto, Peek, ShortPath
<1>15. CASE Body
  <2>1. state = "S16"
    BY <1>15 DEF Body, BodyStates, ShortPath
  <2>2. CASE specified_len = 1
    <3>1. Take(value, "HC_SHORT_MSG", error_code)
      BY <1>15, <2>1, <2>2 DEF Body, Emits
    <3>2. pos + 1 = t
      BY <1>2, <1>4, <1>5, <2>1, <2>2
    <3> QED
      BY <1>8, <3>1, <3>2
  <2>3. CASE specified_len # 1
    <3>1. Take(value, "NONE", error_code) /\ state' = state
      BY <1>4, <1>5, <1>15, <2>1, <2>3 DEF Body, Goto
    <3> QED
      BY <1>8, <3>1
  <2> QED
    BY <2>2, <2>3
<1>16. CASE NmeaHead \/ NmeaComma \/ NmeaFields \/ NovatelLength \/ NovatelData
  BY <1>16 DEF NmeaHead, NmeaComma, NmeaFields, NovatelLength, NovatelData, ShortPath
<1> QED
  BY <1>10, <1>11, <1>12, <1>13, <1>14, <1>15, <1>16 DEF Handler

\* After the comma of a sentence its body has no star.
LEMMA NoStarBefore ==
    ASSUME NEW s, NEW m, CommaThenBody(s, m), NEW n \in Nat, m \in Nat, n >= 7, n < m
    PROVE  At(s, n) # Star
<1>1. PICK k \in {6, 7} :
          /\ k < m
          /\ At(s, k) = Comma
          /\ \A j \in (k + 1)..(m - 1) : At(s, j) \in NmeaBody
  BY DEF CommaThenBody
<1>2. Comma # Star /\ Star \notin NmeaBody
  BY DEF Comma, Star, NmeaBody
<1>3. CASE n = k
  BY <1>1, <1>2, <1>3
<1>4. CASE n # k
  BY <1>1, <1>2, <1>4
<1> QED
  BY <1>3, <1>4

\* A sentence of NMEA.  Its star is the first one after its comma, for the
\* parser as for the grammar.
LEMMA NmeaFound ==
    ASSUME IInv, OnPath, Handler, NEW t \in Nat, Fitting(t), IsNmea(Segment(start, t))
    PROVE  \/ type' = "NONE" /\ state' \in NmeaPath
           \/ type' = "NMEA_MGS" /\ pos' = t
<1> DEFINE s == Segment(start, t)
           n == Len(s) - 5
<1>1. Scanning
  BY DEF Handler, MatchSync, MismatchSync, CountField, FieldDone, LengthKnown,
         Body, NmeaHead, NmeaComma, NmeaFields, NovatelLength, NovatelData
<1>2. /\ s \in Seq(Byte) /\ Len(s) = t - start /\ Len(s) \in Nat
      /\ Len(value) = pos - start /\ Len(value) \in Nat
      /\ \A k \in Nat : k < Len(value) /\ k < t - start => At(s, k) = At(value, k)
      /\ Len(value) < t - start => c = At(s, Len(value)) /\ Fits(value) /\ pos < t
  BY <1>1, Ahead
<1>3. /\ Len(s) >= 12 /\ At(s, 0) = Dollar
      /\ <<At(s, 1), At(s, 2)>> \in Talkers
      /\ At(s, n) = Star /\ CommaThenBody(s, n)
      /\ state \in NmeaPath
      /\ state = "S20" => At(value, 6) # Comma
  BY <1>1 DEF IsNmea, OnPath, Scanning
<1> HIDE DEF s
<1>4. n \in Nat /\ n >= 7 /\ n = Len(s) - 5
  BY <1>2, <1>3
<1> HIDE DEF n
<1>5. /\ HeadKnown(state, value) /\ EndKnown(state, value, specified_len)
      /\ specified_len \in Nat /\ start \in Nat /\ pos \in Nat
  BY <1>1, ScanFacts DEF IInv, TypeOK, TokenShape, Scanning
<1>6. PICK k \in {6, 7} :
          /\ k < n
          /\ At(s, k) = Comma
          /\ \A j \in (k + 1)..(n - 1) : At(s, j) \in NmeaBody
  BY <1>3 DEF CommaThenBody
<1>7. state = "S21" => Len(value) <= n
  <2> SUFFICES ASSUME state = "S21", n < Len(value) PROVE FALSE
    BY <1>2, <1>4
  <2>1. CommaThenBody(value, Len(value))
    BY <1>5 DEF EndKnown
  <2>2. At(value, n) # Star
    BY <1>2, <1>4, <2>1, NoStarBefore
  <2> QED
    BY <1>2, <1>3, <1>4, <2>2
<1>8. state = "S22" => specified_len \in 1..4 /\ Len(value) + specified_len = Len(s)
  <2> SUFFICES ASSUME state = "S22"
               PROVE  specified_len \in 1..4 /\ Len(value) + specified_len = Len(s)
    OBVIOUS
  <2> DEFINE m == Len(value) + specified_len - 5
  <2>1. /\ specified_len \in 1..4 /\ At(value, m) = Star /\ CommaThenBody(value, m)
        /\ Len(value) >= 7
    BY <1>5 DEF EndKnown, HeadKnown
  <2>2. m \in Int /\ m < Len(value)
    BY <1>2, <2>1
  <2>3. m >= 7
    <3>1. PICK j \in {6, 7} : j < m
      BY <2>1 DEF CommaThenBody
    <3> QED
      BY <2>2, <3>1
  <2>4. ~ (n < m)
    <3> SUFFICES ASSUME n < m PROVE FALSE
      OBVIOUS
    <3>1. At(value, n) # Star
      BY <1>4, <2>1, <2>2, <2>3, NoStarBefore
    <3> QED
      BY <1>2, <1>3, <1>4, <2>2, <3>1
  <2>5. ~ (m < n)
    <3> SUFFICES ASSUME m < n PROVE FALSE
      OBVIOUS
    <3>1. At(s, m) # Star
      BY <1>3, <1>4, <2>2, <2>3, NoStarBefore
    <3> QED
      BY <1>2, <1>4, <2>1, <2>2, <2>3, <3>1
  <2> QED
    BY <1>2, <1>4, <2>1, <2>2, <2>4, <2>5
<1>9. Len(value) < Len(s)
  <2>1. CASE state \in {"S21", "S22"}
    BY <1>2, <1>4, <1>7, <1>8, <2>1
  <2>2. CASE state \in {"S0", "S19", "S20"}
    BY <1>2, <1>3, <1>5, <2>2 DEF HeadKnown, EndKnown
  <2>3. CASE state = "S18"
    <3>1. Len(value) + specified_len = FieldEnd[state]
      BY <1>5, <2>3 DEF EndKnown, FieldStates
    <3> QED
      BY <1>2, <1>3, <1>5, <2>3, <3>1, FieldEnds
  <2> QED
    BY <1>3, <2>1, <2>2, <2>3 DEF NmeaPath
<1>10. /\ c = At(s, Len(value)) /\ Fits(value) /\ pos < t
      /\ \A j \in Nat : j < Len(value) => At(s, j) = At(value, j)
  BY <1>2, <1>9
<1>11. ASSUME NEW tp, NEW err, Take(value, tp, err)
       PROVE  type' = tp /\ pos' = pos + 1
  BY <1>10, <1>11 DEF Take
<1>12. state = "S0" => c = Dollar
  <2>1. state = "S0" => Len(value) = 0
    BY <1>5 DEF HeadKnown
  <2> QED
    BY <1>3, <1>10, <2>1
<1>13. CASE MatchSync
  <2>1. type' = "NONE"
    BY <1>11, <1>13 DEF MatchSync
  <2> QED
    BY <1>3, <1>12, <1>13, <2>1, EdgeTaken DEF NmeaPath, Dollar
<1>14. CASE MismatchSync
  BY <1>3, <1>12, <1>14, EdgeMissed DEF NmeaPath, MismatchSync, SyncStates
<1>15. CASE CountField
  BY <1>3, <1>11, <1>15 DEF CountField, Goto
<1>16. CASE FieldDone
  BY <1>3, <1>16 DEF FieldDone, Goto, Peek, NextField, NmeaPath
<1>17. CASE Body
  <2>1. state = "S22"
    BY <1>3, <1>17 DEF Body, BodyStates, NmeaPath
  <2>2. CASE specified_len = 1
    <3>1. Take(value, "NMEA_MGS", error_code)
      BY <1>17, <2>1, <2>2 DEF Body, Emits
    <3>2. pos + 1 = t
      BY <1>2, <1>5, <1>8, <2>1, <2>2
    <3> QED
      BY <1>11, <3>1, <3>2
  <2>3. CASE specified_len # 1
    <3>1. Take(value, "NONE", error_code) /\ state' = state
      BY <1>5, <1>8, <1>17, <2>1, <2>3 DEF Body, Goto
    <3> QED
      BY <1>3, <1>11, <3>1
  <2> QED
    BY <2>2, <2>3
<1>18. CASE NmeaHead
  <2>1. state = "S19" /\ Len(value) = 6
    BY <1>5, <1>18 DEF NmeaHead, EndKnown
  <2>2. <<value[2], value[3]>> \in Talkers
    <3>1. At(s, 1) = At(value, 1) /\ At(s, 2) = At(value, 2)
      BY <1>10, <2>1
    <3>2. At(value, 1) = value[2] /\ At(value, 2) = value[3]
      BY DEF At
    <3> QED
      BY <1>3, <3>1, <3>2
  <2> QED
    BY <1>11, <1>18, <2>2 DEF NmeaHead, Goto, NmeaPath
<1>19. CASE NmeaComma
  <2>1. state = "S20" /\ Len(value) = 7
    BY <1>5, <1>19 DEF NmeaComma, EndKnown
  <2>2. At(s, 6) # Comma
    BY <1>3, <1>10, <2>1
  <2>3. c = Comma
    BY <1>6, <1>10, <2>1, <2>2
  <2> QED
    BY <1>11, <1>19, <2>3 DEF NmeaComma, Goto, NmeaPath
<1>20. CASE NmeaFields
  <2>1. state = "S21" /\ Len(value) <= n /\ Len(value) >= 7
    BY <1>5, <1>7, <1>20 DEF NmeaFields, HeadKnown
  <2>2. c = Star \/ c \in NmeaBody
    <3>1. CASE Len(value) = n
      BY <1>3, <1>10, <3>1
    <3>2. CASE Len(value) = k
      BY <1>6, <1>10, <3>2 DEF NmeaBody
    <3>3. CASE Len(value) \in (k + 1)..(n - 1)
      BY <1>6, <1>10, <3>3
    <3> QED
      BY <1>2, <1>4, <2>1, <3>1, <3>2, <3>3
  <2> QED
    BY <1>11, <1>20, <2>1, <2>2 DEF NmeaFields, Goto, Stay, NmeaPath
<1>21. CASE LengthKnown \/ NovatelLength \/ NovatelData
  BY <1>3, <1>21 DEF LengthKnown, NovatelLength, NovatelData, NmeaPath
<1> QED
  BY <1>13, <1>14, <1>15, <1>16, <1>17, <1>18, <1>19, <1>20, <1>21 DEF Handler

\* A NovAtel log whose length field leaves out the checksum.
LEMMA NovatelFound ==
    ASSUME IInv, Handler, NEW t \in Nat, Fitting(t), IsNovatel(Segment(start, t)),
           state \in NovatelPath
    PROVE  \/ type' = "NONE" /\ state' \in NovatelPath
           \/ type' = "NOVATEL_MSG" /\ pos' = t
<1> DEFINE s == Segment(start, t)
<1>1. Scanning
  BY DEF Handler, MatchSync, MismatchSync, CountField, FieldDone, LengthKnown,
         Body, NmeaHead, NmeaComma, NmeaFields, NovatelLength, NovatelData
<1>2. /\ s \in Seq(Byte) /\ Len(s) = t - start /\ Len(s) \in Nat
      /\ Len(value) = pos - start /\ Len(value) \in Nat
      /\ \A k \in Nat : k < Len(value) /\ k < t - start => At(s, k) = At(value, k)
      /\ Len(value) < t - start => c = At(s, Len(value)) /\ Fits(value) /\ pos < t
      /\ t - start < Capacity
  BY <1>1, Ahead DEF Fitting
<1>3. /\ Len(s) >= 33 /\ Len(s) = 28 + Le16(s, 8) + 4
      /\ At(s, 0) = 170 /\ At(s, 1) = 68 /\ At(s, 2) = 18 /\ At(s, 3) = 28
      /\ CrcAt(s, Len(s) - 4)
  BY DEF IsNovatel, Begins
<1>4. s = SubSeq(stream, start + 1, t)
  BY DEF Segment
<1> HIDE DEF s
<1>5. /\ HeadKnown(state, value) /\ EndKnown(state, value, specified_len)
      /\ specified_len \in Nat /\ start \in Nat /\ pos \in Nat
      /\ value = SubSeq(stream, start + 1, pos)
  BY <1>1, ScanFacts DEF IInv, TypeOK, TokenShape, Scanning
<1>6. Len(value) >= 28 => Le16(s, 8) = Le16(value, 8)
  <2> SUFFICES ASSUME Len(value) >= 28 PROVE Le16(s, 8) = Le16(value, 8)
    OBVIOUS
  <2>1. 8 < Len(value) /\ 8 < t - start /\ 9 < Len(value) /\ 9 < t - start
    BY <1>2, <1>3, <1>5
  <2>2. At(s, 8) = At(value, 8) /\ At(s, 9) = At(value, 9)
    BY <1>2, <2>1
  <2> QED
    BY <2>2 DEF Le16
<1>7. state = "S28" => Len(value) + specified_len = Len(s) /\ specified_len > 0
  BY <1>3, <1>5, <1>6 DEF EndKnown
<1>8. state = "S27" => Len(value) + specified_len = 28
  BY <1>5, FieldEnds DEF EndKnown, FieldStates
<1>9. Len(value) < Len(s)
  <2>1. CASE state = "S28"
    BY <1>2, <1>5, <1>7, <2>1
  <2>2. CASE state = "S27"
    BY <1>2, <1>3, <1>5, <1>8, <2>2
  <2>3. CASE state \in {"S0", "S1", "S25", "S26"}
    BY <1>2, <1>3, <1>5, <2>3 DEF HeadKnown
  <2> QED
    BY <2>1, <2>2, <2>3 DEF NovatelPath
<1>10. c = At(s, Len(value)) /\ Fits(value) /\ pos < t
  BY <1>2, <1>9
<1>11. ASSUME NEW tp, NEW err, Take(value, tp, err)
       PROVE  type' = tp /\ pos' = pos + 1
  BY <1>10, <1>11 DEF Take
<1>12. /\ state = "S0" => c = 170
       /\ state = "S1" => c = 68
       /\ state = "S25" => c = 18
       /\ state = "S26" => c = 28
  <2>1. /\ state = "S0" => Len(value) = 0
        /\ state = "S1" => Len(value) = 1
        /\ state = "S25" => Len(value) = 2
        /\ state = "S26" => Len(value) = 3
    BY <1>5 DEF HeadKnown
  <2>2. CASE state = "S0"
    BY <1>3, <1>10, <2>1, <2>2
  <2>3. CASE state = "S1"
    BY <1>3, <1>10, <2>1, <2>3
  <2>4. CASE state = "S25"
    BY <1>3, <1>10, <2>1, <2>4
  <2>5. CASE state = "S26"
    BY <1>3, <1>10, <2>1, <2>5
  <2> QED
    BY <2>2, <2>3, <2>4, <2>5
<1>13. CASE MatchSync
  <2>1. type' = "NONE"
    BY <1>11, <1>13 DEF MatchSync
  <2> QED
    BY <1>12, <1>13, <2>1, EdgeTaken DEF NovatelPath, Dollar
<1>14. CASE MismatchSync
  BY <1>12, <1>14, EdgeMissed DEF NovatelPath, MismatchSync, SyncStates
<1>15. CASE CountField
  BY <1>11, <1>15 DEF CountField, Goto
<1>16. CASE NovatelLength
  <2>1. state = "S27" /\ specified_len = 0
    BY <1>16 DEF NovatelLength
  <2>2. Len(value) >= 28
    BY <1>2, <1>8, <2>1
  <2>3. Le16(value, 8) # 0 /\ 28 + Le16(value, 8) + 4 <= Capacity
    BY <1>2, <1>3, <1>5, <1>6, <2>2, CapacityAssumption
  <2> QED
    BY <1>16, <2>3 DEF NovatelLength, Goto, Peek, NovatelPath
<1>17. CASE NovatelData
  <2>1. state = "S28"
    BY <1>17 DEF NovatelData
  <2>2. CASE specified_len > 1
    <3>1. Take(value, "NONE", error_code) /\ state' = state
      BY <1>5, <1>17, <2>2 DEF NovatelData, Goto
    <3> QED
      BY <1>11, <3>1
  <2>3. CASE specified_len = 1
    <3>1. pos + 1 = t
      BY <1>2, <1>5, <1>7, <2>1, <2>3
    <3>2. Append(value, c) = s
      <4>1. pos < Len(stream) /\ start \in 0..pos /\ stream \in Seq(Byte)
        BY <1>1, LenProperties DEF IInv, TypeOK, Scanning
      <4> QED
        BY <1>4, <1>5, <3>1, <4>1, SegmentGrows DEF c
    <3>3. CrcExcluded(Append(value, c))
      BY <1>2, <1>3, <3>2 DEF CrcExcluded
    <3>4. Take(value, "NOVATEL_MSG", error_code)
      BY <1>17, <2>3, <3>3 DEF NovatelData
    <3> QED
      BY <1>11, <3>1, <3>4
  <2> QED
    BY <1>5, <1>7, <2>1, <2>2, <2>3
<1>18. CASE FieldDone \/ LengthKnown \/ Body \/ NmeaHead \/ NmeaComma \/ NmeaFields
  BY <1>18 DEF FieldDone, NextField, LengthKnown, Body, BodyStates, NmeaHead,
               NmeaComma, NmeaFields, NovatelPath
<1> QED
  BY <1>13, <1>14, <1>15, <1>16, <1>17, <1>18 DEF Handler

\* A scan enters S20 with a byte that is no comma, and leaves it with the next.
LEMMA SixthIsNoComma ==
    ASSUME IInv, Handler, type' = "NONE", state' = "S20"
    PROVE  At(value', 6) # Comma
<1>1. Scanning
  BY DEF Handler, MatchSync, MismatchSync, CountField, FieldDone, LengthKnown,
         Body, NmeaHead, NmeaComma, NmeaFields, NovatelLength, NovatelData
<1>2. NmeaHead
  <2>1. ~ MatchSync
    BY EdgeTaken
  <2>2. ~ (MismatchSync \/ CountField \/ FieldDone \/ LengthKnown \/ Body \/ NmeaFields
           \/ NovatelLength \/ NovatelData)
    BY DEF MismatchSync, Stay, SyncStates, CountField, FieldStates, FieldDone, NextField,
           LengthKnown, Body, BodyStates, NmeaFields, NovatelLength, NovatelData, Goto
  <2>3. ~ NmeaComma
    BY DEF NmeaComma, Goto, Peek
  <2> QED
    BY <2>1, <2>2, <2>3 DEF Handler
<1>3. c # Comma /\ Take(value, "NONE", error_code)
  BY <1>2 DEF NmeaHead, Goto, Peek
<1>4. Len(value) = 6
  BY <1>1, <1>2 DEF IInv, TokenShape, Scanning, NmeaHead, EndKnown
<1>5. Grew("NONE", error_code)
  BY <1>1, <1>3, TakeStep DEF Overflowed
<1> QED
  BY <1>3, <1>4, <1>5 DEF Grew

LEMMA HandlerFinds ==
    ASSUME IInv, OnPath, Handler
    PROVE  OnPath' /\ FrameNotMissed'
<1>1. type = "NONE" /\ UNCHANGED <<stream, start>>
  BY DEF Handler, Scanning, MatchSync, MismatchSync, CountField, FieldDone, LengthKnown,
         Body, NmeaHead, NmeaComma, NmeaFields, NovatelLength, NovatelData
<1>2. ASSUME NEW t \in Nat, Fitting(t)
      PROVE  /\ IsCgi(Segment(start, t)) =>
                    \/ type' = "NONE" /\ state' \in CgiPath
                    \/ type' = "HC_MSG" /\ pos' = t
             /\ IsShort(Segment(start, t)) =>
                    \/ type' = "NONE" /\ state' \in ShortPath
                    \/ type' = "HC_SHORT_MSG" /\ pos' = t
             /\ IsNmea(Segment(start, t)) =>
                    \/ type' = "NONE" /\ state' \in NmeaPath
                    \/ type' = "NMEA_MGS" /\ pos' = t
             /\ IsNovatel(Segment(start, t)) =>
                    \/ type' = "NONE" /\ state' \in NovatelPath
                    \/ type' = "NOVATEL_MSG" /\ pos' = t
  BY <1>1, <1>2, CgiFound, ShortFound, NmeaFound, NovatelFound DEF OnPath
<1>3. \A t : /\ Segment(start, t)' = Segment(start, t)
             /\ Fitting(t)' <=> Fitting(t)
  BY <1>1 DEF Segment, Fitting
<1>4. OnPath'
  BY <1>2, <1>3, SixthIsNoComma DEF OnPath
<1>5. FrameNotMissed'
  <2> SUFFICES ASSUME type' # "NONE", NEW t \in (start' + 1)..Len(stream'),
                      t - start' < Capacity
               PROVE  /\ IsCgi(Segment(start, t)) => type' = "HC_MSG" /\ pos' = t
                      /\ IsShort(Segment(start, t)) => type' = "HC_SHORT_MSG" /\ pos' = t
                      /\ IsNmea(Segment(start, t)) => type' = "NMEA_MGS" /\ pos' = t
                      /\ IsNovatel(Segment(start, t)) =>
                            type' = "NOVATEL_MSG" /\ pos' = t
    BY <1>3 DEF FrameNotMissed
  <2>1. Fitting(t)
    BY <1>1 DEF Fitting
  <2>2. t \in Nat
    <3>1. start \in Nat
      BY <1>1, LenProperties DEF IInv, TypeOK
    <3> QED
      BY <1>1, <3>1
  <2> QED
    BY <1>2, <2>1, <2>2
<1> QED
  BY <1>4, <1>5

\* A complete frame that starts where a scan starts, and fits the token, is
\* what the scan returns, whatever its bytes, however the device chops the
\* stream into reads.
THEOREM NoFrameMissed == Spec => []FrameNotMissed
<1> DEFINE FInv == OnPath /\ FrameNotMissed
<1>1. Init => FInv
  BY DEF Init, OnPath, FrameNotMissed, CgiPath, ShortPath, NmeaPath, NovatelPath
<1>2. IInv /\ FInv /\ [Next]_vars => FInv'
  <2> SUFFICES ASSUME IInv, FInv, [Next]_vars PROVE FInv'
    OBVIOUS
  <2>1. CASE Handler
    BY <2>1, HandlerFinds
  <2>2. CASE Dispatch
    <3>1. type' = "NONE" /\ state' = "S0"
      <4>1. CASE type \in FrameTypes
        BY <2>2, <4>1 DEF Dispatch, ClearError, IInv, TokenShape
      <4>2. CASE type \notin FrameTypes
        BY <2>2, <4>2 DEF Dispatch, ClearError
      <4> QED
        BY <4>1, <4>2
    <3> QED
      BY <3>1 DEF OnPath, FrameNotMissed, CgiPath, ShortPath, NmeaPath, NovatelPath
  <2>3. CASE Refill
    BY <2>3 DEF Refill, OnPath, FrameNotMissed, Fitting, Segment
  <2>4. CASE UNCHANGED vars
    BY <2>4 DEF vars, OnPath, FrameNotMissed, Fitting, Segment
  <2> QED
    BY <2>1, <2>2, <2>3, <2>4 DEF Next
<1> QED
  BY <1>1, <1>2, Invariance, PTL DEF Spec

-----------------------------------------------------------------------------
(* What a token holds, and what an error leaves alone *)

\* A sequence that agrees with the stream from f on, up to its byte n.
LEMMA PrefixOfSegment ==
    ASSUME NEW s \in Seq(Byte), NEW f \in Nat, NEW n \in Int, f + n <= Len(s),
           NEW v \in Seq(Byte), n <= Len(v), \A i \in 1..n : v[i] = s[f + i]
    PROVE  SubSeq(v, 1, n) = SubSeq(s, f + 1, f + n)
<1>1. Len(s) \in Nat /\ Len(v) \in Nat
  BY LenProperties
<1>2. CASE n < 1
  <2>1. SubSeq(v, 1, n) = <<>>
    BY <1>2, SubSeqEmpty
  <2>2. SubSeq(s, f + 1, f + n) = <<>>
    BY <1>2, SubSeqEmpty
  <2> QED
    BY <2>1, <2>2
<1>3. CASE n >= 1
  <2> DEFINE a == SubSeq(v, 1, n)
             b == SubSeq(s, f + 1, f + n)
  <2>1. /\ a \in Seq(Byte) /\ Len(a) = n
        /\ \A i \in 1..n : a[i] = v[i]
    <3>1. \A i \in 1..n : v[i] \in Byte
      BY <1>1, ElementOfSeq
    <3>2. /\ a \in Seq(Byte)
          /\ Len(a) = IF 1 <= n THEN n - 1 + 1 ELSE 0
          /\ \A i \in 1..(n - 1 + 1) : a[i] = v[1 + i - 1]
      BY <1>3, <3>1, SubSeqProperties
    <3> QED
      BY <1>3, <3>2
  <2>2. /\ b \in Seq(Byte) /\ Len(b) = n
        /\ \A i \in 1..n : b[i] = s[f + i]
    <3>1. \A i \in (f + 1)..(f + n) : s[i] \in Byte
      BY <1>1, ElementOfSeq
    <3>2. /\ b \in Seq(Byte)
          /\ Len(b) = IF f + 1 <= f + n THEN (f + n) - (f + 1) + 1 ELSE 0
          /\ \A i \in 1..((f + n) - (f + 1) + 1) : b[i] = s[(f + 1) + i - 1]
      BY <1>3, <3>1, SubSeqProperties
    <3> QED
      BY <1>3, <3>2
  <2> HIDE DEF a, b
  <2>3. a = b
    BY <2>1, <2>2, SeqEqual
  <2> QED
    BY <2>3 DEF a, b
<1> QED
  BY <1>2, <1>3

\* The token, while it is scanned, is the stream from the scan's start on.
LEMMA ValueAt ==
    ASSUME IInv, Scanning
    PROVE  /\ stream \in Seq(Byte) /\ value \in Seq(Byte)
           /\ start \in Nat /\ Len(value) \in Nat /\ Len(value) = pos - start
           /\ pos \in Nat /\ pos < Len(stream) /\ Len(stream) \in Nat
           /\ \A i \in 1..Len(value) : value[i] = stream[start + i]
           /\ c = stream[start + Len(value) + 1]
<1>1. /\ stream \in Seq(Byte) /\ Len(stream) \in Nat /\ pos < Len(stream)
      /\ value \in Seq(Byte)
  <2>1. stream \in Seq(Byte) /\ value \in Seq(Byte) /\ filled \in 0..Len(stream) /\ pos < filled
    BY DEF IInv, TypeOK, Scanning
  <2>2. Len(stream) \in Nat
    BY <2>1, LenProperties
  <2> QED
    BY <2>1, <2>2, ScanFacts
<1>2. /\ value = SubSeq(stream, start + 1, pos)
      /\ Len(value) \in Nat /\ Len(value) = pos - start /\ pos \in Nat /\ start \in Nat
  BY ScanFacts
<1>3. \A i \in 1..Len(value) : value[i] = stream[start + i]
  <2>1. \A i \in (start + 1)..pos : stream[i] \in Byte
    <3> SUFFICES ASSUME NEW i \in (start + 1)..pos PROVE stream[i] \in Byte
      OBVIOUS
    <3>1. i \in 1..Len(stream)
      BY <1>1, <1>2
    <3> QED
      BY <1>1, <3>1, ElementOfSeq
  <2>2. start + 1 \in Int /\ pos \in Int
    BY <1>2
  <2>3. \A i \in 1..(pos - (start + 1) + 1) :
            SubSeq(stream, start + 1, pos)[i] = stream[(start + 1) + i - 1]
    BY <2>1, <2>2, SubSeqProperties
  <2> QED
    BY <1>2, <2>3
<1>4. start + Len(value) + 1 = pos + 1
  BY <1>2
<1> QED
  BY <1>1, <1>2, <1>3, <1>4 DEF c

LEMMA HandlerKeepsPayload ==
    ASSUME IInv, Handler
    PROVE  PayloadAsReceived'
<1> SUFFICES ASSUME type' \in FrameTypes
             PROVE  SubSeq(value', 1, Len(value') - 4)
                      = SubSeq(stream, start + 1, start + (Len(value') - 4))
  <2>1. stream' = stream /\ start' = start
    BY DEF Handler, Scanning, MatchSync, MismatchSync, CountField, FieldDone, LengthKnown,
           Body, NmeaHead, NmeaComma, NmeaFields, NovatelLength, NovatelData
  <2> QED
    BY <2>1 DEF PayloadAsReceived, Segment
<1>1. Scanning /\ "NONE" \notin FrameTypes /\ "ERROR" \notin FrameTypes
  BY DEF Handler, MatchSync, MismatchSync, CountField, FieldDone, LengthKnown,
         Body, NmeaHead, NmeaComma, NmeaFields, NovatelLength, NovatelData, FrameTypes
<1>2. /\ stream \in Seq(Byte) /\ value \in Seq(Byte) /\ c \in Byte
      /\ start \in Nat /\ Len(value) \in Nat /\ Len(value) = pos - start
      /\ pos \in Nat /\ pos < Len(stream) /\ Len(stream) \in Nat
      /\ \A i \in 1..Len(value) : value[i] = stream[start + i]
      /\ c = stream[start + Len(value) + 1]
  BY <1>1, ValueAt, ScanFacts
<1>3. ASSUME NEW tp \in FrameTypes, NEW err, Take(value, tp, err)
      PROVE  SubSeq(value', 1, Len(value') - 4)
               = SubSeq(stream, start + 1, start + (Len(value') - 4))
  <2>1. value' = Append(value, c)
    BY <1>1, <1>3 DEF Take
  <2>2. /\ value' \in Seq(Byte) /\ Len(value') = Len(value) + 1
        /\ \A i \in 1..Len(value) : value'[i] = value[i]
    BY <1>2, <2>1, AppendProperties
  <2> DEFINE n == Len(value') - 4
  <2>3. n \in Int /\ start + n <= Len(stream) /\ n <= Len(value')
    BY <1>2, <2>2
  <2>4. \A i \in 1..n : value'[i] = stream[start + i]
    BY <1>2, <2>2
  <2> HIDE DEF n
  <2>5. SubSeq(value', 1, n) = SubSeq(stream, start + 1, start + n)
    BY <1>2, <2>2, <2>3, <2>4, PrefixOfSegment
  <2> QED
    BY <2>5 DEF n
<1>4. CASE Body
  <2>1. Emits[state] \in FrameTypes /\ (Take(value, "NONE", error_code) \/ Take(value, Emits[state], error_code))
    BY <1>4 DEF Body, Emits, FrameTypes, BodyStates
  <2>2. ~ Take(value, "NONE", error_code)
    BY <1>1 DEF Take
  <2> QED
    BY <1>3, <2>1, <2>2
<1>5. CASE NovatelData
  <2>1. ~ Take(value, "NONE", error_code) /\ ~ Take(value, "ERROR", state)
    BY <1>1 DEF Take
  <2>2. CASE Take(value, "NOVATEL_MSG", error_code)
    BY <1>3, <2>2 DEF FrameTypes
  <2>3. CASE /\ CrcIncluded(Append(value, c))
             /\ Take(SubSeq(value, 1, Len(value) - 4), "NOVATEL_MSG", error_code)
    <3> DEFINE k == Len(value) - 4
               cut == SubSeq(value, 1, k)
    <3>1. k \in Nat /\ k >= 7
      <4>1. Len(Append(value, c)) = Len(value) + 1
        BY <1>2, AppendProperties
      <4> QED
        BY <1>2, <2>3, <4>1 DEF CrcIncluded
    <3>2. \A i \in 1..k : i \in 1..Len(value) /\ value[i] \in Byte
      <4> SUFFICES ASSUME NEW i \in 1..k PROVE i \in 1..Len(value) /\ value[i] \in Byte
        OBVIOUS
      <4>1. i \in 1..Len(value)
        BY <1>2, <3>1
      <4> QED
        BY <1>2, <4>1, ElementOfSeq
    <3>3. cut \in Seq(Byte) /\ Len(cut) = k /\ \A i \in 1..k : cut[i] = value[i]
      <4> HIDE DEF k
      <4>1. /\ cut \in Seq(Byte)
            /\ Len(cut) = IF 1 <= k THEN k - 1 + 1 ELSE 0
            /\ \A i \in 1..(k - 1 + 1) : cut[i] = value[1 + i - 1]
        BY <3>1, <3>2, SubSeqProperties
      <4> QED
        BY <3>1, <4>1
    <3> HIDE DEF cut
    <3>4. value' = Append(cut, c)
      BY <1>1, <2>3 DEF Take, cut
    <3>5. /\ value' \in Seq(Byte) /\ Len(value') = k + 1
          /\ \A i \in 1..k : value'[i] = cut[i]
      BY <1>2, <3>1, <3>3, <3>4, AppendProperties
    <3> DEFINE n == Len(value') - 4
    <3>6. n \in Int /\ n = k - 3 /\ start + n <= Len(stream) /\ n <= Len(value')
      BY <1>2, <3>1, <3>5
    <3>7. \A i \in 1..n : value'[i] = stream[start + i]
      <4> SUFFICES ASSUME NEW i \in 1..n PROVE value'[i] = stream[start + i]
        OBVIOUS
      <4>1. i \in 1..k
        BY <3>1, <3>6
      <4> QED
        BY <1>2, <3>2, <3>3, <3>5, <4>1
    <3> HIDE DEF n, k
    <3>8. SubSeq(value', 1, n) = SubSeq(stream, start + 1, start + n)
      BY <1>2, <3>5, <3>6, <3>7, PrefixOfSegment
    <3> QED
      BY <3>8 DEF n
  <2> QED
    BY <1>5, <2>1, <2>2, <2>3 DEF NovatelData
<1>6. CASE MatchSync \/ MismatchSync \/ CountField \/ FieldDone \/ LengthKnown
           \/ NmeaHead \/ NmeaComma \/ NmeaFields \/ NovatelLength
  BY <1>1, <1>6 DEF MatchSync, MismatchSync, Reject, CountField, FieldDone, LengthKnown,
     NmeaHead, NmeaComma, NmeaFields, NovatelLength, Take, Peek
<1> QED
  BY <1>4, <1>5, <1>6 DEF Handler

\* What the decoders read of a frame, all of it but the checksum, is what the
\* device sent, also when four bytes were cut from the token.
THEOREM PayloadsAreReceived == Spec => []PayloadAsReceived
<1>1. Init => PayloadAsReceived
  BY DEF Init, PayloadAsReceived, FrameTypes
<1>2. IInv /\ PayloadAsReceived /\ [Next]_vars => PayloadAsReceived'
  <2> SUFFICES ASSUME IInv, PayloadAsReceived, [Next]_vars PROVE PayloadAsReceived'
    OBVIOUS
  <2>1. CASE Handler
    BY <2>1, HandlerKeepsPayload
  <2>2. CASE Refill \/ UNCHANGED vars
    BY <2>2 DEF Refill, vars, PayloadAsReceived, Segment
  <2>3. CASE Dispatch
    BY <2>3 DEF Dispatch, PayloadAsReceived, FrameTypes
  <2> QED
    BY <2>1, <2>2, <2>3 DEF Next
<1> QED
  BY <1>1, <1>2, Invariance, PTL DEF Spec

\* A header is short, and only its first byte starts a frame.
LEMMA HeaderBytes ==
    ASSUME NEW st \in SyncStates, NEW s, HeadKnown(st, s)
    PROVE  /\ Len(s) \in {0, 1, 2, 3}
           /\ Len(s) \in {2, 3} => At(s, 1) \in {204, 85, 68}
           /\ Len(s) = 3 => At(s, 2) \in {72, 18}
<1>1. CASE st \in {"S0", "S1"}
  BY <1>1 DEF HeadKnown
<1>2. CASE st \in {"S2", "S12", "S25"}
  BY <1>2 DEF HeadKnown
<1>3. CASE st \in {"S3", "S13", "S26"}
  BY <1>3 DEF HeadKnown
<1> QED
  BY <1>1, <1>2, <1>3 DEF SyncStates

LEMMA HandlerKeepsNext ==
    ASSUME IInv, Handler
    PROVE  BrokenHeaderKeepsNext'
<1>1. Scanning
  BY DEF Handler, MatchSync, MismatchSync, CountField, FieldDone, LengthKnown,
         Body, NmeaHead, NmeaComma, NmeaFields, NovatelLength, NovatelData
<1>2. /\ stream' = stream /\ start' = start
  BY <1>1 DEF Scanning
<1>3. HeadKnown(state, value) /\ state \in States /\ error_code = "NONE"
  BY <1>1, ScanFacts DEF IInv, TypeOK, TokenShape, Scanning
<1>4. /\ start \in Nat /\ Len(value) \in Nat /\ Len(value) = pos - start /\ pos \in Nat
      /\ \A i \in 1..Len(value) : value[i] = stream[start + i]
  BY <1>1, ValueAt
<1>5. CASE MismatchSync /\ state # "S0"
  <2>1. /\ pos' = pos /\ state \in SyncStates \ {"S0"}
    BY <1>5 DEF MismatchSync, Reject, Peek
  <2>2. ASSUME NEW k \in (start + 2)..pos PROVE stream[k] \notin {170, Dollar}
    <3> DEFINE i == k - start
    <3>1. i \in 2..Len(value) /\ k = start + i
      BY <1>4
    <3> HIDE DEF i
    <3>2. stream[k] = value[i]
      BY <1>4, <3>1
    <3>3. /\ Len(value) \in {0, 1, 2, 3}
          /\ Len(value) \in {2, 3} => At(value, 1) \in {204, 85, 68}
          /\ Len(value) = 3 => At(value, 2) \in {72, 18}
      BY <1>3, <2>1, HeaderBytes
    <3>4. At(value, 1) = value[2] /\ At(value, 2) = value[3]
      BY DEF At
    <3>5. value[i] \in {204, 85, 68, 72, 18}
      <4>1. i = 2 \/ (i = 3 /\ Len(value) = 3)
        BY <1>4, <3>1, <3>3
      <4> QED
        BY <3>1, <3>3, <3>4, <4>1
    <3> QED
      BY <3>2, <3>5 DEF Dollar
  <2> QED
    BY <1>2, <2>1, <2>2 DEF BrokenHeaderKeepsNext
<1> DEFINE Kept == type' = "ERROR" => error_code' \notin SyncStates \ {"S0"}
<1>6. Kept => BrokenHeaderKeepsNext'
  BY DEF BrokenHeaderKeepsNext
<1>7. CASE MismatchSync /\ state = "S0"
  <2>1. Kept
    BY <1>7 DEF MismatchSync, Reject, Stay, Take
  <2> QED
    BY <1>6, <2>1
<1>8. CASE MatchSync
  <2>1. Len(value) \in {0, 1, 2, 3}
    <3>1. state \in SyncStates
      BY <1>8, EdgeTaken DEF SyncStates
    <3> QED
      BY <1>3, <3>1, HeaderBytes
  <2>2. ~ Overflowed
    BY <1>4, <2>1 DEF Overflowed
  <2>3. type' = "NONE"
    BY <1>1, <1>8, <2>2, TakeStep DEF MatchSync, Grew
  <2> QED
    BY <1>6, <2>3
<1>9. CASE CountField \/ Body
  <2>1. Kept
    BY <1>9 DEF CountField, Body, Goto, Take, FieldStates, BodyStates, SyncStates, Emits
  <2> QED
    BY <1>6, <2>1
<1>10. CASE FieldDone \/ LengthKnown \/ NmeaHead \/ NmeaComma \/ NmeaFields \/ NovatelLength
  <2>1. Kept
    BY <1>10 DEF FieldDone, LengthKnown, NmeaHead, NmeaComma, NmeaFields, NovatelLength,
       Goto, Stay, Take, Peek, SyncStates
  <2> QED
    BY <1>6, <2>1
<1>11. CASE NovatelData
  <2>1. Kept
    BY <1>11 DEF NovatelData, Goto, Take, SyncStates
  <2> QED
    BY <1>6, <2>1
<1> QED
  BY <1>5, <1>7, <1>8, <1>9, <1>10, <1>11 DEF Handler

\* A header that breaks off never takes the byte that broke it: what it took,
\* its first byte aside, starts no frame.
THEOREM BrokenHeadersKeepNext == Spec => []BrokenHeaderKeepsNext
<1>1. Init => BrokenHeaderKeepsNext
  BY DEF Init, BrokenHeaderKeepsNext
<1>2. IInv /\ BrokenHeaderKeepsNext /\ [Next]_vars => BrokenHeaderKeepsNext'
  <2> SUFFICES ASSUME IInv, BrokenHeaderKeepsNext, [Next]_vars PROVE BrokenHeaderKeepsNext'
    OBVIOUS
  <2>1. CASE Handler
    BY <2>1, HandlerKeepsNext
  <2>2. CASE Refill \/ UNCHANGED vars
    BY <2>2 DEF Refill, vars, BrokenHeaderKeepsNext
  <2>3. CASE Dispatch
    BY <2>3 DEF Dispatch, BrokenHeaderKeepsNext
  <2> QED
    BY <2>1, <2>2, <2>3 DEF Next
<1> QED
  BY <1>1, <1>2, Invariance, PTL DEF Spec

=============================================================================
