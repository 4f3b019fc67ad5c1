------------------------------ MODULE MsgParser ------------------------------
(***************************************************************************)
(* The byte-stream parser hc_msg_parser.c and the loop of                  *)
(* hc__msg_parser_node::node_start that drives it.                         *)
(*                                                                         *)
(* The device delivers `stream`.  The read handler moves a chunk of it     *)
(* into the parser's buffer, hc__msg_parser_scan runs the handler of the   *)
(* current state on one byte at a time until the token has a type, and the *)
(* node dispatches the token and scans again.  A handler returns 1 when it *)
(* takes the byte into the token and 0 when it only looked at it.          *)
(*                                                                         *)
(* Bytes are numbers and offsets into a frame are the code's, from 0.  The *)
(* token's array and its value_len are the sequence `value`; the buffer's  *)
(* pointer and last are the stream positions `pos` and `filled`, so that   *)
(* pointer = last is pos = filled.  Only `start` and `pieces` are history. *)
(* The unreachable handlers S11, S17, S23 and S24 are left out.            *)
(***************************************************************************)
EXTENDS FrameGrammar

CONSTANTS
    Capacity,     \* HC_PROTOCOL_MAX_LEN, the size of token_value.value
    BufferSize,   \* the size of the parser's read buffer
    Input         \* the byte streams the device may deliver

ASSUME CapacityAssumption == Capacity \in Nat /\ Capacity > 32
ASSUME BufferAssumption == BufferSize \in Nat \ {0}
ASSUME InputAssumption == Input \subseteq Seq(Byte)

VARIABLES
    stream,         \* what the device delivers
    filled,         \* how much of it the read handler has put in the buffer
    pos,            \* how much of it the handlers have taken
    start,          \* where the token being scanned starts
    state,          \* parser->state
    specified_len,  \* parser->specified_len
    value,          \* token->token_value
    type,           \* token->type
    error_code,     \* parser->error.error_code
    pieces          \* what the scans have returned, in order

\* What the parser implements: `start` is where the splitter cuts.
Splitter == INSTANCE FrameSplitter WITH cut <- start

vars == <<stream, filled, pos, start, state, specified_len, value, type,
          error_code, pieces>>

-----------------------------------------------------------------------------

SyncStates == {"S0", "S1", "S2", "S3", "S12", "S13", "S25", "S26"}
FieldStates == {"S4", "S5", "S6", "S7", "S8", "S9", "S14", "S15", "S18", "S27"}
BodyStates == {"S10", "S16", "S22"}
States == SyncStates \cup FieldStates \cup BodyStates
            \cup {"S19", "S20", "S21", "S28"}

Types == FrameTypes \cup {"NONE", "ERROR"}

\* The header bytes: <<state, byte, next state>>.
HeaderEdges == {
    <<"S0", 170, "S1">>,  <<"S0", Dollar, "S18">>,
    <<"S1", 204, "S2">>,  <<"S1", 85, "S12">>,  <<"S1", 68, "S25">>,
    <<"S2", 72, "S3">>,   <<"S3", 67, "S4">>}
ShortEdges == {<<"S12", 72, "S13">>, <<"S13", 67, "S14">>}
NovatelEdges == {<<"S25", 18, "S26">>, <<"S26", 28, "S27">>}
SyncEdges == HeaderEdges \cup ShortEdges \cup NovatelEdges

\* The counted fields that follow each other without a decision, and how
\* many bytes a field has when its state is entered.  (Faulty: S7 skips S8.)
NextFieldSkips == [S4 |-> "S5", S5 |-> "S6", S6 |-> "S7", S7 |-> "S9", S8 |-> "S9",
                   S14 |-> "S15", S18 |-> "S19"]
NextField == [S4 |-> "S5", S5 |-> "S6", S6 |-> "S7", S7 |-> "S8", S8 |-> "S9",
              S14 |-> "S15", S18 |-> "S19"]
FieldLen == [S4 |-> 2, S5 |-> 2, S6 |-> 2, S7 |-> 4, S8 |-> 4, S9 |-> 4,
             S14 |-> 2, S15 |-> 2, S18 |-> 5, S27 |-> 24]

\* The type a body emits when its last byte is in.
Emits == [S10 |-> "HC_MSG", S16 |-> "HC_SHORT_MSG", S22 |-> "NMEA_MGS"]

-----------------------------------------------------------------------------
(* The tail of the scan loop *)

\* The byte under the buffer's pointer.  (Faulty: the last byte read.)
LastRead == stream[filled]
c == stream[pos + 1]

\* The token has room for one byte more.  (Faulty: off by one.)
FitsExactly(val) == Len(val) + 1 <= Capacity
Fits(val) == Len(val) + 1 < Capacity

\* A handler returned 1: the byte joins the token `val`, or the token is full.
Take(val, newtype, err) ==
    IF Fits(val)
    THEN /\ value' = Append(val, c)
         /\ pos' = pos + 1
         /\ type' = newtype
         /\ error_code' = err
    ELSE /\ value' = val
         /\ pos' = pos
         /\ type' = "ERROR"
         /\ error_code' = state'

\* A handler returned 0: the byte stays for the next handler.  The token,
\* shorter than Capacity, stays so, and the overflow branch is not taken.
Peek(newtype, err) ==
    /\ type' = newtype
    /\ error_code' = err
    /\ UNCHANGED <<value, pos>>

\* The scan loop runs a handler: the token has no type yet, the buffer a byte.
Scanning ==
    /\ type = "NONE"
    /\ pos < filled
    /\ UNCHANGED <<stream, filled, start, pieces>>

Goto(next, len) == state' = next /\ specified_len' = len

Stay == UNCHANGED <<state, specified_len>>

-----------------------------------------------------------------------------
(* The handlers *)

\* S0..S3, S12, S13, S25, S26: the expected header byte.
MatchSync ==
    /\ Scanning
    /\ \E e \in SyncEdges :
          /\ e[1] = state
          /\ e[2] = c
          /\ Goto(e[3], IF e[3] \in DOMAIN FieldLen THEN FieldLen[e[3]]
                                                    ELSE specified_len)
    /\ Take(value, "NONE", error_code)

\* The byte is none of those.  Only S0 takes it; after S0 it may itself start
\* a frame and is left to the next scan.
\* (Faulty: always taken, never taken.)
RejectTakes == Take(value, "ERROR", state)
RejectPeeks == Peek("ERROR", state)
Reject == IF state = "S0" THEN Take(value, "ERROR", state) ELSE Peek("ERROR", state)

\* The same states: any other byte.
MismatchSync ==
    /\ Scanning
    /\ state \in SyncStates
    /\ ~ \E e \in SyncEdges : e[1] = state /\ e[2] = c
    /\ Stay
    /\ Reject

\* S4..S9, S14, S15, S18, S27: one more byte of a counted field.
CountField ==
    /\ Scanning
    /\ state \in FieldStates
    /\ specified_len > 0
    /\ Goto(state, specified_len - 1)
    /\ Take(value, "NONE", error_code)

\* The same states, the field being complete: the next field.
FieldDone ==
    /\ Scanning
    /\ state \in DOMAIN NextField
    /\ specified_len = 0
    /\ Goto(NextField[state], IF NextField[state] \in DOMAIN FieldLen
                              THEN FieldLen[NextField[state]] ELSE 0)
    /\ Peek("NONE", error_code)

\* Data and checksum of a CHCNAV frame.  (Faulty: without the checksum.)
BodyLenBare == Le16(value, 4)
BodyLen == Le16(value, 4) + 4

\* S9 and S15: the header is complete and its length field sizes the body.
LengthKnown ==
    /\ Scanning
    /\ state \in {"S9", "S15"}
    /\ specified_len = 0
    /\ Goto(IF state = "S9" THEN "S10" ELSE "S16", BodyLen)
    /\ Peek("NONE", error_code)

\* S10, S16 and S22: data and checksum, up to the last byte.
Body ==
    /\ Scanning
    /\ state \in BodyStates
    /\ LET left == IF specified_len > 0 THEN specified_len - 1 ELSE 0
       IN  IF left = 0
           THEN Goto("S0", left) /\ Take(value, Emits[state], error_code)
           ELSE Goto(state, left) /\ Take(value, "NONE", error_code)

\* S19: the talker decides whether an NMEA sentence goes on.
NmeaHead ==
    /\ Scanning
    /\ state = "S19"
    /\ \/ /\ <<value[2], value[3]>> \in Talkers
          /\ Goto(IF c = Comma THEN "S21" ELSE "S20", specified_len)
          /\ Take(value, "NONE", error_code)
       \/ /\ <<value[2], value[3]>> \notin Talkers
          /\ Stay
          /\ Peek("ERROR", state)

\* S20: the comma after a six-letter identifier.
NmeaComma ==
    /\ Scanning
    /\ state = "S20"
    /\ \/ c = Comma /\ Goto("S21", specified_len) /\ Take(value, "NONE", error_code)
       \/ c # Comma /\ Stay /\ Peek("ERROR", state)

\* S21: fields of a sentence up to its star.
NmeaFields ==
    /\ Scanning
    /\ state = "S21"
    /\ \/ c = Star /\ Goto("S22", 4) /\ Take(value, "NONE", error_code)
       \/ c \in NmeaBody /\ Stay /\ Take(value, "NONE", error_code)
       \/ c \notin NmeaBody \cup {Star} /\ Stay /\ Peek("ERROR", state)

\* S27: the OEM7 header is complete; its length must fit the token.
NovatelLength ==
    /\ Scanning
    /\ state = "S27"
    /\ specified_len = 0
    /\ LET len == Le16(value, 8)
           fits == len # 0 /\ 28 + len + 4 <= Capacity
       IN  \/ fits /\ Goto("S28", len + 4) /\ Peek("NONE", error_code)
           \/ ~fits /\ Stay /\ Peek("ERROR", state)

\* Where the checksum of the token is if the length field leaves it out, and
\* if it counts it.
CrcExcluded(frame) == Len(frame) >= 8 /\ CrcAt(frame, Len(frame) - 4)
\* (Faulty: the second is taken on trust.)
CrcUnchecked(frame) == Len(frame) >= 12
CrcIncluded(frame) == Len(frame) >= 12 /\ CrcAt(frame, Len(frame) - 8)

\* S28: data and checksum.  On the last byte the checksum decides how the
\* length field was meant: without it, with it (four bytes are cut from the
\* token before the loop appends the byte), or the frame is broken.
NovatelData ==
    /\ Scanning
    /\ state = "S28"
    /\ \/ /\ specified_len > 1
          /\ Goto(state, specified_len - 1)
          /\ Take(value, "NONE", error_code)
       \/ /\ specified_len <= 1
          /\ Goto("S0", 0)
          /\ LET frame == Append(value, c)
             IN  \/ /\ CrcExcluded(frame)
                    /\ Take(value, "NOVATEL_MSG", error_code)
                 \/ /\ ~CrcExcluded(frame)
                    /\ CrcIncluded(frame)
                    /\ Take(SubSeq(value, 1, Len(value) - 4), "NOVATEL_MSG",
                            error_code)
                 \/ /\ ~CrcExcluded(frame)
                    /\ ~CrcIncluded(frame)
                    /\ Take(value, "ERROR", state)

Handler ==
    \/ MatchSync \/ MismatchSync \/ CountField \/ FieldDone \/ LengthKnown
    \/ Body \/ NmeaHead \/ NmeaComma \/ NmeaFields
    \/ NovatelLength \/ NovatelData

-----------------------------------------------------------------------------
(* The read handler and the node *)

\* The buffer is used up: the scan loop waits in the read handler until the
\* device returns a chunk.  Reads that return nothing change nothing.
\* (Faulty: only when the device has a full buffer.)
RefillFull ==
    /\ type = "NONE"
    /\ pos = filled
    /\ filled + BufferSize <= Len(stream)
    /\ filled' = filled + BufferSize
    /\ UNCHANGED <<stream, pos, start, state, specified_len, value, type,
                   error_code, pieces>>
Refill ==
    /\ type = "NONE"
    /\ pos = filled
    /\ filled < Len(stream)
    /\ \E n \in 1..BufferSize :
          /\ filled + n <= Len(stream)
          /\ filled' = filled + n
    /\ UNCHANGED <<stream, pos, start, state, specified_len, value, type,
                   error_code, pieces>>

\* After an error token the node clears the parser's error and state.
ClearError ==
    IF type \in FrameTypes
    THEN UNCHANGED <<error_code, state>>
    ELSE error_code' = "NONE" /\ state' = "S0"

\* The scan returned.  The node counts and routes the token, clears an error
\* and its state, and calls the scan again, which resets the token.
Dispatch ==
    /\ type # "NONE"
    /\ pieces' = Append(pieces, Splitter!Piece(type, start, pos))
    /\ start' = pos
    /\ value' = <<>>
    /\ type' = "NONE"
    /\ ClearError
    /\ UNCHANGED <<stream, filled, pos, specified_len>>

Init ==
    /\ stream \in Input
    /\ filled = 0
    /\ pos = 0
    /\ start = 0
    /\ state = "S0"
    /\ specified_len = 0
    /\ value = <<>>
    /\ type = "NONE"
    /\ error_code = "NONE"
    /\ pieces = <<>>

Next == Refill \/ Handler \/ Dispatch

Spec == Init /\ [][Next]_vars

\* The node's thread never stops calling the scan, and the device delivers.
FairSpec == Spec /\ WF_vars(Next)

-----------------------------------------------------------------------------
(* Properties *)

\* The stream from position f up to t.
Segment(f, t) == SubSeq(stream, f + 1, t)

\* Every variable has its type; the token never outgrows its array, and the
\* stream positions never overtake one another.
TypeOK ==
    /\ stream \in Seq(Byte)
    /\ filled \in 0..Len(stream)
    /\ pos \in 0..filled
    /\ start \in 0..pos
    /\ state \in States
    /\ specified_len \in Nat
    /\ value \in Seq(Byte)
    /\ Len(value) < Capacity
    /\ type \in Types
    /\ error_code \in States \cup {"NONE"}
    /\ pieces \in Seq([type : Types \ {"NONE"}, from : Nat, to : Nat])

\* What the states know of the token (the parser has no variable for it): how
\* its bytes begin, and where the field, body or sentence being counted ends.
FieldEnd == [S4 |-> 6, S5 |-> 8, S6 |-> 10, S7 |-> 14, S8 |-> 18, S9 |-> 22,
             S14 |-> 6, S15 |-> 8, S18 |-> 6, S27 |-> 28]

HeadKnown(st, s) ==
    /\ st = "S0" => Len(s) = 0
    /\ st \in {"S1", "S2", "S3", "S12", "S13", "S25", "S26"} => At(s, 0) = 170
    /\ st = "S1" => Len(s) = 1
    /\ st = "S2" => Len(s) = 2 /\ At(s, 1) = 204
    /\ st = "S3" => Len(s) = 3 /\ At(s, 1) = 204 /\ At(s, 2) = 72
    /\ st = "S12" => Len(s) = 2 /\ At(s, 1) = 85
    /\ st = "S13" => Len(s) = 3 /\ At(s, 1) = 85 /\ At(s, 2) = 72
    /\ st = "S25" => Len(s) = 2 /\ At(s, 1) = 68
    /\ st = "S26" => Len(s) = 3 /\ At(s, 1) = 68 /\ At(s, 2) = 18
    /\ st \in {"S4", "S5", "S6", "S7", "S8", "S9", "S10"} =>
          Len(s) >= 4 /\ Begins(s, 170, 204, 72, 67)
    /\ st \in {"S14", "S15", "S16"} =>
          Len(s) >= 4 /\ Begins(s, 170, 85, 72, 67)
    /\ st \in {"S27", "S28"} =>
          Len(s) >= 4 /\ Begins(s, 170, 68, 18, 28)
    /\ st \in {"S18", "S19", "S20", "S21", "S22"} =>
          Len(s) >= 1 /\ At(s, 0) = Dollar
    /\ st \in {"S20", "S21", "S22"} =>
          Len(s) >= 7 /\ <<At(s, 1), At(s, 2)>> \in Talkers

EndKnown(st, s, left) ==
    /\ st \in FieldStates => Len(s) + left = FieldEnd[st]
    /\ st = "S10" => Len(s) >= 22 /\ left > 0 /\ Len(s) + left = 26 + Le16(s, 4)
    /\ st = "S16" => Len(s) >= 8 /\ left > 0 /\ Len(s) + left = 12 + Le16(s, 4)
    /\ st = "S19" => Len(s) = 6
    /\ st = "S20" => Len(s) = 7
    /\ st = "S21" => CommaThenBody(s, Len(s))
    /\ st = "S22" =>
          /\ left \in 1..4
          /\ At(s, Len(s) + left - 5) = Star
          /\ CommaThenBody(s, Len(s) + left - 5)
    /\ st = "S28" =>
          /\ Len(s) >= 28
          /\ left > 0
          /\ Le16(s, 8) > 0
          /\ Len(s) + left = 28 + Le16(s, 8) + 4

TokenShape ==
    /\ type = "NONE" =>
          /\ value = Segment(start, pos)
          /\ HeadKnown(state, value)
          /\ EndKnown(state, value, specified_len)
    /\ type \in FrameTypes => state = "S0"

\* An error is pending exactly while an error token is, so the early return
\* of hc__msg_parser_scan (line 133) never finds one left from an earlier scan,
\* and every scan starts in S0.
NoStaleError ==
    /\ (type = "ERROR") <=> (error_code # "NONE")
    /\ pos = start /\ type = "NONE" => state = "S0"

\* Whatever the node is handed as a frame is one: from its first to its last
\* byte the stream spells a complete frame of the type of the token, sized by
\* its own length field, whatever garbage or broken frame went before.
FramesAreWhole ==
    type \in FrameTypes => IsFrame(type, Segment(start, pos))

\* The scans cut the stream into consecutive, non-empty pieces: no byte is
\* lost between two tokens, none is part of two, and no scan returns without
\* having taken a byte (which would let the node loop spin for ever).
PiecesTile ==
    /\ \A i \in DOMAIN pieces : pieces[i].from < pieces[i].to
    /\ \A i \in DOMAIN pieces :
          pieces[i].from = IF i = 1 THEN 0 ELSE pieces[i - 1].to
    /\ start = IF pieces = <<>> THEN 0 ELSE pieces[Len(pieces)].to
    /\ type # "NONE" => start < pos

\* A complete frame that starts where a scan starts, and fits the token, is
\* what this scan returns: no frame is discarded, cut short or run together
\* with its successor, however the device chops the stream into reads.
FrameNotMissed ==
    type # "NONE" =>
        \A t \in (start + 1)..Len(stream) :
            t - start < Capacity =>
                /\ IsCgi(Segment(start, t)) => type = "HC_MSG" /\ pos = t
                /\ IsShort(Segment(start, t)) => type = "HC_SHORT_MSG" /\ pos = t
                /\ IsNmea(Segment(start, t)) => type = "NMEA_MGS" /\ pos = t
                /\ IsNovatel(Segment(start, t)) => type = "NOVATEL_MSG" /\ pos = t

\* A log whose length field counts its checksum is returned as that log, the
\* four bytes of its successor left alone.  hc_msg_parser.c:642 says that the
\* parser is compatible with this convention too.
InclusiveFrameNotMissed ==
    type # "NONE" =>
        \A t \in (start + 1)..Len(stream) :
            IsNovatelIncl(Segment(start, t)) => type = "NOVATEL_MSG" /\ pos = t

\* What the decoders read of a frame, all of it but the checksum, is what the
\* device sent, also when the parser cut a frame of the second convention.
PayloadAsReceived ==
    type \in FrameTypes =>
        LET n == Len(value) - 4
        IN  SubSeq(value, 1, n) = Segment(start, start + n)

\* A header that breaks off never takes the byte that broke it: a frame that
\* starts right there is still found by the next scan.
BrokenHeaderKeepsNext ==
    type = "ERROR" /\ error_code \in SyncStates \ {"S0"} =>
        \A k \in (start + 2)..pos : stream[k] \notin {170, Dollar}

\* The parser implements the abstract splitter.
SplitsIntoFrames == Splitter!Spec

\* The node thread drains the stream: zero-step transitions and errors never
\* keep the scan on one byte for ever.
Drained == <>[](pos = Len(stream) /\ type = "NONE")

=============================================================================
