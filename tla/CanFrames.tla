------------------------------ MODULE CanFrames ------------------------------
(***************************************************************************)
(* What can_common makes of the eight bytes of a CAN frame, in its two     *)
(* formats, next to the layout the device's manual gives: fields by bit    *)
(* offset and length.  The two agree but for the sigmas of position and    *)
(* attitude.                                                               *)
(*                                                                         *)
(* Scale factors are left out: a field of up to 20 bits is an integer, a   *)
(* wider one is its bytes, the most significant first.                     *)
(***************************************************************************)
EXTENDS Integers, Sequences

Bytes8 == [0..7 -> 0..255]

Bit(byte, i) == (byte \div 2^i) % 2

\* Two's complement of a value of w bits.
Signed(w, v) == IF v >= 2^(w - 1) THEN v - 2^w ELSE v

\* The low 20 bits of v, extended by the sign that was found in another place.
\* (Faulty: the upper bits stay as they were shifted in.)
SignFillKeeps(v, negative) == IF negative = 1 THEN (v % 2^20) - 2^20 ELSE v
SignFill(v, negative) == IF negative = 1 THEN (v % 2^20) - 2^20 ELSE v % 2^20

\* The bytes i, i+1, ... of d, in the order the format sends them.
Upward(d, i, n) == [k \in 1..n |-> d[i + k - 1]]
Downward(d, i, n) == [k \in 1..n |-> d[i + n - k]]

-----------------------------------------------------------------------------
(* decode_motorola() *)

\* Twenty bits that start or end within a byte.
FromHigh(d, i) == d[i] * 2^12 + d[i + 1] * 2^4 + d[i + 2] \div 2^4
FromLow(d, i) == (d[i] % 2^4) * 2^16 + d[i + 1] * 2^8 + d[i + 2]
U16(d, i) == d[i] * 2^8 + d[i + 1]
I16(d, i) == Signed(16, U16(d, i))

MotorolaUnsigned20(d) == <<FromHigh(d, 0), FromLow(d, 2), FromHigh(d, 5)>>
MotorolaSigned20(d) ==
    <<SignFill(FromHigh(d, 0), Bit(d[0], 7)),
      SignFill(FromLow(d, 2), Bit(d[2], 3)),
      SignFill(FromHigh(d, 5), Bit(d[5], 7))>>

MotorolaTime(d) == <<U16(d, 0), Upward(d, 2, 4)>>
MotorolaAngRateRaw(d) == MotorolaSigned20(d)
MotorolaAccelRaw(d) == MotorolaSigned20(d)
MotorolaSysStatus(d) == <<d[0], d[1], d[2], d[3], U16(d, 4), d[6], d[7]>>
MotorolaAltitude(d) == <<Upward(d, 0, 4)>>
MotorolaPosSigma(d) == MotorolaUnsigned20(d)
MotorolaVelocity(d) == <<I16(d, 0), I16(d, 2), I16(d, 4), I16(d, 6)>>
MotorolaVelocitySigma(d) == <<U16(d, 0), U16(d, 2), U16(d, 4), U16(d, 6)>>
MotorolaAccel(d) == MotorolaSigned20(d)
MotorolaAngle(d) == <<U16(d, 0), I16(d, 2), I16(d, 4), U16(d, 6)>>
MotorolaAngleSigma(d) == MotorolaUnsigned20(d)
MotorolaAngRate(d) == MotorolaSigned20(d)
MotorolaLongitude(d) == <<Upward(d, 0, 8)>>
MotorolaLatitude(d) == <<Upward(d, 0, 8)>>
MotorolaLatLon(d) == <<Upward(d, 0, 4), Upward(d, 4, 4)>>

-----------------------------------------------------------------------------
(* decode_intel() *)

\* All of the byte i + 2 is shifted in: the upper half belongs to the next field.
UpToLow(d, i) == d[i + 2] * 2^16 + d[i + 1] * 2^8 + d[i]
UpToLowMasked(d, i) == (d[i + 2] % 2^4) * 2^16 + d[i + 1] * 2^8 + d[i]
UpToHigh(d, i) == d[i + 2] * 2^12 + d[i + 1] * 2^4 + d[i] \div 2^4
U16Le(d, i) == d[i + 1] * 2^8 + d[i]
I16Le(d, i) == Signed(16, U16Le(d, i))

IntelUnsigned20(d) == <<UpToLowMasked(d, 0), UpToHigh(d, 2), UpToLowMasked(d, 5)>>
IntelSigned20(d) ==
    <<SignFill(UpToLow(d, 0), Bit(d[2], 3)),
      SignFill(UpToHigh(d, 2), Bit(d[4], 7)),
      SignFill(UpToLow(d, 5), Bit(d[7], 3))>>

IntelTime(d) == <<U16Le(d, 0), Downward(d, 2, 4)>>
IntelAngRateRaw(d) == IntelSigned20(d)
IntelAccelRaw(d) == IntelSigned20(d)
IntelSysStatus(d) == <<d[0], d[1], d[2], d[3], U16Le(d, 4), d[6], d[7]>>
IntelAltitude(d) == <<Downward(d, 0, 4)>>
IntelPosSigma(d) == IntelUnsigned20(d)
IntelVelocity(d) == <<I16Le(d, 0), I16Le(d, 2), I16Le(d, 4), I16Le(d, 6)>>
IntelVelocitySigma(d) == <<U16Le(d, 0), U16Le(d, 2), U16Le(d, 4), U16Le(d, 6)>>
IntelAccel(d) == IntelSigned20(d)
IntelAngle(d) == <<U16Le(d, 0), I16Le(d, 2), I16Le(d, 4), U16Le(d, 6)>>
IntelAngleSigma(d) == IntelUnsigned20(d)
IntelAngRate(d) == IntelSigned20(d)
IntelLongitude(d) == <<Downward(d, 0, 8)>>
IntelLatitude(d) == <<Downward(d, 0, 8)>>
IntelLatLon(d) == <<Downward(d, 0, 4), Downward(d, 4, 4)>>

-----------------------------------------------------------------------------
(* The frames by name *)

\* The frame with each identifier, as the manual and the demo's launch file set them.
FrameOfId ==
    <<"time", "angrate_rawIMU", "accel_rawIMU", "sys_status", "latitude_longitude",
      "altitude", "pos_sigma", "velocity_level", "velocity_level_sigma", "accel_vehicle",
      "heading_pitch_roll", "heading_pitch_roll_sigma", "angrate_vehicle", "longitude",
      "latitude">>
FirstId == 800
CanIds == FirstId..(FirstId + 14)
FrameName(id) == FrameOfId[id - FirstId + 1]
FrameNames == {FrameName(id) : id \in CanIds}

Motorola(d) ==
    [time |-> MotorolaTime(d), angrate_rawIMU |-> MotorolaAngRateRaw(d),
     accel_rawIMU |-> MotorolaAccelRaw(d), sys_status |-> MotorolaSysStatus(d),
     altitude |-> MotorolaAltitude(d), pos_sigma |-> MotorolaPosSigma(d),
     velocity_level |-> MotorolaVelocity(d),
     velocity_level_sigma |-> MotorolaVelocitySigma(d), accel_vehicle |-> MotorolaAccel(d),
     heading_pitch_roll |-> MotorolaAngle(d),
     heading_pitch_roll_sigma |-> MotorolaAngleSigma(d),
     angrate_vehicle |-> MotorolaAngRate(d), longitude |-> MotorolaLongitude(d),
     latitude |-> MotorolaLatitude(d), latitude_longitude |-> MotorolaLatLon(d)]
Intel(d) ==
    [time |-> IntelTime(d), angrate_rawIMU |-> IntelAngRateRaw(d),
     accel_rawIMU |-> IntelAccelRaw(d), sys_status |-> IntelSysStatus(d),
     altitude |-> IntelAltitude(d), pos_sigma |-> IntelPosSigma(d),
     velocity_level |-> IntelVelocity(d),
     velocity_level_sigma |-> IntelVelocitySigma(d), accel_vehicle |-> IntelAccel(d),
     heading_pitch_roll |-> IntelAngle(d),
     heading_pitch_roll_sigma |-> IntelAngleSigma(d),
     angrate_vehicle |-> IntelAngRate(d), longitude |-> IntelLongitude(d),
     latitude |-> IntelLatitude(d), latitude_longitude |-> IntelLatLon(d)]

\* What a frame with this identifier sets, by the format the node was given.
Decoded(format, id, d) ==
    IF format = "motorola" THEN Motorola(d)[FrameName(id)] ELSE Intel(d)[FrameName(id)]

-----------------------------------------------------------------------------
(* The layout: each field's bit offset, length and sign.  In the motorola      *)
(* format the bits of a byte and the bytes of a field count from the most      *)
(* significant, in the intel format from the least significant.                *)

Field(offset, length, sign) == [offset |-> offset, length |-> length, sign |-> sign]
Unsigned(lengths) ==
    LET StartOf[i \in 1..Len(lengths)] ==
            IF i = 1 THEN 0 ELSE StartOf[i - 1] + lengths[i - 1]
    IN [i \in DOMAIN lengths |-> Field(StartOf[i], lengths[i], FALSE)]
SignedAt(fields, which) == [i \in DOMAIN fields |-> [fields[i] EXCEPT !.sign = i \in which]]

\* The fields the manual lists (docs/CGI-410.md:341-560).  The fourth angle that the
\* code reads of 810 is not among them.
Layout ==
    [time |-> Unsigned(<<16, 32>>),
     angrate_rawIMU |-> SignedAt(Unsigned(<<20, 20, 20>>), {1, 2, 3}),
     accel_rawIMU |-> SignedAt(Unsigned(<<20, 20, 20>>), {1, 2, 3}),
     sys_status |-> Unsigned(<<8, 8, 8, 8, 16, 8, 8>>),
     altitude |-> Unsigned(<<32>>),
     pos_sigma |-> Unsigned(<<16, 16, 16>>),
     velocity_level |-> SignedAt(Unsigned(<<16, 16, 16, 16>>), {1, 2, 3, 4}),
     velocity_level_sigma |-> Unsigned(<<16, 16, 16, 16>>),
     accel_vehicle |-> SignedAt(Unsigned(<<20, 20, 20>>), {1, 2, 3}),
     heading_pitch_roll |-> SignedAt(Unsigned(<<16, 16, 16>>), {2, 3}),
     heading_pitch_roll_sigma |-> Unsigned(<<16, 16, 16>>),
     angrate_vehicle |-> SignedAt(Unsigned(<<20, 20, 20>>), {1, 2, 3}),
     longitude |-> Unsigned(<<64>>),
     latitude |-> Unsigned(<<64>>),
     latitude_longitude |-> Unsigned(<<32, 32>>)]

BitAt(format, d, k) ==
    IF format = "motorola" THEN Bit(d[k \div 8], 7 - (k % 8)) ELSE Bit(d[k \div 8], k % 8)

\* The value of n bits from offset o on.
Slice(format, d, o, n) ==
    LET Value[i \in 0..n] ==
            IF i = 0 THEN 0
            ELSE IF format = "motorola" THEN 2 * Value[i - 1] + BitAt(format, d, o + i - 1)
            ELSE 2 * Value[i - 1] + BitAt(format, d, o + n - i)
    IN Value[n]

\* A field's value, or its bytes.
Read(format, d, f) ==
    IF f.length <= 20
    THEN LET v == Slice(format, d, f.offset, f.length) IN IF f.sign THEN Signed(f.length, v) ELSE v
    ELSE [k \in 1..(f.length \div 8) |->
             Slice(format, d,
                   IF format = "motorola" THEN f.offset + 8 * (k - 1)
                                          ELSE f.offset + f.length - 8 * k, 8)]

\* These values are the fields that the layout lists for the name.
AsLaidOut(format, name, values, d) ==
    \A i \in DOMAIN Layout[name] : values[i] = Read(format, d, Layout[name][i])
=============================================================================
