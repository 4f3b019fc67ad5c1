-------------------------- MODULE MCDeviceConnector --------------------------
(* The first frame is a ramp of eight different bytes, or has the sign bit of every *)
(* half byte set; the second is another of one kind, or has an unknown identifier.  *)
(* With a writer the interleavings matter, and one kind of frame does.              *)
EXTENDS DeviceConnector

MCModes ==
    {[type |-> type, write |-> write, format |-> "none"] :
        type \in {"udp", "file", "serial"}, write \in BOOLEAN}
    \cup {[type |-> "can", write |-> write, format |-> "motorola"] : write \in BOOLEAN}
    \cup {[type |-> "can", write |-> FALSE, format |-> "intel"]}

Ramp == [i \in 0..7 |-> 19 * i + 37]
All(byte) == [i \in 0..7 |-> byte]

Frames(ids, data) == {[id |-> id, data |-> d] : id \in ids, d \in data}
MCPayloads ==
    [write \in BOOLEAN |->
        IF write THEN <<Frames({809}, {Ramp}), Frames({809}, {Ramp})>>
        ELSE <<Frames(CanIds, {Ramp, All(136), All(119)}), Frames({801, 900}, {All(255)})>>]
=============================================================================
