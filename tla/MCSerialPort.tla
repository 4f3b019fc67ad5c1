----------------------------- MODULE MCSerialPort -----------------------------
(* Two threads at a port: r reads, in every way, and moves to another port; w      *)
(* writes, reads a byte, closes and changes settings.                              *)
EXTENDS SerialPort

Does(ops) == {[op |-> o, size |-> 0] : o \in ops}
ReadsOf(n) == {[op |-> "read", size |-> n]}
LinesOf(n) == {[op |-> o, size |-> n] : o \in {"readline", "readlines"}}
WritesOf(n) == {[op |-> "write", size |-> n]}

\* Reads and lines, with what the other thread may do to their bytes.
BytesPlan ==
    [r |-> <<ReadsOf(2) \cup LinesOf(3)>>,
     w |-> <<ReadsOf(1) \cup Does({"flush", "close"})>>]
\* A read after the input was discarded, the port moved or was opened again.
AgainPlan ==
    [r |-> <<Does({"flushInput", "setPort", "open"}), ReadsOf(2)>>,
     w |-> <<WritesOf(2) \cup Does({"flush", "flushOutput", "close", "setTimeout"})>>]
\* Settings, with the port closed, opened and moved in between.
SettingsPlan ==
    [r |-> <<Does({"setPort", "setBaudrate", "open"})>>,
     w |-> <<Does({"setParity", "close"}), Does({"setParity", "setBaudrate"})>>]
MCPlans == {BytesPlan, AgainPlan, SettingsPlan}
\* One read.
ReadPlan == {[r |-> <<ReadsOf(2)>>]}

\* What serial_common sets, and a timeout with an inter-byte timeout.
MCTimeouts ==
    {[inter |-> Never, read |-> 0, write |-> 0], [inter |-> 1, read |-> 2, write |-> 1]}
MCScript == <<"cr", "lf", "x">>
MCEol == <<"cr", "lf">>
=============================================================================
