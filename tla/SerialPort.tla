------------------------------ MODULE SerialPort ------------------------------
(***************************************************************************)
(* serial::Serial, the library under serial_common: one port, shared by    *)
(* the threads of a process.  Reads hold the read lock and writes the      *)
(* write lock; what concerns both takes both; open(), close() and          *)
(* setTimeout() take none, and are called while nothing else is.           *)
(*                                                                         *)
(* A call runs to its next system call.  Time is in milliseconds: a timer  *)
(* counts down to 0 and below.  The bytes that arrive are numbered; the    *)
(* driver holds those that nobody has taken.                               *)
(***************************************************************************)
EXTENDS Integers, Sequences

CONSTANTS
    Threads,
    Script,      \* the characters that arrive, in order
    Eol,         \* the delimiter of readline() and readlines()
    Timeouts,    \* [inter, read, write], inter is Never or in milliseconds
    OutSize,     \* room in the driver for output
    Settable,    \* the parities that are set
    Plans,       \* bound: what each thread calls, one of a set of calls after the other
    MaxFaults    \* bound: what goes wrong

Never == -1
\* 2^32 - 1 milliseconds and less: longer than any run.
Forever == 2^20
Parities == {"none", "odd", "even", "mark", "space"}

ASSUME TimeoutsAssumption ==
    Timeouts \subseteq [inter : Nat \cup {Never}, read : Nat, write : Nat]
ASSUME BoundsAssumption ==
    OutSize \in Nat \ {0} /\ MaxFaults \in Nat
Call == [op : STRING \ {"none"}, size : Nat]
ASSUME PlansAssumption == Plans \subseteq [Threads -> Seq(SUBSET Call)]
\* A line reader whose size is less than the delimiter's would write past its buffer.
ASSUME SizesAssumption ==
    \A p \in Plans : \A t \in Threads : \A i \in DOMAIN p[t] : \A c \in p[t][i] :
        c.op \in {"readline", "readlines"} => c.size >= Len(Eol)
ASSUME ThreadsAssumption == "free" \notin Threads
ASSUME ParitiesAssumption == Settable \subseteq Parities

VARIABLES
    is_open, fd,     \* fd_: "none", "valid", or "stale" once close() has failed
    timeout,         \* timeout_
    parity, baud,    \* parity_; baudrate_, "standard" or "custom"
    tty,             \* [parenb, parodd, cmspar]: what the line has been told
    lock,            \* the owner of each mutex, or "free"
    call,            \* the call of each thread
    result,          \* what its last call has read
    sent, taken,     \* bytes that have arrived, and how many have left the driver
    out,             \* bytes of output in the driver
    gone,            \* the device is unplugged
    calls,           \* those each thread is yet to make: what is left of a plan
    faults,          \* how many there have been
    company,         \* history: threads whose way to the line was shared with another's
    settled          \* history: the line was last told by a call without company, and took it

port == <<is_open, fd, timeout>>
settings == <<parity, baud, tty, company, settled>>
driver == <<sent, taken, out>>
world == <<gone, faults>>
vars == <<port, settings, lock, call, result, driver, world, calls>>

Nothing == [op |-> "none", size |-> 0]
Unset == [parenb |-> FALSE, parodd |-> FALSE, cmspar |-> FALSE]
Reads == {"read", "readline", "readlines"}
Available == IF gone \/ fd # "valid" THEN 0 ELSE sent - taken
Smaller(a, b) == IF a < b THEN a ELSE b
Fault == faults < MaxFaults /\ faults' = faults + 1

-----------------------------------------------------------------------------
(* Calls, and the locks they take *)

\* The mutexes of a call, in the order the scoped locks take them.
\* (Faulty: the two are taken in the other order by flush().)
LocksCrossed(op) ==
    CASE op \in Reads \cup {"flushInput"} -> <<"read">>
      [] op \in {"write", "flushOutput"} -> <<"write">>
      [] op = "setPort" -> <<"read", "write">>
      [] op = "flush" -> <<"write", "read">>
      [] OTHER -> <<>>
\* (Faulty: lines are read without the lock.)
LocksForBytes(op) ==
    CASE op \in {"read", "flushInput"} -> <<"read">>
      [] op \in {"write", "flushOutput"} -> <<"write">>
      [] op \in {"flush", "setPort"} -> <<"read", "write">>
      [] OTHER -> <<>>
Locks(op) ==
    CASE op \in Reads \cup {"flushInput"} -> <<"read">>
      [] op \in {"write", "flushOutput"} -> <<"write">>
      [] op \in {"flush", "setPort"} -> <<"read", "write">>
      [] OTHER -> <<>>

Alone == {"open", "close", "setTimeout"}

Invoke(t) ==
    /\ call[t] = Nothing /\ calls[t] # <<>>
    /\ \E c \in Head(calls[t]) :
           /\ \A u \in Threads \ {t} :
                  call[u] # Nothing => c.op \notin Alone /\ call[u].op \notin Alone
           /\ call' = [call EXCEPT ![t] =
                  [op |-> c.op, size |-> c.size, pc |-> "lock", locks |-> 0, got |-> <<>>,
                   cuts |-> <<>>, have |-> 0, left |-> 0, wait |-> 0, first |-> TRUE,
                   options |-> Unset, custom |-> FALSE]]
    /\ result' = [result EXCEPT ![t] = Nothing]
    /\ calls' = [calls EXCEPT ![t] = Tail(@)]
    /\ UNCHANGED <<port, settings, lock, driver, world>>

At(t, pc) == call[t] # Nothing /\ call[t].pc = pc
Is(t, ops) == call[t].op \in ops
Becomes(t, c) == call' = [call EXCEPT ![t] = c] /\ UNCHANGED <<lock, result>>

Lock(t) ==
    /\ At(t, "lock")
    /\ LET c == call[t] IN
       IF c.locks = Len(Locks(c.op))
       THEN Becomes(t, [c EXCEPT !.pc = "begin"])
       ELSE LET m == Locks(c.op)[c.locks + 1] IN
            /\ lock[m] = "free" /\ lock' = [lock EXCEPT ![m] = t]
            /\ call' = [call EXCEPT ![t].locks = c.locks + 1]
            /\ UNCHANGED result
    /\ UNCHANGED <<port, settings, driver, world, calls>>

\* The scoped locks are released however the call ends.
Ends(t, c, threw) ==
    /\ call' = [call EXCEPT ![t] = Nothing]
    /\ lock' = [m \in DOMAIN lock |-> IF lock[m] = t THEN "free" ELSE lock[m]]
    /\ result' = [result EXCEPT ![t] =
           IF threw \/ c.op \notin Reads THEN Nothing
           ELSE [op |-> c.op, size |-> c.size, got |-> c.got, cuts |-> c.cuts, left |-> c.left]]
Returns(t, c) == Ends(t, c, FALSE)
\* The bytes of a read that throws are lost with it.
Throws(t) == Ends(t, call[t], TRUE)

-----------------------------------------------------------------------------
(* Reading *)

\* What SerialImpl::read() is asked for: a byte at a time by the line readers.
Asked(c) == IF c.op = "read" THEN c.size ELSE 1

Got(c, k) == [c EXCEPT !.got = @ \o [i \in 1..k |-> taken + i], !.have = @ + k]

\* The timer of this read starts, and what there is is taken without waiting.
ReadBegin(t) ==
    /\ At(t, "begin") /\ Is(t, Reads)
    /\ LET k == Smaller(Available, Asked(call[t])) IN
       \/ ~is_open /\ Throws(t) /\ UNCHANGED taken
       \/ /\ is_open /\ taken' = taken + k
          /\ Becomes(t, Got([call[t] EXCEPT !.left = timeout.read, !.have = 0, !.wait = Never,
                                           !.pc = "loop"], k))
    /\ UNCHANGED <<port, settings, sent, out, world, calls>>

\* It goes on until it has everything or its time is over; it waits for the device
\* the rest of its time, or the inter-byte timeout if that is shorter.
ReadLoop(t) ==
    /\ At(t, "loop") /\ Is(t, Reads)
    /\ LET c == call[t] IN
       IF c.have = Asked(c) \/ c.left <= 0 THEN Becomes(t, [c EXCEPT !.pc = "done"])
       ELSE Becomes(t, [c EXCEPT !.pc = "select", !.wait =
                IF timeout.inter = Never THEN c.left ELSE Smaller(c.left, timeout.inter)])
    /\ UNCHANGED <<port, settings, driver, world, calls>>

\* waitReadable() is false after a timeout, with nothing left to wait, or a signal, with
\* some; an unplugged device is always readable, and a bad descriptor an error.  (That the
\* call may then wait for more bytes to arrive at once makes no difference but in time.)
\* (Faulty: the read ends when it is false.)
ReadSelectedEnds(t) ==
    /\ At(t, "select") /\ Is(t, Reads)
    /\ \/ (Available > 0 \/ gone) /\ Becomes(t, [call[t] EXCEPT !.pc = "grab", !.wait = Never])
       \/ Becomes(t, [call[t] EXCEPT !.pc = "done"])
       \/ fd # "valid" /\ Throws(t)
    /\ UNCHANGED <<port, settings, driver, world, calls>>
ReadSelected(t) ==
    /\ At(t, "select") /\ Is(t, Reads)
    /\ \/ (Available > 0 \/ gone) /\ Becomes(t, [call[t] EXCEPT !.pc = "grab", !.wait = Never])
       \/ Becomes(t, [call[t] EXCEPT !.pc = "loop"])
       \/ fd # "valid" /\ Throws(t)
    /\ UNCHANGED <<port, settings, driver, world, calls>>

\* ready to read, and nothing there: unplugged.
Grab(t) ==
    /\ At(t, "grab")
    /\ LET c == call[t]
           k == Smaller(Available, Asked(c) - c.have) IN
       \/ k = 0 /\ Throws(t) /\ UNCHANGED taken
       \/ k > 0 /\ taken' = taken + k /\ Becomes(t, Got([c EXCEPT !.pc = "loop"], k))
    /\ UNCHANGED <<port, settings, sent, out, world, calls>>

\* What follows a SerialImpl::read().
EndsWithEol(got) ==
    /\ Len(got) >= Len(Eol)
    /\ \A i \in DOMAIN Eol : Script[got[Len(got) - Len(Eol) + i]] = Eol[i]

ReadDone(t) ==
    /\ At(t, "done") /\ Is(t, {"read"})
    /\ Returns(t, call[t])
    /\ UNCHANGED <<port, settings, driver, world, calls>>

LineDone(t) ==
    /\ At(t, "done") /\ Is(t, {"readline"})
    /\ LET c == call[t] IN
       IF c.have = 0 \/ EndsWithEol(c.got) \/ Len(c.got) = c.size
       THEN Returns(t, c)
       ELSE Becomes(t, [c EXCEPT !.pc = "begin"])
    /\ UNCHANGED <<port, settings, driver, world, calls>>

\* A line ends at a delimiter, and the last one where the reading stops.
\* (Faulty: what follows the last delimiter is no line when the size is reached.)
CutRest(c) == [c EXCEPT !.cuts = IF EndsWithEol(c.got) THEN Append(@, Len(c.got)) ELSE @]
Cut(c) ==
    LET upto == IF c.cuts = <<>> THEN 0 ELSE c.cuts[Len(c.cuts)]
        stops == c.have = 0 \/ Len(c.got) = c.size
    IN [c EXCEPT !.cuts =
           IF upto # Len(c.got) /\ (EndsWithEol(c.got) \/ stops) THEN Append(@, Len(c.got)) ELSE @]
LinesDone(t) ==
    /\ At(t, "done") /\ Is(t, {"readlines"})
    /\ LET c == call[t] IN
       IF c.have = 0 \/ Len(c.got) = c.size
       THEN Returns(t, Cut(c))
       ELSE Becomes(t, [Cut(c) EXCEPT !.pc = "begin"])
    /\ UNCHANGED <<port, settings, driver, world, calls>>

FlushInput(t) ==
    /\ At(t, "begin") /\ Is(t, {"flushInput"})
    /\ IF is_open THEN Returns(t, call[t]) ELSE Throws(t)
    /\ taken' = IF is_open /\ fd = "valid" THEN sent ELSE taken
    /\ UNCHANGED <<port, settings, sent, out, world, calls>>

-----------------------------------------------------------------------------
(* Writing *)

WriteBegin(t) ==
    /\ At(t, "begin") /\ Is(t, {"write"})
    /\ IF is_open
       THEN Becomes(t, [call[t] EXCEPT !.left = timeout.write, !.pc = "loop"])
       ELSE Throws(t)
    /\ UNCHANGED <<port, settings, driver, world, calls>>

\* timespec_from_ms() takes the rest of the time as a uint32_t.
Unsigned32(left) == IF left < 0 THEN Forever ELSE left

\* The first time round waits, whatever is left.
WriteLoop(t) ==
    /\ At(t, "loop") /\ Is(t, {"write"})
    /\ LET c == call[t] IN
       IF c.have = c.size \/ (~c.first /\ c.left <= 0)
       THEN Returns(t, c)
       ELSE Becomes(t, [c EXCEPT !.pc = "select", !.first = FALSE, !.wait = Unsigned32(c.left)])
    /\ UNCHANGED <<port, settings, driver, world, calls>>

WriteSelected(t) ==
    /\ At(t, "select") /\ Is(t, {"write"})
    /\ LET c == call[t] IN
       \/ (out < OutSize \/ gone) /\ Becomes(t, [c EXCEPT !.pc = "put", !.wait = 0])
       \/ c.wait = 0 /\ Returns(t, c)
       \/ Becomes(t, [c EXCEPT !.pc = "loop", !.wait = 0])
       \/ fd # "valid" /\ Throws(t)
    /\ UNCHANGED <<port, settings, driver, world, calls>>

\* A signal sends it round again.
Put(t) ==
    /\ At(t, "put")
    /\ LET c == call[t] IN
       \/ Becomes(t, [c EXCEPT !.pc = "loop"]) /\ UNCHANGED out
       \/ (gone \/ fd # "valid") /\ Throws(t) /\ UNCHANGED out
       \/ /\ ~gone /\ fd = "valid"
          /\ \E k \in 1..Smaller(c.size - c.have, OutSize - out) :
                 /\ out' = out + k
                 /\ Becomes(t, [c EXCEPT !.have = @ + k, !.pc = "loop"])
    /\ UNCHANGED <<port, settings, sent, taken, world, calls>>

Flush(t) ==
    /\ At(t, "begin") /\ Is(t, {"flush"})
    /\ \/ ~is_open /\ Throws(t)
       \/ is_open /\ (out = 0 \/ gone \/ fd # "valid") /\ Returns(t, call[t])
    /\ UNCHANGED <<port, settings, driver, world, calls>>

FlushOutput(t) ==
    /\ At(t, "begin") /\ Is(t, {"flushOutput"})
    /\ IF is_open THEN Returns(t, call[t]) ELSE Throws(t)
    /\ out' = IF is_open /\ fd = "valid" THEN 0 ELSE out
    /\ UNCHANGED <<port, settings, sent, taken, world, calls>>

-----------------------------------------------------------------------------
(* Opening, closing and settings *)

\* On its way to the line, in reconfigurePort() or just after it.
OnItsWay == {"configure", "flags", "activate", "settle"}
Configuring(t) == call[t] # Nothing /\ call[t].pc \in OnItsWay

\* A thread sets out for the line, or changes what others on their way may have read.
SetsOut(t) ==
    LET others == {u \in Threads \ {t} : Configuring(u)} IN
    /\ company' = IF others = {} THEN company \ {t} ELSE company \cup others \cup {t}
    /\ settled' = (settled /\ others = {})

\* SerialImpl::open(), up to the descriptor.  Another port's line is not as this one's was.
\* (Faulty: the port counts as open before it is.)
OpenItEarly(t) ==
    \/ is_open /\ Throws(t) /\ UNCHANGED <<is_open, fd, tty, company, settled, faults>>
    \/ /\ ~is_open /\ is_open' = TRUE /\ ((gone /\ UNCHANGED faults) \/ Fault)
       /\ fd' = "none" /\ Throws(t)
       /\ UNCHANGED <<tty, company, settled>>
    \/ /\ ~is_open /\ is_open' = TRUE /\ ~gone
       /\ fd' = "valid" /\ tty' \in {tty, Unset} /\ SetsOut(t)
       /\ Becomes(t, [call[t] EXCEPT !.pc = "configure"])
       /\ UNCHANGED faults
OpenIt(t) ==
    \/ is_open /\ Throws(t) /\ UNCHANGED <<is_open, fd, tty, company, settled, faults>>
    \/ /\ ~is_open /\ ((gone /\ UNCHANGED faults) \/ Fault)
       /\ fd' = "none" /\ Throws(t)
       /\ UNCHANGED <<is_open, tty, company, settled>>
    \/ /\ ~is_open /\ ~gone
       /\ fd' = "valid" /\ tty' \in {tty, Unset} /\ SetsOut(t)
       /\ Becomes(t, [call[t] EXCEPT !.pc = "configure"])
       /\ UNCHANGED <<is_open, faults>>

Open(t) ==
    /\ \/ At(t, "begin") /\ Is(t, {"open"})
       \/ At(t, "reopen")
    /\ OpenIt(t)
    /\ UNCHANGED <<timeout, parity, baud, driver, gone, calls>>

\* SerialImpl::close().  The driver forgets its input with the last descriptor.
\* When ::close() fails the port counts as open, and can never be closed again.
CloseIt(t, c, next) ==
    \/ /\ fd = "valid"
       /\ fd' = "none" /\ is_open' = FALSE
       /\ taken' \in {taken, sent}
       /\ IF next = "return" THEN Returns(t, c) ELSE Becomes(t, [c EXCEPT !.pc = next])
       /\ UNCHANGED faults
    \/ fd = "valid" /\ Fault /\ fd' = "stale" /\ Throws(t) /\ UNCHANGED <<is_open, taken>>
    \/ fd = "stale" /\ Throws(t) /\ UNCHANGED <<is_open, fd, taken, faults>>

Close(t) ==
    /\ At(t, "begin") /\ Is(t, {"close", "setPort"})
    /\ \/ is_open /\ CloseIt(t, call[t], IF Is(t, {"close"}) THEN "return" ELSE "reopen")
       \/ ~is_open /\ Returns(t, call[t]) /\ UNCHANGED <<is_open, fd, taken, faults>>
    /\ UNCHANGED <<timeout, settings, sent, out, gone, calls>>

\* setParity() and setBaudrate(), which take no lock: the setting, and then the line if
\* the port counts as open.
\* (Faulty: the line is left as it is.)
SetForLater(t) ==
    /\ At(t, "begin") /\ Is(t, {"setParity", "setBaudrate"})
    /\ \/ Is(t, {"setParity"}) /\ parity' \in Settable /\ UNCHANGED baud
       \/ Is(t, {"setBaudrate"}) /\ baud' \in {"standard", "custom"} /\ UNCHANGED parity
    /\ Returns(t, call[t]) /\ SetsOut(t)
    /\ UNCHANGED <<port, tty, driver, world, calls>>
Set(t) ==
    /\ At(t, "begin") /\ Is(t, {"setParity", "setBaudrate"})
    /\ \/ Is(t, {"setParity"}) /\ parity' \in Settable /\ UNCHANGED baud
       \/ Is(t, {"setBaudrate"}) /\ baud' \in {"standard", "custom"} /\ UNCHANGED parity
    /\ IF is_open THEN Becomes(t, [call[t] EXCEPT !.pc = "configure"]) ELSE Returns(t, call[t])
    /\ SetsOut(t)
    /\ UNCHANGED <<port, tty, driver, world, calls>>

\* reconfigurePort(): what the line is told starts from what it is (tcgetattr(), which
\* throws when it fails) ...
Configure(t) ==
    /\ At(t, "configure")
    /\ \/ /\ fd = "valid" /\ ~gone
          /\ Becomes(t, [call[t] EXCEPT !.options = tty, !.custom = (baud = "custom"),
                                        !.pc = "flags"])
          /\ UNCHANGED <<settled, faults>>
       \/ /\ (fd # "valid" \/ gone) /\ UNCHANGED faults
          /\ Throws(t) /\ settled' = FALSE
       \/ Fault /\ Throws(t) /\ settled' = FALSE
    /\ UNCHANGED <<port, parity, baud, tty, company, driver, gone, calls>>

\* ... gets the flags of the parity, which does not clear all those of the others ...
Parity(old) ==
    CASE parity = "none" -> [old EXCEPT !.parenb = FALSE, !.parodd = FALSE]
      [] parity = "even" -> [old EXCEPT !.parenb = TRUE, !.parodd = FALSE]
      [] parity = "odd" -> [old EXCEPT !.parenb = TRUE, !.parodd = TRUE]
      [] parity = "mark" -> [parenb |-> TRUE, parodd |-> TRUE, cmspar |-> TRUE]
      [] parity = "space" -> [parenb |-> TRUE, parodd |-> FALSE, cmspar |-> TRUE]
Flags(t) ==
    /\ At(t, "flags")
    /\ Becomes(t, [call[t] EXCEPT !.options = Parity(@), !.pc = "activate"])
    /\ UNCHANGED <<port, settings, driver, world, calls>>

\* ... and is given to the line; nobody looks whether tcsetattr() has failed.
Activate(t) ==
    /\ At(t, "activate")
    /\ \/ /\ fd = "valid" /\ ~gone
          /\ tty' = call[t].options /\ settled' = (t \notin company) /\ UNCHANGED faults
       \/ /\ (fd # "valid" \/ gone) /\ UNCHANGED faults
          /\ settled' = FALSE /\ UNCHANGED tty
       \/ Fault /\ settled' = FALSE /\ UNCHANGED tty
    /\ Becomes(t, [call[t] EXCEPT !.pc = "settle"])
    /\ UNCHANGED <<port, parity, baud, company, driver, gone, calls>>

\* A rate that is not standard is set last, and may be refused.  A port that is refused
\* has not been opened, and its descriptor is left behind.
Settle(t) ==
    /\ At(t, "settle")
    /\ \/ /\ call[t].custom /\ Throws(t) /\ UNCHANGED is_open
          /\ (Fault \/ ((fd # "valid" \/ gone) /\ UNCHANGED faults))
       \/ /\ call[t].custom => fd = "valid" /\ ~gone
          /\ is_open' = (is_open \/ Is(t, {"open", "setPort"}))
          /\ Returns(t, call[t]) /\ UNCHANGED faults
    /\ UNCHANGED <<fd, timeout, settings, driver, gone, calls>>

SetTimeout(t) ==
    /\ At(t, "begin") /\ Is(t, {"setTimeout"})
    /\ timeout' \in Timeouts /\ Returns(t, call[t])
    /\ UNCHANGED <<is_open, fd, settings, driver, world, calls>>

-----------------------------------------------------------------------------
(* The line and the clock *)

Arrives ==
    /\ fd = "valid" /\ ~gone /\ sent < Len(Script)
    /\ sent' = sent + 1
    /\ UNCHANGED <<port, settings, lock, call, result, taken, out, world, calls>>

Drain ==
    /\ out > 0 /\ ~gone /\ out' = out - 1
    /\ UNCHANGED <<port, settings, lock, call, result, sent, taken, world, calls>>

Unplugged ==
    /\ ~gone /\ Fault /\ gone' = TRUE
    /\ UNCHANGED <<port, settings, lock, call, result, driver, calls>>

\* Time passes wherever a call looks at its timer next.
Timed(t) == At(t, "loop") \/ At(t, "select") \/ At(t, "put")
Less(n, least) == IF n > least THEN n - 1 ELSE n
Tick ==
    /\ \E t \in Threads : Timed(t)
    /\ call' = [t \in Threads |->
           IF Timed(t)
           THEN [call[t] EXCEPT !.left = Less(@, IF Is(t, Reads) THEN 0 ELSE -1),
                                !.wait = IF @ = Forever THEN @ ELSE Less(@, 0)]
           ELSE call[t]]
    /\ UNCHANGED <<port, settings, lock, result, driver, world, calls>>

Init ==
    /\ is_open = TRUE /\ fd = "valid"
    /\ timeout \in Timeouts
    /\ parity = "none" /\ baud = "standard"
    /\ tty = Unset /\ company = {} /\ settled = TRUE
    /\ lock = [read |-> "free", write |-> "free"]
    /\ call = [t \in Threads |-> Nothing] /\ result = [t \in Threads |-> Nothing]
    /\ sent = 0 /\ taken = 0 /\ out = 0
    /\ gone = FALSE /\ calls \in Plans /\ faults = 0

Reading(t) ==
    \/ ReadBegin(t) \/ ReadLoop(t) \/ ReadSelected(t) \/ Grab(t)
    \/ ReadDone(t) \/ LineDone(t) \/ LinesDone(t) \/ FlushInput(t)
Writing(t) ==
    \/ WriteBegin(t) \/ WriteLoop(t) \/ WriteSelected(t) \/ Put(t)
    \/ Flush(t) \/ FlushOutput(t)
Telling(t) == Configure(t) \/ Flags(t) \/ Activate(t) \/ Settle(t)
Setting(t) == Open(t) \/ Close(t) \/ Set(t) \/ Telling(t) \/ SetTimeout(t)
Step(t) == Lock(t) \/ Reading(t) \/ Writing(t) \/ Setting(t)

Next ==
    \/ \E t \in Threads : Invoke(t) \/ Step(t)
    \/ Arrives \/ Drain \/ Unplugged \/ Tick
Spec == Init /\ [][Next]_vars

\* Threads run, the clock goes on, and the line takes the output: without flow
\* control nothing holds it back.
FairSpec == Spec /\ (\A t \in Threads : WF_vars(Step(t))) /\ WF_vars(Tick) /\ WF_vars(Drain)

-----------------------------------------------------------------------------
(* Properties *)

TypeOK ==
    /\ is_open \in BOOLEAN /\ fd \in {"none", "valid", "stale"}
    /\ timeout \in Timeouts /\ parity \in Parities /\ baud \in {"standard", "custom"}
    /\ tty \in [parenb : BOOLEAN, parodd : BOOLEAN, cmspar : BOOLEAN]
    /\ company \subseteq Threads /\ settled \in BOOLEAN
    /\ lock \in [{"read", "write"} -> Threads \cup {"free"}]
    /\ sent \in Nat /\ taken \in 0..sent /\ out \in 0..OutSize
    /\ is_open => fd # "none"

\* The bytes of one call, of a line and of several lines too, came in without a gap:
\* no other call has taken or discarded any between them.
Contiguous ==
    \A t \in Threads : call[t] # Nothing =>
        \A i \in 2..Len(call[t].got) : call[t].got[i] = call[t].got[i - 1] + 1

\* The lines of readlines() are what was read, cut after each delimiter; readline()
\* stops at the first one.
LinesEndAtEol ==
    \A t \in Threads :
        LET r == result[t] IN
        /\ r.op = "readlines" /\ r.got # <<>> =>
               {r.cuts[i] : i \in DOMAIN r.cuts} =
                   {Len(r.got)} \cup {n \in DOMAIN r.got : EndsWithEol(SubSeq(r.got, 1, n))}
        /\ r.op = "readline" =>
               \A n \in 1..(Len(r.got) - 1) : ~EndsWithEol(SubSeq(r.got, 1, n))

\* A read that returns less than it was asked for has used up its time, however
\* often a signal or the inter-byte timeout has woken it: what the code does.
ShortOnlyInTheEnd ==
    \A t \in Threads :
        LET r == result[t] IN
        r.op = "read" /\ Len(r.got) < r.size => r.left <= 0

\* What the header says of it: a read that has waited for its next byte as long as the
\* inter-byte timeout, in vain, does not go on waiting.
InterByteEnds ==
    [][\A t \in Threads :
           /\ At(t, "loop") /\ Is(t, {"read"}) /\ call[t].got # <<>>
           /\ call[t].wait = 0 /\ timeout.inter # Never /\ Available = 0
           => ~At(t, "select")']_vars

\* An open line has the parity that was set last, as far as the flags for none, even and
\* odd go, whatever else was refused, closed or reopened since; unless the call that told
\* it shared its way with another, or the line would not be asked or told.
LineAsSet ==
    settled /\ is_open /\ fd = "valid" /\ (\A t \in Threads : ~Configuring(t)) =>
        /\ tty.parenb <=> parity # "none"
        /\ tty.parodd <=> parity \in {"odd", "mark"}

\* Every call returns or throws: no two calls wait for each other's lock, and none
\* for a device that is no longer there.
CallsReturn == \A t \in Threads : call[t] # Nothing ~> call[t] = Nothing

=============================================================================
