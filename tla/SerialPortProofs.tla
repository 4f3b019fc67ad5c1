--------------------------- MODULE SerialPortProofs ---------------------------
(***************************************************************************)
(* Any number of threads at a port, calling what they like: a reader has   *)
(* the bytes to itself, a short read has used up its time, and the line is *)
(* as it was set.                                                          *)
(***************************************************************************)
EXTENDS SerialPort, TLAPS, SequenceTheorems

-----------------------------------------------------------------------------
(* The inductive invariant *)

Stages ==
    {"lock", "begin", "loop", "select", "grab", "put", "done", "reopen",
     "configure", "flags", "activate", "settle"}
Lines == [parenb : BOOLEAN, parodd : BOOLEAN, cmspar : BOOLEAN]
Busy == [op : STRING \ {"none"}, size : Nat, pc : Stages, locks : Nat, got : Seq(Nat),
         cuts : Seq(Nat), have : Nat, left : Int, wait : Int, first : BOOLEAN,
         options : Lines, custom : BOOLEAN]
Planned == calls \in [Threads -> Seq(SUBSET Call)]
CallsTyped == call \in [Threads -> Busy \cup {Nothing}] /\ Planned

\* A call past its locking holds its locks, and one on its way those it has taken.
Locking ==
    \A t \in Threads : call[t] # Nothing =>
        /\ call[t].locks <= Len(Locks(call[t].op))
        /\ \A i \in 1..call[t].locks : lock[Locks(call[t].op)[i]] = t
        /\ call[t].pc # "lock" => call[t].locks = Len(Locks(call[t].op))

\* close(), open() and setTimeout() have no company.
AloneInTheirTime ==
    \A t, u \in Threads :
        t # u /\ call[t] # Nothing /\ call[u] # Nothing => call[t].op \notin Alone

\* What a call has read are the last bytes that left the driver.
ReadLast ==
    \A t \in Threads : call[t] # Nothing =>
        /\ call[t].op \notin Reads \/ call[t].pc = "lock" => call[t].got = <<>>
        /\ \A i \in 1..Len(call[t].got) :
               call[t].got[i] = taken - Len(call[t].got) + i

\* Only a read is at the places of a read.
Places ==
    \A t \in Threads : call[t] # Nothing =>
        /\ call[t].pc \in {"grab", "done"} => call[t].op \in Reads
        /\ call[t].pc \in {"put"} => call[t].op = "write"
        /\ call[t].pc \in {"loop", "select"} => call[t].op \in Reads \cup {"write"}
        /\ call[t].pc = "reopen" => call[t].op = "setPort"
        /\ call[t].pc \in OnItsWay => call[t].op \in {"setParity", "setBaudrate", "open", "setPort"}

\* A port is not open before whoever opens it has told the line; it has its descriptor.
Openers == {"open", "setPort"}
Opening ==
    \A t \in Threads : Configuring(t) /\ call[t].op \in Openers => ~is_open /\ fd = "valid"

\* Two on their way have each other's company.
Sharing ==
    \A t, u \in Threads : t # u /\ Configuring(t) /\ Configuring(u) => t \in company

\* The flags of the parity, as far as they are always set and cleared.
Matches(line, p) ==
    /\ line.parenb <=> p # "none"
    /\ line.parodd <=> p \in {"odd", "mark"}

\* Without company, what a thread is about to tell the line is the parity that is set.
OptionsMatch ==
    \A t \in Threads :
        call[t] # Nothing /\ call[t].pc = "activate" /\ t \notin company =>
            Matches(call[t].options, parity)

\* So is what the line has been told, from then on.
Waiting(t) == call[t] # Nothing /\ call[t].pc \in {"configure", "flags", "activate"}
Settling(t) == call[t] # Nothing /\ call[t].pc = "settle"
Told ==
    /\ settled /\ fd = "valid"
    /\ is_open \/ \E t \in Threads : Settling(t)
    /\ \A t \in Threads : ~Waiting(t)
    => Matches(tty, parity)

\* How far read() has got at each place.
Progress ==
    \A t \in Threads : call[t] # Nothing /\ call[t].op = "read" =>
        /\ call[t].pc \in {"lock", "begin"} => call[t].got = <<>>
        /\ call[t].pc \in {"loop", "select", "grab", "done"} => call[t].have = Len(call[t].got)
        /\ call[t].pc = "done" => call[t].have = call[t].size \/ call[t].left <= 0

\* One result for each thread.
ResultKnown == result = [t \in Threads |-> result[t]]

-----------------------------------------------------------------------------
(* What a step does to a call *)

\* It takes a lock, goes on, or ends.
Takes(t) ==
    /\ call[t].pc = "lock" /\ call[t].locks # Len(Locks(call[t].op))
    /\ LET m == Locks(call[t].op)[call[t].locks + 1]
       IN  lock[m] = "free" /\ lock' = [lock EXCEPT ![m] = t]
    /\ call' = [call EXCEPT ![t].locks = call[t].locks + 1]
Goes(t) ==
    /\ \E c \in Busy :
           /\ call' = [call EXCEPT ![t] = c]
           /\ c.op = call[t].op /\ c.size = call[t].size /\ c.locks = call[t].locks
           /\ c.pc # "lock"
    /\ call[t].pc = "lock" => call[t].locks = Len(Locks(call[t].op))
    /\ lock' = lock
Leaves(t) ==
    /\ call[t].pc # "lock"
    /\ call' = [call EXCEPT ![t] = Nothing]
    /\ lock' = [m \in DOMAIN lock |-> IF lock[m] = t THEN "free" ELSE lock[m]]

-----------------------------------------------------------------------------
(* Lemmas *)

LEMMA LocksOf ==
    ASSUME NEW op
    PROVE  /\ Len(Locks(op)) \in Nat
           /\ \A i \in 1..Len(Locks(op)) : Locks(op)[i] \in {"read", "write"}
           /\ \A i, j \in 1..Len(Locks(op)) : Locks(op)[i] = Locks(op)[j] => i = j
           /\ op \in Reads \cup {"flushInput", "setPort"} =>
                  Len(Locks(op)) >= 1 /\ Locks(op)[1] = "read"
  BY DEF Locks, Reads

\* The bytes that Got adds.
LEMMA GotAdds ==
    ASSUME NEW c \in Busy, NEW k \in Nat, taken \in Nat
    PROVE  /\ Got(c, k) \in Busy
           /\ Got(c, k).op = c.op /\ Got(c, k).size = c.size /\ Got(c, k).pc = c.pc
           /\ Got(c, k).locks = c.locks /\ Got(c, k).left = c.left /\ Got(c, k).cuts = c.cuts
           /\ Got(c, k).have = c.have + k
           /\ Len(Got(c, k).got) = Len(c.got) + k
           /\ \A i \in 1..Len(c.got) : Got(c, k).got[i] = c.got[i]
           /\ \A i \in 1..k : Got(c, k).got[Len(c.got) + i] = taken + i
<1> DEFINE new == [i \in 1..k |-> taken + i]
<1>1. new \in Seq(Nat) /\ Len(new) = k
  <2>1. new \in [1..k -> Nat]
    OBVIOUS
  <2>2. new \in Seq(Nat)
    BY <2>1, SeqDef
  <2>3. DOMAIN new = 1..Len(new) /\ Len(new) \in Nat
    BY <2>2, LenProperties
  <2> QED
    BY <2>2, <2>3
<1>2. c.got \in Seq(Nat)
  BY DEF Busy, Stages
<1>3. /\ c.got \o new \in Seq(Nat)
      /\ Len(c.got \o new) = Len(c.got) + k
      /\ \A i \in 1..(Len(c.got) + k) :
            (c.got \o new)[i] = IF i <= Len(c.got) THEN c.got[i] ELSE new[i - Len(c.got)]
  BY <1>1, <1>2, ConcatProperties
<1>4. Got(c, k).got = c.got \o new /\ Got(c, k).have = c.have + k
  BY DEF Got, Busy, Stages
<1>5. /\ Got(c, k) \in Busy
      /\ Got(c, k).op = c.op /\ Got(c, k).size = c.size /\ Got(c, k).pc = c.pc
      /\ Got(c, k).locks = c.locks /\ Got(c, k).left = c.left /\ Got(c, k).cuts = c.cuts
      /\ Got(c, k).have = c.have + k
  <2> DEFINE both == c.got \o new
  <2>1. Got(c, k) = [c EXCEPT !.got = both, !.have = c.have + k]
    BY DEF Got, Busy, Stages
  <2>2. both \in Seq(Nat)
    BY <1>3
  <2> HIDE DEF both
  <2>3. c.have + k \in Nat
    BY DEF Busy, Stages
  <2>4. [c EXCEPT !.got = both, !.have = c.have + k] \in Busy
    BY <2>2, <2>3 DEF Busy, Stages
  <2> QED
    BY <2>1, <2>4 DEF Busy
<1>6. Len(c.got) \in Nat
  BY <1>2
<1>7. \A i \in 1..k : Got(c, k).got[Len(c.got) + i] = taken + i
  <2> SUFFICES ASSUME NEW i \in 1..k PROVE Got(c, k).got[Len(c.got) + i] = taken + i
    OBVIOUS
  <2>1. Len(c.got) + i \in 1..(Len(c.got) + k) /\ ~(Len(c.got) + i <= Len(c.got))
    BY <1>6
  <2>2. (c.got \o new)[Len(c.got) + i] = new[(Len(c.got) + i) - Len(c.got)]
    BY <1>3, <2>1
  <2>3. (Len(c.got) + i) - Len(c.got) = i
    BY <1>6
  <2> QED
    BY <1>4, <2>2, <2>3
<1>8. \A i \in 1..Len(c.got) : Got(c, k).got[i] = c.got[i]
  BY <1>3, <1>4, <1>6
<1> HIDE DEF new
<1> QED
  BY <1>3, <1>4, <1>5, <1>7, <1>8

\* A call that goes on, with a record of its own type.
LEMMA BecomesGoes ==
    ASSUME NEW t \in Threads, CallsTyped, call[t] # Nothing, call[t].pc # "lock",
           NEW c \in Busy, c.op = call[t].op, c.size = call[t].size,
           c.locks = call[t].locks, c.pc # "lock", Becomes(t, c)
    PROVE  Goes(t)
  BY DEF Becomes, Goes

LEMMA EndsLeaves ==
    ASSUME NEW t \in Threads, call[t].pc # "lock", NEW c, NEW threw, Ends(t, c, threw)
    PROVE  Leaves(t)
  BY DEF Ends, Leaves

\* On the way to the line a call's bytes and locks stay what they are.
Alike(c, b) ==
    /\ c.op = b.op /\ c.size = b.size /\ c.locks = b.locks /\ c.got = b.got
    /\ c.pc \in OnItsWay
LEMMA TellingShape ==
    ASSUME NEW t \in Threads, CallsTyped, TypeOK, Telling(t)
    PROVE  /\ Configuring(t)
           /\ \/ \E c \in Busy : Becomes(t, c) /\ Alike(c, call[t])
              \/ Throws(t)
              \/ Returns(t, call[t])
<1> DEFINE b == call[t]
<1>1. Configuring(t) /\ b \in Busy
  <2>1. b # Nothing /\ b.pc \in OnItsWay
    BY DEF Telling, Configure, Flags, Activate, Settle, At, OnItsWay
  <2> QED
    BY <2>1 DEF CallsTyped, Configuring
<1>2. tty \in Lines /\ b.options \in Lines
  BY <1>1 DEF TypeOK, Lines, Busy
<1>3. Parity(b.options) \in Lines
  BY <1>2 DEF TypeOK, Parity, Parities, Lines
<1>4. ASSUME Configure(t)
      PROVE  Throws(t) \/ \E c \in Busy : Becomes(t, c) /\ Alike(c, b)
  <2> DEFINE z == (baud = "custom")
             c == [b EXCEPT !.options = tty, !.custom = z, !.pc = "flags"]
  <2>1. z \in BOOLEAN
    OBVIOUS
  <2>2. Throws(t) \/ Becomes(t, c)
    BY <1>4 DEF Configure
  <2> HIDE DEF z
  <2>3. c \in Busy /\ Alike(c, b)
    BY <1>1, <1>2, <2>1 DEF Busy, Stages, Alike, OnItsWay
  <2> QED
    BY <2>2, <2>3
<1>5. ASSUME Flags(t) PROVE \E c \in Busy : Becomes(t, c) /\ Alike(c, b)
  <2> DEFINE n == Parity(b.options)
             c == [b EXCEPT !.options = n, !.pc = "activate"]
  <2>1. Becomes(t, c)
    BY <1>5 DEF Flags
  <2> HIDE DEF n
  <2>2. n \in Lines
    BY <1>3 DEF n
  <2>3. c \in Busy /\ Alike(c, b)
    BY <1>1, <2>2 DEF Busy, Stages, Alike, OnItsWay
  <2> QED
    BY <2>1, <2>3
<1>6. ASSUME Activate(t) PROVE \E c \in Busy : Becomes(t, c) /\ Alike(c, b)
  <2>1. Becomes(t, [b EXCEPT !.pc = "settle"])
    BY <1>6 DEF Activate
  <2>2. [b EXCEPT !.pc = "settle"] \in Busy /\ Alike([b EXCEPT !.pc = "settle"], b)
    BY <1>1 DEF Busy, Stages, Alike, OnItsWay
  <2> QED
    BY <2>1, <2>2
<1>7. ASSUME Settle(t) PROVE Throws(t) \/ Returns(t, b)
  BY <1>7 DEF Settle
<1> QED
  BY <1>1, <1>4, <1>5, <1>6, <1>7 DEF Telling

\* Every step takes a lock, goes on or ends.
LEMMA StepKinds ==
    ASSUME NEW t \in Threads, CallsTyped, TypeOK, Step(t)
    PROVE  call[t] \in Busy /\ (Takes(t) \/ Goes(t) \/ Leaves(t))
<1>1. call[t] # Nothing
  BY DEF Step, Lock, Reading, Writing, Setting, ReadBegin, ReadLoop, ReadSelected, Grab,
         ReadDone, LineDone, LinesDone, FlushInput, WriteBegin, WriteLoop, WriteSelected, Put,
         Flush, FlushOutput, Open, Close, Set, Telling, Configure, Flags, Activate, Settle,
         SetTimeout, At
<1>2. call[t] \in Busy
  BY <1>1 DEF CallsTyped
<1> DEFINE b == call[t]
<1>3. /\ b.have \in Nat /\ b.got \in Seq(Nat) /\ b.cuts \in Seq(Nat)
      /\ b.left \in Int /\ b.size \in Nat /\ b.op \in STRING /\ b.locks \in Nat
  BY <1>2 DEF Busy, Stages
<1>0. /\ timeout.read \in Nat /\ timeout.write \in Nat
      /\ timeout.read \in Int /\ timeout.write \in Int
      /\ 0 \in Nat /\ 0 \in Int /\ Never \in Int
  BY TimeoutsAssumption DEF TypeOK, Never
<1>4. Lock(t) => Takes(t) \/ Goes(t)
  <2> SUFFICES ASSUME Lock(t) PROVE Takes(t) \/ Goes(t)
    OBVIOUS
  <2>1. CASE b.locks = Len(Locks(b.op))
    <3>1. [b EXCEPT !.pc = "begin"] \in Busy
      BY <1>2 DEF Busy, Stages
    <3> QED
      BY <1>2, <2>1, <3>1 DEF Lock, At, Becomes, Goes, Busy, Stages
  <2>2. CASE b.locks # Len(Locks(b.op))
    BY <2>2 DEF Lock, At, Takes
  <2> QED
    BY <2>1, <2>2
<1>5. ReadBegin(t) => Goes(t) \/ Leaves(t)
  <2> SUFFICES ASSUME ReadBegin(t) PROVE Goes(t) \/ Leaves(t)
    OBVIOUS
  <2> DEFINE k == Smaller(Available, Asked(b))
             c == [b EXCEPT !.left = timeout.read, !.have = 0, !.wait = Never, !.pc = "loop"]
  <2>1. k \in Nat /\ taken \in Nat
    BY <1>3 DEF Smaller, Available, Asked, TypeOK
  <2>2. c \in Busy /\ c.op = b.op /\ c.size = b.size /\ c.locks = b.locks /\ c.pc = "loop"
    BY <1>0, <1>2 DEF Busy, Stages
  <2> HIDE DEF k, c
  <2>3. /\ Got(c, k) \in Busy /\ Got(c, k).op = b.op /\ Got(c, k).size = b.size
        /\ Got(c, k).locks = b.locks /\ Got(c, k).pc = "loop"
    <3>1. /\ Got(c, k) \in Busy /\ Got(c, k).op = c.op /\ Got(c, k).size = c.size
          /\ Got(c, k).locks = c.locks /\ Got(c, k).pc = c.pc
      BY <2>1, <2>2, GotAdds
    <3> QED
      BY <2>2, <3>1
  <2>4. Throws(t) \/ Becomes(t, Got(c, k))
    BY DEF ReadBegin, k, c
  <2> QED
    BY <1>1, <2>3, <2>4, BecomesGoes, EndsLeaves DEF ReadBegin, At, Throws
<1>6. ReadLoop(t) => Goes(t)
  <2> SUFFICES ASSUME ReadLoop(t) PROVE Goes(t)
    OBVIOUS
  <2> DEFINE w == IF timeout.inter = Never THEN b.left ELSE Smaller(b.left, timeout.inter)
             c == [b EXCEPT !.pc = "select", !.wait = w]
             d == [b EXCEPT !.pc = "done"]
  <2>1. w \in Int
    BY <1>3, TimeoutsAssumption DEF Smaller, TypeOK, Never
  <2>2. /\ c \in Busy /\ c.op = b.op /\ c.size = b.size /\ c.locks = b.locks /\ c.pc = "select"
        /\ d \in Busy /\ d.op = b.op /\ d.size = b.size /\ d.locks = b.locks /\ d.pc = "done"
    BY <1>2, <2>1 DEF Busy, Stages
  <2>3. Becomes(t, c) \/ Becomes(t, d)
    BY DEF ReadLoop
  <2> HIDE DEF c, d
  <2> QED
    BY <1>1, <2>2, <2>3, BecomesGoes DEF ReadLoop, At
<1>7. ReadSelected(t) => Goes(t) \/ Leaves(t)
  <2> SUFFICES ASSUME ReadSelected(t) PROVE Goes(t) \/ Leaves(t)
    OBVIOUS
  <2> DEFINE c == [b EXCEPT !.pc = "grab", !.wait = Never]
             d == [b EXCEPT !.pc = "loop"]
  <2>1. /\ c \in Busy /\ c.op = b.op /\ c.size = b.size /\ c.locks = b.locks /\ c.pc = "grab"
        /\ d \in Busy /\ d.op = b.op /\ d.size = b.size /\ d.locks = b.locks /\ d.pc = "loop"
    BY <1>0, <1>2 DEF Busy, Stages
  <2>2. Becomes(t, c) \/ Becomes(t, d) \/ Throws(t)
    BY DEF ReadSelected
  <2> HIDE DEF c, d
  <2> QED
    BY <1>1, <2>1, <2>2, BecomesGoes, EndsLeaves DEF ReadSelected, At, Throws
<1>8. Grab(t) => Goes(t) \/ Leaves(t)
  <2> SUFFICES ASSUME Grab(t) PROVE Goes(t) \/ Leaves(t)
    OBVIOUS
  <2> DEFINE k == Smaller(Available, Asked(b) - b.have)
             c == [b EXCEPT !.pc = "loop"]
  <2>1. k \in Int /\ taken \in Nat
    BY <1>3 DEF Smaller, Available, Asked, TypeOK
  <2>2. c \in Busy /\ c.op = b.op /\ c.size = b.size /\ c.locks = b.locks /\ c.pc = "loop"
    BY <1>2 DEF Busy, Stages
  <2> HIDE DEF k, c
  <2>3. k > 0 =>
        /\ Got(c, k) \in Busy /\ Got(c, k).op = b.op /\ Got(c, k).size = b.size
        /\ Got(c, k).locks = b.locks /\ Got(c, k).pc = "loop"
    <3>1. k > 0 => /\ Got(c, k) \in Busy /\ Got(c, k).op = c.op /\ Got(c, k).size = c.size
                   /\ Got(c, k).locks = c.locks /\ Got(c, k).pc = c.pc
      BY <2>1, <2>2, GotAdds
    <3> QED
      BY <2>2, <3>1
  <2>4. Throws(t) \/ (k > 0 /\ Becomes(t, Got(c, k)))
    BY DEF Grab, k, c
  <2> QED
    BY <1>1, <2>3, <2>4, BecomesGoes, EndsLeaves DEF Grab, At, Throws
<1>9. ReadDone(t) \/ FlushInput(t) \/ Flush(t) \/ FlushOutput(t) \/ SetTimeout(t) => Leaves(t)
  BY EndsLeaves DEF ReadDone, FlushInput, Flush, FlushOutput, SetTimeout, Returns, Throws, At
<1>10. LineDone(t) => Goes(t) \/ Leaves(t)
  <2> SUFFICES ASSUME LineDone(t) PROVE Goes(t) \/ Leaves(t)
    OBVIOUS
  <2> DEFINE c == [b EXCEPT !.pc = "begin"]
  <2>1. c \in Busy /\ c.op = b.op /\ c.size = b.size /\ c.locks = b.locks /\ c.pc = "begin"
    BY <1>2 DEF Busy, Stages
  <2>2. Becomes(t, c) \/ Returns(t, b)
    BY DEF LineDone
  <2> HIDE DEF c
  <2> QED
    BY <1>1, <2>1, <2>2, BecomesGoes, EndsLeaves DEF LineDone, At, Returns
<1>11. LinesDone(t) => Goes(t) \/ Leaves(t)
  <2> SUFFICES ASSUME LinesDone(t) PROVE Goes(t) \/ Leaves(t)
    OBVIOUS
  <2> DEFINE q == Cut(b).cuts
             c == [Cut(b) EXCEPT !.pc = "begin"]
  <2>1. q \in Seq(Nat) /\ Cut(b) = [b EXCEPT !.cuts = q]
    BY <1>2, <1>3 DEF Cut, Busy, Stages
  <2> HIDE DEF q
  <2>2. c \in Busy /\ c.op = b.op /\ c.size = b.size /\ c.locks = b.locks /\ c.pc = "begin"
    BY <1>2, <2>1 DEF Busy, Stages
  <2>3. Becomes(t, c) \/ Returns(t, Cut(b))
    BY DEF LinesDone
  <2> HIDE DEF c
  <2> QED
    BY <1>1, <2>2, <2>3, BecomesGoes, EndsLeaves DEF LinesDone, At, Returns
<1>12. WriteBegin(t) => Goes(t) \/ Leaves(t)
  <2> SUFFICES ASSUME WriteBegin(t) PROVE Goes(t) \/ Leaves(t)
    OBVIOUS
  <2> DEFINE c == [b EXCEPT !.left = timeout.write, !.pc = "loop"]
  <2>1. c \in Busy /\ c.op = b.op /\ c.size = b.size /\ c.locks = b.locks /\ c.pc = "loop"
    BY <1>0, <1>2 DEF Busy, Stages
  <2>2. Becomes(t, c) \/ Throws(t)
    BY DEF WriteBegin
  <2> HIDE DEF c
  <2> QED
    BY <1>1, <2>1, <2>2, BecomesGoes, EndsLeaves DEF WriteBegin, At, Throws
<1>13. WriteLoop(t) => Goes(t) \/ Leaves(t)
  <2> SUFFICES ASSUME WriteLoop(t) PROVE Goes(t) \/ Leaves(t)
    OBVIOUS
  <2> DEFINE c == [b EXCEPT !.pc = "select", !.first = FALSE, !.wait = Unsigned32(b.left)]
  <2>1. Unsigned32(b.left) \in Int
    BY <1>3 DEF Unsigned32, Forever
  <2>2. c \in Busy /\ c.op = b.op /\ c.size = b.size /\ c.locks = b.locks /\ c.pc = "select"
    BY <1>2, <2>1 DEF Busy, Stages
  <2>3. Becomes(t, c) \/ Returns(t, b)
    BY DEF WriteLoop
  <2> HIDE DEF c
  <2> QED
    BY <1>1, <2>2, <2>3, BecomesGoes, EndsLeaves DEF WriteLoop, At, Returns
<1>14. WriteSelected(t) => Goes(t) \/ Leaves(t)
  <2> SUFFICES ASSUME WriteSelected(t) PROVE Goes(t) \/ Leaves(t)
    OBVIOUS
  <2> DEFINE c == [b EXCEPT !.pc = "put", !.wait = 0]
             d == [b EXCEPT !.pc = "loop", !.wait = 0]
  <2>1. /\ c \in Busy /\ c.op = b.op /\ c.size = b.size /\ c.locks = b.locks /\ c.pc = "put"
        /\ d \in Busy /\ d.op = b.op /\ d.size = b.size /\ d.locks = b.locks /\ d.pc = "loop"
    BY <1>0, <1>2 DEF Busy, Stages
  <2>2. Becomes(t, c) \/ Becomes(t, d) \/ Throws(t) \/ Returns(t, b)
    BY DEF WriteSelected
  <2> HIDE DEF c, d
  <2> QED
    BY <1>1, <2>1, <2>2, BecomesGoes, EndsLeaves DEF WriteSelected, At, Throws, Returns
<1>15. Put(t) => Goes(t) \/ Leaves(t)
  <2> SUFFICES ASSUME Put(t) PROVE Goes(t) \/ Leaves(t)
    OBVIOUS
  <2>1. CASE Throws(t)
    BY <2>1, EndsLeaves DEF Put, At, Throws
  <2>2. CASE \E k \in 1..Smaller(b.size - b.have, OutSize - out) :
                 Becomes(t, [b EXCEPT !.have = @ + k, !.pc = "loop"])
    <3>1. PICK k \in 1..Smaller(b.size - b.have, OutSize - out) :
                 Becomes(t, [b EXCEPT !.have = @ + k, !.pc = "loop"])
      BY <2>2
    <3> DEFINE c == [b EXCEPT !.have = @ + k, !.pc = "loop"]
    <3>2. b.have + k \in Nat
      BY <1>3
    <3>3. c \in Busy /\ c.op = b.op /\ c.size = b.size /\ c.locks = b.locks /\ c.pc = "loop"
      BY <1>2, <3>2 DEF Busy, Stages
    <3> HIDE DEF c
    <3>4. Becomes(t, c)
      BY <3>1 DEF c
    <3> QED
      BY <1>1, <3>3, <3>4, BecomesGoes DEF Put, At
  <2>3. CASE Becomes(t, [b EXCEPT !.pc = "loop"])
    <3> DEFINE c == [b EXCEPT !.pc = "loop"]
    <3>1. c \in Busy /\ c.op = b.op /\ c.size = b.size /\ c.locks = b.locks /\ c.pc = "loop"
      BY <1>2 DEF Busy, Stages
    <3> HIDE DEF c
    <3>2. Becomes(t, c)
      BY <2>3 DEF c
    <3> QED
      BY <1>1, <3>1, <3>2, BecomesGoes DEF Put, At
  <2> QED
    BY <2>1, <2>2, <2>3 DEF Put
<1>16. Open(t) => Goes(t) \/ Leaves(t)
  <2> SUFFICES ASSUME Open(t) PROVE Goes(t) \/ Leaves(t)
    OBVIOUS
  <2> DEFINE c == [b EXCEPT !.pc = "configure"]
  <2>1. c \in Busy /\ c.op = b.op /\ c.size = b.size /\ c.locks = b.locks /\ c.pc = "configure"
    BY <1>2 DEF Busy, Stages
  <2>2. Becomes(t, c) \/ Throws(t)
    BY DEF Open, OpenIt
  <2> HIDE DEF c
  <2> QED
    BY <1>1, <2>1, <2>2, BecomesGoes, EndsLeaves DEF Open, At, Throws
<1>17. Close(t) => Goes(t) \/ Leaves(t)
  <2> SUFFICES ASSUME Close(t) PROVE Goes(t) \/ Leaves(t)
    OBVIOUS
  <2> DEFINE c == [b EXCEPT !.pc = "reopen"]
  <2>1. c \in Busy /\ c.op = b.op /\ c.size = b.size /\ c.locks = b.locks /\ c.pc = "reopen"
    BY <1>2 DEF Busy, Stages
  <2>2. Becomes(t, c) \/ Returns(t, b) \/ Throws(t)
    BY DEF Close, CloseIt
  <2> HIDE DEF c
  <2> QED
    BY <1>1, <2>1, <2>2, BecomesGoes, EndsLeaves DEF Close, At, Returns, Throws
<1>18. Set(t) => Goes(t) \/ Leaves(t)
  <2> SUFFICES ASSUME Set(t) PROVE Goes(t) \/ Leaves(t)
    OBVIOUS
  <2> DEFINE c == [b EXCEPT !.pc = "configure"]
  <2>1. c \in Busy /\ c.op = b.op /\ c.size = b.size /\ c.locks = b.locks /\ c.pc = "configure"
    BY <1>2 DEF Busy, Stages
  <2>2. Becomes(t, c) \/ Returns(t, b)
    BY DEF Set
  <2> HIDE DEF c
  <2> QED
    BY <1>1, <2>1, <2>2, BecomesGoes, EndsLeaves DEF Set, At, Returns
<1>19. Telling(t) => Goes(t) \/ Leaves(t)
  <2> SUFFICES ASSUME Telling(t) PROVE Goes(t) \/ Leaves(t)
    OBVIOUS
  <2>1. b.pc # "lock"
    BY DEF Telling, Configure, Flags, Activate, Settle, At
  <2>2. (\E c \in Busy : Becomes(t, c) /\ Alike(c, b)) \/ Throws(t) \/ Returns(t, b)
    BY TellingShape
  <2> QED
    BY <1>1, <2>1, <2>2, BecomesGoes, EndsLeaves DEF Alike, Throws, Returns, OnItsWay
<1> QED
  BY <1>2, <1>4, <1>5, <1>6, <1>7, <1>8, <1>9, <1>10, <1>11, <1>12, <1>13, <1>14, <1>15,
     <1>16, <1>17, <1>18, <1>19 DEF Step, Reading, Writing, Setting

\* A call begins with a record of its own type, and leaves the rest alone.
LEMMA InvokeShape ==
    ASSUME NEW t \in Threads, CallsTyped, Invoke(t)
    PROVE  /\ call[t] = Nothing
           /\ \E c \in Busy :
                  /\ call' = [call EXCEPT ![t] = c]
                  /\ c.pc = "lock" /\ c.locks = 0 /\ c.got = <<>> /\ c.cuts = <<>>
                  /\ \A u \in Threads \ {t} :
                         call[u] # Nothing => c.op \notin Alone /\ call[u].op \notin Alone
<1>0. calls[t] \in Seq(SUBSET Call) /\ calls[t] # <<>>
  BY DEF Invoke, CallsTyped, Planned
<1>1. PICK c \in Head(calls[t]) :
          /\ \A u \in Threads \ {t} :
                 call[u] # Nothing => c.op \notin Alone /\ call[u].op \notin Alone
          /\ call' = [call EXCEPT ![t] =
                 [op |-> c.op, size |-> c.size, pc |-> "lock", locks |-> 0, got |-> <<>>,
                  cuts |-> <<>>, have |-> 0, left |-> 0, wait |-> 0, first |-> TRUE,
                  options |-> Unset, custom |-> FALSE]]
  BY DEF Invoke
<1> DEFINE d == [op |-> c.op, size |-> c.size, pc |-> "lock", locks |-> 0, got |-> <<>>,
                 cuts |-> <<>>, have |-> 0, left |-> 0, wait |-> 0, first |-> TRUE,
                 options |-> Unset, custom |-> FALSE]
<1>2. c.op \in STRING \ {"none"} /\ c.size \in Nat
  <2>1. Head(calls[t]) \in SUBSET Call
    BY <1>0, HeadTailProperties
  <2> QED
    BY <2>1 DEF Call
<1>3. <<>> \in Seq(Nat) /\ 0 \in Nat /\ 0 \in Int /\ Unset \in Lines
  BY DEF Unset, Lines
<1>4. /\ d \in Busy /\ d.pc = "lock" /\ d.locks = 0 /\ d.op = c.op
      /\ d.got = <<>> /\ d.cuts = <<>>
  BY <1>2, <1>3 DEF Busy, Stages
<1>5. call' = [call EXCEPT ![t] = d]
  BY <1>1
<1> HIDE DEF d
<1> QED
  BY <1>1, <1>4, <1>5 DEF Invoke

\* The clock touches only what is left of a call's time.
LEMMA TickShape ==
    ASSUME CallsTyped, Tick
    PROVE  /\ call' \in [Threads -> Busy \cup {Nothing}]
           /\ \A u \in Threads : call[u] = Nothing => call'[u] = Nothing
           /\ \A u \in Threads : call[u] # Nothing =>
                  /\ call'[u] # Nothing
                  /\ call'[u].op = call[u].op /\ call'[u].size = call[u].size
                  /\ call'[u].pc = call[u].pc /\ call'[u].locks = call[u].locks
                  /\ call'[u].got = call[u].got /\ call'[u].have = call[u].have
                  /\ call'[u].cuts = call[u].cuts /\ call'[u].options = call[u].options
           /\ \A u \in Threads : call[u] # Nothing /\ call[u].pc = "done" => call'[u] = call[u]
<1> DEFINE later(u) == [call[u] EXCEPT !.left = Less(@, IF Is(u, Reads) THEN 0 ELSE -1),
                                       !.wait = IF @ = Forever THEN @ ELSE Less(@, 0)]
<1>1. call' = [u \in Threads |-> IF Timed(u) THEN later(u) ELSE call[u]]
  BY DEF Tick
<1>2. ASSUME NEW u \in Threads, Timed(u)
      PROVE  /\ later(u) \in Busy
             /\ later(u).op = call[u].op /\ later(u).size = call[u].size
             /\ later(u).pc = call[u].pc /\ later(u).locks = call[u].locks
             /\ later(u).got = call[u].got /\ later(u).have = call[u].have
             /\ later(u).cuts = call[u].cuts /\ later(u).options = call[u].options
  <2>1. call[u] \in Busy
    BY <1>2 DEF Timed, At, CallsTyped
  <2>2. /\ Less(call[u].left, IF Is(u, Reads) THEN 0 ELSE -1) \in Int
        /\ (IF call[u].wait = Forever THEN call[u].wait ELSE Less(call[u].wait, 0)) \in Int
    BY <2>1 DEF Less, Busy
  <2> QED
    BY <2>1, <2>2 DEF Busy
<1>3. \A b \in Busy : b # Nothing
  BY DEF Busy, Nothing
<1> HIDE DEF later
<1>4. ASSUME NEW u \in Threads
      PROVE  call'[u] = IF Timed(u) THEN later(u) ELSE call[u]
  BY <1>1
<1>5. call' \in [Threads -> Busy \cup {Nothing}]
  BY <1>1, <1>2 DEF CallsTyped
<1> QED
  BY <1>2, <1>3, <1>4, <1>5 DEF Timed, At

-----------------------------------------------------------------------------
(* What every step preserves *)

LEMMA NotNothing == \A b \in Busy : b # Nothing
  BY DEF Busy, Nothing

\* The steps of Next, as the lemmas below tell them apart.
LEMMA Steps ==
    ASSUME [Next]_vars
    PROVE  \/ \E t \in Threads : Invoke(t)
           \/ \E t \in Threads : Step(t)
           \/ Tick
           \/ call' = call /\ lock' = lock /\ taken' = taken
  BY DEF Next, vars, Arrives, Drain, Unplugged, port, settings, driver, world

\* A call is one of those its thread has yet to make.
LEMMA PlannedKept ==
    ASSUME Planned, [Next]_vars
    PROVE  Planned'
<1>1. ASSUME NEW t \in Threads, Invoke(t) PROVE Planned'
  <2>1. calls[t] \in Seq(SUBSET Call) /\ calls[t] # <<>>
    BY <1>1 DEF Invoke, Planned
  <2>2. Tail(calls[t]) \in Seq(SUBSET Call)
    BY <2>1, HeadTailProperties
  <2>3. calls' = [calls EXCEPT ![t] = Tail(calls[t])]
    BY <1>1 DEF Invoke
  <2> QED
    BY <2>2, <2>3 DEF Planned
<1>2. ASSUME NEW t \in Threads, Step(t) PROVE calls' = calls
  <2>1. CASE Lock(t)
    BY <2>1 DEF Lock
  <2>2. CASE Reading(t)
    BY <2>2 DEF Reading, ReadBegin, ReadLoop, ReadSelected, Grab, ReadDone, LineDone, LinesDone,
                FlushInput
  <2>3. CASE Writing(t)
    BY <2>3 DEF Writing, WriteBegin, WriteLoop, WriteSelected, Put, Flush, FlushOutput
  <2>4. CASE Setting(t)
    BY <2>4 DEF Setting, Open, OpenIt, Close, Set, Telling, Configure, Flags, Activate, Settle,
                SetTimeout
  <2> QED
    BY <1>2, <2>1, <2>2, <2>3, <2>4 DEF Step
<1>3. CASE Arrives \/ Drain \/ Unplugged
  BY <1>3 DEF Arrives, Drain, Unplugged, Planned
<1>4. CASE Tick
  BY <1>4 DEF Tick, Planned
<1>5. CASE UNCHANGED vars
  BY <1>5 DEF vars, Planned
<1> QED
  BY <1>1, <1>2, <1>3, <1>4, <1>5 DEF Next, Planned

LEMMA CallsTypedKept ==
    ASSUME TypeOK, CallsTyped, [Next]_vars
    PROVE  CallsTyped'
<1> SUFFICES call' \in [Threads -> Busy \cup {Nothing}]
  BY PlannedKept DEF CallsTyped
<1>1. ASSUME NEW t \in Threads, Invoke(t) PROVE call' \in [Threads -> Busy \cup {Nothing}]
  <2>1. PICK c \in Busy : call' = [call EXCEPT ![t] = c]
    BY <1>1, InvokeShape
  <2> QED
    BY <2>1 DEF CallsTyped
<1>2. ASSUME NEW t \in Threads, Step(t) PROVE call' \in [Threads -> Busy \cup {Nothing}]
  <2>1. call[t] \in Busy /\ (Takes(t) \/ Goes(t) \/ Leaves(t))
    BY <1>2, StepKinds
  <2>2. CASE Takes(t)
    <3> DEFINE n == call[t].locks + 1
    <3>0. n \in Nat
      BY <2>1 DEF Busy
    <3> HIDE DEF n
    <3>1. [call[t] EXCEPT !.locks = n] \in Busy
      BY <2>1, <3>0 DEF Busy
    <3>2. call' = [call EXCEPT ![t] = [call[t] EXCEPT !.locks = n]]
      BY <2>2 DEF Takes, n
    <3> QED
      BY <3>1, <3>2 DEF CallsTyped
  <2>3. CASE Goes(t)
    BY <2>3 DEF Goes, CallsTyped
  <2>4. CASE Leaves(t)
    BY <2>4 DEF Leaves, CallsTyped
  <2> QED
    BY <2>1, <2>2, <2>3, <2>4
<1>3. CASE Tick
  BY <1>3, TickShape DEF CallsTyped
<1>4. CASE call' = call
  BY <1>4 DEF CallsTyped
<1> QED
  BY <1>1, <1>2, <1>3, <1>4, Steps

LEMMA AloneKept ==
    ASSUME TypeOK, CallsTyped, AloneInTheirTime, [Next]_vars
    PROVE  AloneInTheirTime'
<1>1. ASSUME NEW t \in Threads, Invoke(t) PROVE AloneInTheirTime'
  <2>1. PICK c \in Busy :
            /\ call' = [call EXCEPT ![t] = c]
            /\ \A u \in Threads \ {t} :
                   call[u] # Nothing => c.op \notin Alone /\ call[u].op \notin Alone
    BY <1>1, InvokeShape
  <2> QED
    BY <2>1 DEF CallsTyped, AloneInTheirTime
<1>2. ASSUME NEW t \in Threads, Step(t) PROVE AloneInTheirTime'
  <2>1. call[t] \in Busy /\ call[t] # Nothing /\ (Takes(t) \/ Goes(t) \/ Leaves(t))
    BY <1>2, StepKinds, NotNothing
  <2>2. \A u \in Threads \ {t} : call'[u] = call[u]
    BY <2>1 DEF Takes, Goes, Leaves, CallsTyped
  <2>3. call'[t] # Nothing => call'[t].op = call[t].op
    BY <2>1 DEF Takes, Goes, Leaves, CallsTyped, Busy
  <2> QED
    BY <2>1, <2>2, <2>3 DEF AloneInTheirTime
<1>3. CASE Tick
  BY <1>3, TickShape DEF AloneInTheirTime
<1>4. CASE call' = call
  BY <1>4 DEF AloneInTheirTime
<1> QED
  BY <1>1, <1>2, <1>3, <1>4, Steps

LEMMA LockingKept ==
    ASSUME TypeOK, CallsTyped, Locking, [Next]_vars
    PROVE  Locking' /\ lock' \in [{"read", "write"} -> Threads \cup {"free"}]
<1>1. ASSUME NEW t \in Threads, Invoke(t) PROVE Locking' /\ lock' = lock
  <2>1. PICK c \in Busy : call' = [call EXCEPT ![t] = c] /\ c.pc = "lock" /\ c.locks = 0
    BY <1>1, InvokeShape
  <2>2. lock' = lock
    BY <1>1 DEF Invoke
  <2> QED
    BY <2>1, <2>2, LocksOf DEF CallsTyped, Locking
<1>2. ASSUME NEW t \in Threads, Step(t)
      PROVE  Locking' /\ lock' \in [{"read", "write"} -> Threads \cup {"free"}]
  <2>1. call[t] \in Busy /\ call[t] # Nothing /\ (Takes(t) \/ Goes(t) \/ Leaves(t))
    BY <1>2, StepKinds, NotNothing
  <2> DEFINE n == call[t].locks
             L == Locks(call[t].op)
  <2>2. /\ n \in Nat /\ n <= Len(L) /\ Len(L) \in Nat
        /\ \A i \in 1..n : lock[L[i]] = t
        /\ \A i \in 1..Len(L) : L[i] \in {"read", "write"}
    BY <2>1, LocksOf DEF Locking, Busy
  <2>3. \A u \in Threads \ {t} : call'[u] = call[u]
    BY <2>1 DEF Takes, Goes, Leaves, CallsTyped
  <2>4. \A u \in Threads : call[u] # Nothing =>
            /\ call[u] \in Busy
            /\ \A i \in 1..call[u].locks :
                   Locks(call[u].op)[i] \in {"read", "write"} /\ lock[Locks(call[u].op)[i]] = u
    <3> SUFFICES ASSUME NEW u \in Threads, call[u] # Nothing
                 PROVE  /\ call[u] \in Busy
                        /\ \A i \in 1..call[u].locks :
                               /\ Locks(call[u].op)[i] \in {"read", "write"}
                               /\ lock[Locks(call[u].op)[i]] = u
      OBVIOUS
    <3>1. call[u] \in Busy /\ call[u].locks \in Nat
      BY DEF CallsTyped, Busy
    <3>2. call[u].locks <= Len(Locks(call[u].op)) /\ Len(Locks(call[u].op)) \in Nat
      BY LocksOf DEF Locking
    <3>3. \A i \in 1..call[u].locks : i \in 1..Len(Locks(call[u].op))
      BY <3>1, <3>2
    <3> QED
      BY <3>1, <3>3, LocksOf DEF Locking
  <2>5. CASE Takes(t)
    <3>1. n + 1 \in 1..Len(L) /\ L[n + 1] \in {"read", "write"}
      BY <2>2, <2>5 DEF Takes
    <3>2. lock[L[n + 1]] = "free" /\ lock' = [lock EXCEPT ![L[n + 1]] = t]
      BY <2>5 DEF Takes
    <3>3. lock' \in [{"read", "write"} -> Threads \cup {"free"}]
      BY <3>1, <3>2 DEF TypeOK
    <3>4. \A m \in {"read", "write"} : lock[m] # "free" => lock'[m] = lock[m]
      BY <3>1, <3>2 DEF TypeOK
    <3>5. /\ call'[t].locks = n + 1 /\ call'[t].op = call[t].op
          /\ call'[t].pc = "lock"
      BY <2>1, <2>5 DEF Takes, CallsTyped, Busy
    <3>6. \A i \in 1..(n + 1) : lock'[L[i]] = t
      <4> SUFFICES ASSUME NEW i \in 1..(n + 1) PROVE lock'[L[i]] = t
        OBVIOUS
      <4>1. CASE i = n + 1
        BY <4>1, <3>1, <3>2 DEF TypeOK
      <4>2. CASE i # n + 1
        <5>1. i \in 1..n /\ i \in 1..Len(L)
          BY <4>2, <2>2
        <5> QED
          BY <5>1, <2>2, <3>4, ThreadsAssumption
      <4> QED
        BY <4>1, <4>2
    <3>7. \A u \in Threads \ {t} : call[u] # Nothing =>
              \A i \in 1..call[u].locks : lock'[Locks(call[u].op)[i]] = u
      BY <2>4, <3>4, ThreadsAssumption
    <3> QED
      BY <2>3, <3>1, <3>3, <3>5, <3>6, <3>7 DEF Locking
  <2>6. CASE Goes(t)
    <3>1. lock' = lock
      BY <2>6 DEF Goes
    <3>2. /\ call'[t].locks = n /\ call'[t].op = call[t].op
          /\ n = Len(L)
      BY <2>1, <2>6 DEF Goes, CallsTyped, Locking
    <3> QED
      BY <2>2, <2>3, <3>1, <3>2 DEF Locking, TypeOK
  <2>7. CASE Leaves(t)
    <3>1. /\ lock' \in [{"read", "write"} -> Threads \cup {"free"}]
          /\ \A m \in {"read", "write"} : lock[m] # t => lock'[m] = lock[m]
      BY <2>7 DEF Leaves, TypeOK
    <3>2. call'[t] = Nothing
      BY <2>7 DEF Leaves, CallsTyped
    <3>3. \A u \in Threads \ {t} : call[u] # Nothing =>
              \A i \in 1..call[u].locks : lock'[Locks(call[u].op)[i]] = u
      BY <2>4, <3>1
    <3> QED
      BY <2>3, <3>1, <3>2, <3>3 DEF Locking
  <2> QED
    BY <2>1, <2>5, <2>6, <2>7
<1>3. CASE Tick
  <2>1. lock' = lock
    BY <1>3 DEF Tick
  <2> QED
    BY <1>3, <2>1, TickShape DEF Locking, TypeOK
<1>4. CASE call' = call /\ lock' = lock
  BY <1>4 DEF Locking, TypeOK
<1> QED
  BY <1>1, <1>2, <1>3, <1>4, Steps DEF TypeOK

\* The variables that are not of one call.
LEMMA TypeKept ==
    ASSUME TypeOK, CallsTyped, Locking, Opening, [Next]_vars
    PROVE  TypeOK'
<1> DEFINE Values ==
    /\ is_open \in BOOLEAN /\ fd \in {"none", "valid", "stale"}
    /\ timeout \in Timeouts /\ parity \in Parities /\ baud \in {"standard", "custom"}
    /\ tty \in [parenb : BOOLEAN, parodd : BOOLEAN, cmspar : BOOLEAN]
    /\ company \subseteq Threads /\ settled \in BOOLEAN
    /\ sent \in Nat /\ taken \in 0..sent /\ out \in 0..OutSize
    /\ is_open => fd # "none"
<1>1. Values
  BY DEF TypeOK
<1>2. lock' \in [{"read", "write"} -> Threads \cup {"free"}]
  BY LockingKept
<1>3. OutSize \in Nat \ {0}
  BY BoundsAssumption
<1>4. Unset \in [parenb : BOOLEAN, parodd : BOOLEAN, cmspar : BOOLEAN]
  BY DEF Unset
<1>0. ASSUME NEW t \in Threads, SetsOut(t)
      PROVE  company' \subseteq Threads /\ settled' \in BOOLEAN
  BY <1>0 DEF TypeOK, SetsOut
<1>5. Available \in Nat /\ Available <= sent - taken
  BY DEF TypeOK, Available
<1>6. ASSUME NEW t \in Threads, Step(t) PROVE Values'
  <2> DEFINE b == call[t]
  <2>1. b \in Busy /\ b.have \in Nat /\ b.size \in Nat
    BY <1>6, StepKinds DEF Busy
  <2>2. CASE ReadBegin(t)
    <3>1. Smaller(Available, Asked(b)) \in 0..(sent - taken)
      BY <1>1, <1>5, <2>1 DEF Smaller, Asked
    <3> QED
      BY <1>1, <2>2, <3>1 DEF ReadBegin, port, settings
  <2>3. CASE Grab(t)
    <3>1. Smaller(Available, Asked(b) - b.have) \in Int
          /\ Smaller(Available, Asked(b) - b.have) <= sent - taken
      BY <1>1, <1>5, <2>1 DEF Smaller, Asked
    <3> QED
      BY <1>1, <2>3, <3>1 DEF Grab, port, settings
  <2>4. CASE FlushInput(t)
    BY <1>1, <2>4 DEF FlushInput, port, settings
  <2>5. CASE Put(t)
    <3>1. \A k \in 1..Smaller(b.size - b.have, OutSize - out) : out + k \in 0..OutSize
      BY <1>1, <1>3, <2>1 DEF Smaller
    <3> QED
      BY <1>1, <2>5, <3>1 DEF Put, port, settings
  <2>6. CASE FlushOutput(t)
    BY <1>1, <1>3, <2>6 DEF FlushOutput, port, settings
  <2>7. CASE Open(t)
    <3>1. UNCHANGED <<timeout, parity, baud, sent, taken, out>> /\ OpenIt(t)
      BY <2>7 DEF Open, driver
    <3>2. tty' = tty \/ tty' = Unset
      BY <3>1 DEF OpenIt
    <3>3. \/ is_open' = is_open /\ fd' = fd
          \/ is_open' = FALSE /\ fd' \in {"none", "valid"}
      BY <1>1, <3>1 DEF OpenIt
    <3>5. company' \subseteq Threads /\ settled' \in BOOLEAN
      <4>1. SetsOut(t) \/ (company' = company /\ settled' = settled)
        BY <3>1 DEF OpenIt
      <4> QED
        BY <1>0, <1>1, <4>1
    <3>4. is_open' \in BOOLEAN /\ fd' \in {"none", "valid", "stale"} /\ (is_open' => fd' # "none")
      <4>1. "valid" # "none" /\ "stale" # "none"
        OBVIOUS
      <4>2. is_open' \in BOOLEAN
        BY <1>1, <3>3, Zenon
      <4>3. fd' \in {"none", "valid", "stale"}
        BY <1>1, <3>3
      <4>4. is_open' => fd' # "none"
        BY <1>1, <3>3, <4>1, Zenon
      <4> QED
        BY <4>2, <4>3, <4>4
    <3> QED
      BY <1>1, <1>4, <3>1, <3>2, <3>4, <3>5
  <2>8. CASE Close(t)
    <3>1. /\ UNCHANGED <<timeout, parity, baud, tty, company, settled, sent, out>>
          /\ taken' \in {taken, sent}
      BY <2>8 DEF Close, CloseIt, settings
    <3>2. \/ is_open' = is_open /\ fd' = fd
          \/ is_open' = FALSE /\ fd' = "none"
          \/ is_open' = is_open /\ fd' = "stale"
      BY <2>8 DEF Close, CloseIt
    <3>3. is_open' \in BOOLEAN /\ fd' \in {"none", "valid", "stale"} /\ (is_open' => fd' # "none")
      <4>1. "valid" # "none" /\ "stale" # "none"
        OBVIOUS
      <4>2. is_open' \in BOOLEAN
        BY <1>1, <3>2, Zenon
      <4>3. fd' \in {"none", "valid", "stale"}
        BY <1>1, <3>2
      <4>4. is_open' => fd' # "none"
        BY <1>1, <3>2, <4>1, Zenon
      <4> QED
        BY <4>2, <4>3, <4>4
    <3> QED
      BY <1>1, <3>1, <3>3
  <2>9. CASE Set(t)
    <3>1. company' \subseteq Threads /\ settled' \in BOOLEAN
      BY <1>0, <2>9 DEF Set
    <3> QED
      BY <1>1, <2>9, <3>1, ParitiesAssumption DEF Set, port, driver
  <2>10. CASE Telling(t)
    <3>1. UNCHANGED <<fd, timeout, parity, baud, company, sent, taken, out>>
      BY <2>10 DEF Telling, Configure, Flags, Activate, Settle, port, settings, driver
    <3>2. tty' = tty \/ tty' = b.options
      BY <2>10 DEF Telling, Configure, Flags, Activate, Settle, settings
    <3>3. b.options \in [parenb : BOOLEAN, parodd : BOOLEAN, cmspar : BOOLEAN]
      BY <2>1 DEF Busy, Lines
    <3>4. settled' \in BOOLEAN
      BY <1>1, <2>10 DEF Telling, Configure, Flags, Activate, Settle, settings
    <3>5. is_open' \in BOOLEAN /\ (is_open' => fd # "none")
      <4>1. \/ is_open' = is_open
            \/ is_open' = (is_open \/ b.op \in Openers)
        BY <2>10 DEF Telling, Configure, Flags, Activate, Settle, port, Is, Openers
      <4>2. is_open \in BOOLEAN /\ (is_open => fd # "none")
        BY <1>1
      <4>3. b.op \in Openers => fd # "none"
        BY <2>10, TellingShape DEF Opening
      <4>4. CASE b.op \in Openers
        BY <4>1, <4>2, <4>3, <4>4
      <4>5. CASE b.op \notin Openers
        BY <4>1, <4>2, <4>5
      <4> QED
        BY <4>4, <4>5
    <3> QED
      BY <1>1, <3>1, <3>2, <3>3, <3>4, <3>5
  <2>11. CASE SetTimeout(t)
    BY <1>1, <2>11 DEF SetTimeout, settings, driver
  <2>12. CASE \/ Lock(t) \/ ReadLoop(t) \/ ReadSelected(t) \/ ReadDone(t) \/ LineDone(t)
              \/ LinesDone(t) \/ WriteBegin(t) \/ WriteLoop(t) \/ WriteSelected(t) \/ Flush(t)
    BY <1>1, <2>12 DEF Lock, ReadLoop, ReadSelected, ReadDone, LineDone, LinesDone, WriteBegin,
                       WriteLoop, WriteSelected, Flush, port, settings, driver
  <2> QED
    BY <1>6, <2>2, <2>3, <2>4, <2>5, <2>6, <2>7, <2>8, <2>9, <2>10, <2>11, <2>12
       DEF Step, Reading, Writing, Setting
<1>7. ASSUME NEW t \in Threads, Invoke(t) PROVE Values'
  BY <1>1, <1>7 DEF Invoke, port, settings, driver
<1>8. ASSUME Arrives PROVE Values'
  BY <1>1, <1>8 DEF Arrives, port, settings
<1>9. ASSUME Drain PROVE Values'
  BY <1>1, <1>3, <1>9 DEF Drain, port, settings
<1>10. ASSUME Unplugged \/ Tick \/ UNCHANGED vars PROVE Values'
  <2>1. UNCHANGED <<is_open, fd, timeout, parity, baud, tty, company, settled, sent, taken, out>>
    BY <1>10 DEF Unplugged, Tick, vars, port, settings, driver
  <2> QED
    BY <1>1, <2>1
<1>11. Values'
  BY <1>6, <1>7, <1>8, <1>9, <1>10 DEF Next
<1> QED
  BY <1>2, <1>11 DEF TypeOK

\* What a step makes of a call that goes on.
LEMMA PlacesKept ==
    ASSUME TypeOK, CallsTyped, Places, [Next]_vars
    PROVE  Places'
<1> DEFINE Placed(c) ==
        /\ c.pc \in {"grab", "done"} => c.op \in Reads
        /\ c.pc \in {"put"} => c.op = "write"
        /\ c.pc \in {"loop", "select"} => c.op \in Reads \cup {"write"}
        /\ c.pc = "reopen" => c.op = "setPort"
        /\ c.pc \in OnItsWay => c.op \in {"setParity", "setBaudrate", "open", "setPort"}
<1>1. ASSUME NEW t \in Threads, Invoke(t) PROVE Places'
  <2>1. PICK c \in Busy : call' = [call EXCEPT ![t] = c] /\ c.pc = "lock"
    BY <1>1, InvokeShape
  <2> QED
    BY <2>1 DEF CallsTyped, Places, OnItsWay
<1>2. ASSUME NEW t \in Threads, Step(t) PROVE Places'
  <2> DEFINE b == call[t]
  <2>1. b \in Busy /\ b # Nothing /\ (Takes(t) \/ Goes(t) \/ Leaves(t))
    BY <1>2, StepKinds, NotNothing
  <2>2. \A u \in Threads \ {t} : call'[u] = call[u]
    BY <2>1 DEF Takes, Goes, Leaves, CallsTyped
  <2>3. Placed(b)
    BY <2>1 DEF Places
  <2>4. ASSUME NEW c, Becomes(t, c) PROVE call'[t] = c
    BY <2>4 DEF Becomes, CallsTyped
  <2>5. CASE Takes(t) \/ Leaves(t)
    <3>1. call'[t] # Nothing => call'[t].pc = "lock"
      BY <2>1, <2>5 DEF Takes, Leaves, CallsTyped, Busy
    <3> QED
      BY <2>2, <3>1 DEF Places, OnItsWay
  <2>6. CASE Goes(t)
    <3>0. call'[t] # Nothing /\ call'[t].op = b.op
      BY <2>6, NotNothing DEF Goes, CallsTyped
    <3>1. ~Leaves(t)
      BY <3>0 DEF Leaves, CallsTyped
    <3>2. \A c, threw : ~Ends(t, c, threw)
      BY <2>1, <3>0 DEF Ends, CallsTyped
    <3>3. CASE Lock(t) \/ LineDone(t) \/ LinesDone(t)
      <4>1. call'[t].pc \in {"begin", "lock"}
        BY <2>1, <2>4, <3>2, <3>3
           DEF Lock, LineDone, LinesDone, Becomes, Returns, Busy, Cut, CallsTyped, At
      <4> QED
        BY <2>2, <4>1 DEF Places, OnItsWay
    <3>4. CASE ReadBegin(t) \/ ReadLoop(t) \/ ReadSelected(t) \/ Grab(t)
      <4>1. b.op \in Reads
        BY <2>3, <3>4 DEF ReadBegin, ReadLoop, ReadSelected, Grab, At, Is
      <4>2. call'[t].pc \in {"loop", "select", "grab", "done"}
        BY <2>1, <2>4, <3>2, <3>4
           DEF ReadBegin, ReadLoop, ReadSelected, Grab, Throws, Got, Busy
      <4> QED
        BY <2>2, <3>0, <4>1, <4>2 DEF Places, Reads, OnItsWay
    <3>5. CASE WriteBegin(t) \/ WriteLoop(t) \/ WriteSelected(t) \/ Put(t)
      <4>1. b.op = "write"
        BY <2>3, <3>5 DEF WriteBegin, WriteLoop, WriteSelected, Put, At, Is
      <4>2. call'[t].pc \in {"loop", "select", "put"}
        BY <2>1, <2>4, <3>2, <3>5
           DEF WriteBegin, WriteLoop, WriteSelected, Put, Throws, Returns, Busy
      <4> QED
        BY <2>2, <3>0, <4>1, <4>2 DEF Places, Reads, OnItsWay
    <3>6. CASE Close(t)
      <4>1. b.op = "setPort" /\ call'[t].pc = "reopen"
        BY <2>1, <2>4, <3>2, <3>6 DEF Close, CloseIt, Returns, Throws, Is, Busy
      <4> QED
        BY <2>2, <3>0, <4>1 DEF Places, Reads, OnItsWay
    <3>7. CASE Set(t)
      <4>1. b.op \in {"setParity", "setBaudrate"} /\ call'[t].pc = "configure"
        BY <2>1, <2>4, <3>2, <3>7 DEF Set, Returns, Is, Busy
      <4> QED
        BY <2>2, <3>0, <4>1 DEF Places, Reads, OnItsWay
    <3>9. CASE Open(t)
      <4>1. b.op \in {"open", "setPort"}
        BY <2>3, <3>9 DEF Open, At, Is
      <4>2. call'[t].pc = "configure"
        BY <2>1, <2>4, <3>2, <3>9 DEF Open, OpenIt, Throws, Busy
      <4> QED
        BY <2>2, <3>0, <4>1, <4>2 DEF Places, Reads, OnItsWay
    <3>10. CASE Telling(t)
      <4>1. b.pc \in OnItsWay /\ call'[t].pc \in OnItsWay
        BY <2>4, <3>2, <3>10, TellingShape DEF Alike, Throws, Returns, Configuring
      <4>2. b.op \in {"setParity", "setBaudrate", "open", "setPort"}
        BY <2>3, <4>1
      <4> QED
        BY <2>2, <3>0, <4>1, <4>2 DEF Places, OnItsWay
    <3>8. ~(ReadDone(t) \/ FlushInput(t) \/ Flush(t) \/ FlushOutput(t) \/ SetTimeout(t))
      BY <3>2 DEF ReadDone, FlushInput, Flush, FlushOutput, SetTimeout, Returns, Throws
    <3> QED
      BY <1>2, <3>3, <3>4, <3>5, <3>6, <3>7, <3>8, <3>9, <3>10 DEF Step, Reading, Writing, Setting
  <2> QED
    BY <2>1, <2>5, <2>6
<1>3. CASE Tick
  BY <1>3, TickShape DEF Places
<1>4. CASE call' = call
  BY <1>4 DEF Places
<1> QED
  BY <1>1, <1>2, <1>3, <1>4, Steps

\* Who reads or discards input holds the read lock.
LEMMA HoldsReadLock ==
    ASSUME Locking, CallsTyped, NEW t \in Threads, call[t] # Nothing, call[t].pc # "lock",
           call[t].op \in Reads \cup {"flushInput", "setPort"}
    PROVE  lock["read"] = t
<1>1. call[t].locks = Len(Locks(call[t].op)) /\ call[t].locks \in Nat
  BY DEF Locking, CallsTyped, Busy
<1>2. Len(Locks(call[t].op)) >= 1 /\ Locks(call[t].op)[1] = "read"
  BY LocksOf
<1>3. 1 \in 1..call[t].locks
  BY <1>1, <1>2
<1> QED
  BY <1>2, <1>3 DEF Locking

\* A step reads on, discards, or leaves the bytes alone.
LEMMA Bytes ==
    ASSUME NEW t \in Threads, TypeOK, CallsTyped, Places, Step(t)
    PROVE  \/ taken' = taken /\ (call'[t] # Nothing => call'[t].got = call[t].got)
           \/ /\ call[t].op \in Reads /\ call[t].pc # "lock"
              /\ \E k \in Nat, c \in Busy :
                     c.got = call[t].got /\ taken' = taken + k /\ call'[t] = Got(c, k)
           \/ /\ call[t].op \in {"flushInput", "close", "setPort"} /\ call[t].pc # "lock"
              /\ call'[t] # Nothing => call'[t].got = call[t].got
<1> DEFINE b == call[t]
           Same == call'[t] # Nothing => call'[t].got = b.got
           Reading1 == \E k \in Nat, c \in Busy :
                           c.got = b.got /\ taken' = taken + k /\ call'[t] = Got(c, k)
<1>1. b \in Busy /\ b # Nothing
  BY StepKinds, NotNothing
<1>2. /\ \A c : Becomes(t, c) => call'[t] = c
      /\ \A c, threw : Ends(t, c, threw) => call'[t] = Nothing
  BY DEF Becomes, Ends, CallsTyped
<1>3. Available \in Nat /\ b.have \in Nat /\ b.size \in Nat /\ taken \in Nat
  BY <1>1 DEF Available, TypeOK, Busy
<1>0. timeout.read \in Int /\ 0 \in Nat /\ Never \in Int
  BY TimeoutsAssumption DEF TypeOK, Never
<1>4. CASE ReadBegin(t)
  <2>1. CASE Throws(t) /\ UNCHANGED taken
    BY <1>2, <2>1 DEF Throws
  <2>2. CASE ~(Throws(t) /\ UNCHANGED taken)
    <3> DEFINE k == Smaller(Available, Asked(b))
               c == [b EXCEPT !.left = timeout.read, !.have = 0, !.wait = Never, !.pc = "loop"]
    <3>1. k \in Nat
      BY <1>3 DEF Smaller, Asked
    <3>2. c \in Busy /\ c.got = b.got
      BY <1>0, <1>1 DEF Busy, Stages
    <3>3. taken' = taken + k /\ Becomes(t, Got(c, k))
      BY <1>4, <2>2 DEF ReadBegin
    <3> HIDE DEF c, k
    <3>4. Reading1
      BY <1>2, <3>1, <3>2, <3>3
    <3> QED
      BY <1>4, <3>4 DEF ReadBegin, At, Is
  <2> QED
    BY <2>1, <2>2
<1>5. CASE Grab(t)
  <2>1. CASE Throws(t) /\ UNCHANGED taken
    BY <1>2, <2>1 DEF Throws
  <2>2. CASE ~(Throws(t) /\ UNCHANGED taken)
    <3> DEFINE k == Smaller(Available, Asked(b) - b.have)
               c == [b EXCEPT !.pc = "loop"]
    <3>1. k \in Int
      BY <1>3 DEF Smaller, Asked
    <3>2. c \in Busy /\ c.got = b.got
      BY <1>1 DEF Busy, Stages
    <3>3. k > 0 /\ taken' = taken + k /\ Becomes(t, Got(c, k))
      BY <1>5, <2>2 DEF Grab
    <3> HIDE DEF c, k
    <3>4. Reading1
      BY <1>2, <3>1, <3>2, <3>3
    <3> QED
      BY <1>1, <1>5, <3>4 DEF Grab, At, Places
  <2> QED
    BY <2>1, <2>2
<1>6. CASE FlushInput(t)
  BY <1>2, <1>6 DEF FlushInput, Returns, Throws, At, Is
<1>7. CASE Close(t)
  BY <1>1, <1>2, <1>7 DEF Close, CloseIt, Returns, Throws, At, Is, Busy
<1>8. CASE Lock(t)
  <2>1. call' = [call EXCEPT ![t].locks = b.locks + 1] => call'[t].got = b.got
    BY <1>1 DEF CallsTyped, Busy
  <2> QED
    BY <1>1, <1>2, <1>8, <2>1 DEF Lock, driver, Busy
<1>9. CASE ReadLoop(t) \/ ReadSelected(t) \/ ReadDone(t) \/ LineDone(t)
  BY <1>1, <1>2, <1>9 DEF ReadLoop, ReadSelected, ReadDone, LineDone, Returns, Throws, driver, Busy
<1>10. CASE LinesDone(t)
  <2>1. Cut(b).got = b.got /\ [Cut(b) EXCEPT !.pc = "begin"].got = b.got
    BY <1>1 DEF Cut, Busy
  <2> QED
    BY <1>2, <1>10, <2>1 DEF LinesDone, Returns, driver
<1>11. CASE WriteBegin(t) \/ WriteLoop(t) \/ WriteSelected(t) \/ Flush(t)
  BY <1>1, <1>2, <1>11 DEF WriteBegin, WriteLoop, WriteSelected, Flush, Returns, Throws, driver, Busy
<1>12. CASE Put(t) \/ FlushOutput(t)
  BY <1>1, <1>2, <1>12 DEF Put, FlushOutput, Returns, Throws, Busy
<1>13. CASE Open(t) \/ Set(t) \/ SetTimeout(t)
  BY <1>1, <1>2, <1>13 DEF Open, OpenIt, Set, SetTimeout, Returns, Throws, driver, Busy
<1>14. CASE Telling(t)
  <2>1. taken' = taken
    BY <1>14 DEF Telling, Configure, Flags, Activate, Settle, driver
  <2>2. Same
    BY <1>2, <1>14, TellingShape DEF Alike, Throws, Returns
  <2> QED
    BY <2>1, <2>2
<1> QED
  BY <1>4, <1>5, <1>6, <1>7, <1>8, <1>9, <1>10, <1>11, <1>12, <1>13, <1>14
     DEF Step, Reading, Writing, Setting

LEMMA ReadLastKept ==
    ASSUME TypeOK, CallsTyped, Locking, AloneInTheirTime, Places, ReadLast, [Next]_vars
    PROVE  ReadLast'
<1>1. ASSUME NEW t \in Threads, Invoke(t) PROVE ReadLast'
  <2>1. PICK c \in Busy : call' = [call EXCEPT ![t] = c] /\ c.got = <<>>
    BY <1>1, InvokeShape
  <2>2. taken' = taken
    BY <1>1 DEF Invoke, driver
  <2> QED
    BY <2>1, <2>2 DEF CallsTyped, ReadLast
<1>2. ASSUME NEW t \in Threads, Step(t) PROVE ReadLast'
  <2> DEFINE b == call[t]
  <2>1. b \in Busy /\ b # Nothing /\ (Takes(t) \/ Goes(t) \/ Leaves(t))
    BY <1>2, StepKinds, NotNothing
  <2>2. \A u \in Threads \ {t} : call'[u] = call[u]
    BY <2>1 DEF Takes, Goes, Leaves, CallsTyped
  <2>3. call'[t] # Nothing => call'[t].op = b.op /\ (call'[t].pc = "lock" => b.pc = "lock")
    BY <2>1 DEF Takes, Goes, Leaves, CallsTyped, Busy
  <2>4. CASE taken' = taken /\ (call'[t] # Nothing => call'[t].got = b.got)
    BY <2>1, <2>2, <2>3, <2>4 DEF ReadLast
  <2>5. CASE /\ b.op \in Reads /\ b.pc # "lock"
             /\ \E k \in Nat, c \in Busy :
                    c.got = b.got /\ taken' = taken + k /\ call'[t] = Got(c, k)
    <3>1. lock["read"] = t
      BY <2>1, <2>5, HoldsReadLock
    <3>2. ASSUME NEW u \in Threads \ {t}, call[u] # Nothing
          PROVE  call[u].got = <<>>
      BY <3>1, <3>2, HoldsReadLock DEF ReadLast
    <3>3. PICK k \in Nat, c \in Busy :
              c.got = b.got /\ taken' = taken + k /\ call'[t] = Got(c, k)
      BY <2>5
    <3>0. taken \in Nat
      BY DEF TypeOK
    <3>4. /\ Len(call'[t].got) = Len(b.got) + k
          /\ \A i \in 1..Len(b.got) : call'[t].got[i] = b.got[i]
          /\ \A i \in 1..k : call'[t].got[Len(b.got) + i] = taken + i
      <4>1. /\ Len(Got(c, k).got) = Len(c.got) + k
            /\ \A i \in 1..Len(c.got) : Got(c, k).got[i] = c.got[i]
            /\ \A i \in 1..k : Got(c, k).got[Len(c.got) + i] = taken + i
        BY <3>0, GotAdds
      <4> QED
        BY <3>3, <4>1
    <3>5. Len(b.got) \in Nat
      <4>1. b.got \in Seq(Nat)
        BY <2>1 DEF Busy
      <4> QED
        BY <4>1
    <3>6. \A i \in 1..Len(call'[t].got) : call'[t].got[i] = taken' - Len(call'[t].got) + i
      <4> SUFFICES ASSUME NEW i \in 1..(Len(b.got) + k)
                   PROVE  call'[t].got[i] = (taken + k) - (Len(b.got) + k) + i
        BY <3>3, <3>4
      <4>1. CASE i <= Len(b.got)
        <5>1. i \in 1..Len(b.got)
          BY <4>1, <3>5
        <5>2. b.got[i] = taken - Len(b.got) + i
          BY <5>1, <2>1 DEF ReadLast
        <5>3. taken - Len(b.got) + i = (taken + k) - (Len(b.got) + k) + i
          BY <3>0, <3>5
        <5>4. call'[t].got[i] = b.got[i]
          BY <3>4, <5>1
        <5> QED
          BY <5>2, <5>3, <5>4
      <4>2. CASE i > Len(b.got)
        <5> DEFINE j == i - Len(b.got)
        <5>1. j \in 1..k /\ i = Len(b.got) + j
          BY <4>2, <3>5
        <5> HIDE DEF j
        <5>2. call'[t].got[i] = taken + j
          BY <3>4, <5>1
        <5>3. taken + j = (taken + k) - (Len(b.got) + k) + i
          <6> DEFINE n == Len(b.got)
          <6>1. n \in Nat /\ taken \in Nat /\ k \in Nat /\ j \in Nat /\ i = n + j
            BY <3>0, <3>3, <3>5, <5>1
          <6> HIDE DEF n
          <6>2. taken + j = (taken + k) - (n + k) + i
            BY <6>1
          <6> QED
            BY <6>2 DEF n
        <5> QED
          BY <5>2, <5>3
      <4> QED
        BY <4>1, <4>2, <3>5
    <3>7. \A u \in Threads \ {t} : call'[u] # Nothing => call'[u].got = <<>>
      BY <2>2, <3>2
    <3>8. call'[t] # Nothing => call'[t].op \in Reads /\ call'[t].pc # "lock"
      BY <2>3, <2>5
    <3> QED
      BY <3>6, <3>7, <3>8 DEF ReadLast
  <2>6. CASE /\ b.op \in {"flushInput", "close", "setPort"} /\ b.pc # "lock"
             /\ call'[t] # Nothing => call'[t].got = b.got
    <3>1. b.got = <<>>
      BY <2>1, <2>6 DEF ReadLast, Reads
    <3>2. ASSUME NEW u \in Threads \ {t}, call[u] # Nothing
          PROVE  call[u].got = <<>>
      <4>1. CASE b.op = "close"
        BY <2>1, <3>2, <4>1 DEF AloneInTheirTime, Alone
      <4>2. CASE b.op \in {"flushInput", "setPort"}
        <5>1. lock["read"] = t
          BY <2>1, <2>6, <4>2, HoldsReadLock
        <5> QED
          BY <3>2, <5>1, HoldsReadLock DEF ReadLast
      <4> QED
        BY <2>6, <4>1, <4>2
    <3>3. \A u \in Threads : call'[u] # Nothing => call'[u].got = <<>>
      BY <2>2, <2>6, <3>1, <3>2
    <3> QED
      BY <3>3 DEF ReadLast
  <2>7. \/ taken' = taken /\ (call'[t] # Nothing => call'[t].got = b.got)
        \/ /\ b.op \in Reads /\ b.pc # "lock"
           /\ \E k \in Nat, c \in Busy :
                  c.got = b.got /\ taken' = taken + k /\ call'[t] = Got(c, k)
        \/ /\ b.op \in {"flushInput", "close", "setPort"} /\ b.pc # "lock"
           /\ call'[t] # Nothing => call'[t].got = b.got
    BY <1>2, Bytes
  <2> QED
    BY <2>4, <2>5, <2>6, <2>7
<1>3. CASE Tick
  <2>1. taken' = taken
    BY <1>3 DEF Tick, driver
  <2> QED
    BY <1>3, <2>1, TickShape DEF ReadLast
<1>4. CASE call' = call /\ taken' = taken
  BY <1>4 DEF ReadLast
<1> QED
  BY <1>1, <1>2, <1>3, <1>4, Steps

\* A read that returns has everything or has used up its time.
LEMMA Results ==
    ASSUME NEW t \in Threads, TypeOK, CallsTyped, Places, Progress, Step(t)
    PROVE  \/ result' = result
           \/ \E c, threw : Ends(t, c, threw)
                            /\ (c.op = "read" /\ ~threw => ~(Len(c.got) < c.size) \/ c.left <= 0)
<1> DEFINE b == call[t]
           Safe(c) == c.op = "read" => ~(Len(c.got) < c.size) \/ c.left <= 0
           Goal == \/ result' = result
                   \/ \E c, threw : Ends(t, c, threw) /\ (c.op = "read" /\ ~threw
                                         => ~(Len(c.got) < c.size) \/ c.left <= 0)
<1>1. b \in Busy /\ b # Nothing
  BY StepKinds, NotNothing
<1>2. ASSUME NEW c, Becomes(t, c) PROVE Goal
  BY <1>2 DEF Becomes
<1>3. ASSUME Throws(t) PROVE Goal
  BY <1>3 DEF Throws
<1>4. ASSUME NEW c, Returns(t, c), Safe(c) PROVE Goal
  BY <1>4 DEF Returns
<1> HIDE DEF Goal
<1>5. ASSUME Lock(t) PROVE Goal
  BY <1>2, <1>5 DEF Lock, Goal
<1>6. ASSUME ReadBegin(t) \/ ReadLoop(t) \/ ReadSelected(t) \/ Grab(t) PROVE Goal
  BY <1>2, <1>3, <1>6 DEF ReadBegin, ReadLoop, ReadSelected, Grab
<1>7. ASSUME ReadDone(t) PROVE Goal
  <2>1. b.op = "read" /\ b.pc = "done" /\ Returns(t, b)
    BY <1>7 DEF ReadDone, At, Is
  <2>2. b.have = Len(b.got) /\ (b.have = b.size \/ b.left <= 0)
    BY <1>1, <2>1 DEF Progress
  <2>3. Safe(b)
    BY <1>1, <2>2 DEF Busy
  <2> QED
    BY <1>4, <2>1, <2>3
<1>8. ASSUME LineDone(t) PROVE Goal
  <2>1. Safe(b)
    BY <1>8 DEF LineDone, Is
  <2> QED
    BY <1>2, <1>4, <1>8, <2>1 DEF LineDone
<1>9. ASSUME LinesDone(t) PROVE Goal
  <2>1. Cut(b).op = "readlines"
    BY <1>1, <1>9 DEF LinesDone, Is, Cut, Busy
  <2> QED
    BY <1>2, <1>4, <1>9, <2>1 DEF LinesDone
<1>10. ASSUME FlushInput(t) \/ Flush(t) \/ FlushOutput(t) \/ WriteBegin(t) \/ WriteLoop(t)
            \/ WriteSelected(t) \/ SetTimeout(t) \/ Set(t) PROVE Goal
  <2>1. Safe(b)
    BY <1>10 DEF FlushInput, Flush, FlushOutput, WriteBegin, WriteLoop, WriteSelected,
                 SetTimeout, Set, Is
  <2> QED
    BY <1>2, <1>3, <1>4, <1>10, <2>1
       DEF FlushInput, Flush, FlushOutput, WriteBegin, WriteLoop, WriteSelected, SetTimeout, Set
<1>11. ASSUME Put(t) PROVE Goal
  BY <1>2, <1>3, <1>11 DEF Put
<1>12. ASSUME Open(t) \/ Close(t) PROVE Goal
  <2>1. Safe(b)
    BY <1>1, <1>12 DEF Open, Close, Is, At, Places
  <2> QED
    BY <1>2, <1>3, <1>4, <1>12, <2>1 DEF Open, OpenIt, Close, CloseIt
<1>13. ASSUME Telling(t) PROVE Goal
  <2>1. Safe(b)
    BY <1>1, <1>13, TellingShape DEF Configuring, Places
  <2> QED
    BY <1>2, <1>3, <1>4, <1>13, <2>1, TellingShape
<1> QED
  BY <1>5, <1>6, <1>7, <1>8, <1>9, <1>10, <1>11, <1>12, <1>13
     DEF Step, Reading, Writing, Setting, Goal

LEMMA ShortKept ==
    ASSUME TypeOK, CallsTyped, Places, Progress, ResultKnown, ShortOnlyInTheEnd, [Next]_vars
    PROVE  ResultKnown' /\ ShortOnlyInTheEnd'
<1>1. ASSUME result' = result PROVE ResultKnown' /\ ShortOnlyInTheEnd'
  BY <1>1 DEF ResultKnown, ShortOnlyInTheEnd
<1>2. ASSUME NEW t \in Threads, NEW r, result' = [result EXCEPT ![t] = r],
             r.op = "read" /\ Len(r.got) < r.size => r.left <= 0
      PROVE  ResultKnown' /\ ShortOnlyInTheEnd'
  <2>1. result'[t] = r /\ \A u \in Threads \ {t} : result'[u] = result[u]
    BY <1>2 DEF ResultKnown
  <2>2. result' = [u \in Threads |-> result'[u]]
    BY <1>2 DEF ResultKnown
  <2> QED
    BY <1>2, <2>1, <2>2 DEF ResultKnown, ShortOnlyInTheEnd
<1>3. Nothing.op # "read"
  BY DEF Nothing
<1>4. ASSUME NEW t \in Threads, Invoke(t) PROVE ResultKnown' /\ ShortOnlyInTheEnd'
  BY <1>2, <1>3, <1>4 DEF Invoke
<1>5. ASSUME NEW t \in Threads, Step(t) PROVE ResultKnown' /\ ShortOnlyInTheEnd'
  <2>1. CASE result' = result
    BY <1>1, <2>1
  <2>2. CASE \E c, threw : Ends(t, c, threw)
                 /\ (c.op = "read" /\ ~threw => ~(Len(c.got) < c.size) \/ c.left <= 0)
    <3>1. PICK c, threw : Ends(t, c, threw)
                 /\ (c.op = "read" /\ ~threw => ~(Len(c.got) < c.size) \/ c.left <= 0)
      BY <2>2
    <3> DEFINE r == [op |-> c.op, size |-> c.size, got |-> c.got, cuts |-> c.cuts, left |-> c.left]
    <3>2. CASE threw \/ c.op \notin Reads
      BY <1>2, <1>3, <3>1, <3>2 DEF Ends
    <3>3. CASE ~(threw \/ c.op \notin Reads)
      <4>1. result' = [result EXCEPT ![t] = r]
        BY <3>1, <3>3 DEF Ends
      <4>2. r.op = c.op /\ r.size = c.size /\ r.got = c.got /\ r.left = c.left
        OBVIOUS
      <4>3. r.op = "read" /\ Len(r.got) < r.size => r.left <= 0
        BY <3>1, <3>3, <4>2
      <4> HIDE DEF r
      <4> QED
        BY <1>2, <4>1, <4>3
    <3> QED
      BY <3>2, <3>3
  <2> QED
    BY <1>5, <2>1, <2>2, Results
<1>6. CASE Arrives \/ Drain \/ Unplugged \/ Tick \/ UNCHANGED vars
  BY <1>1, <1>6 DEF Arrives, Drain, Unplugged, Tick, vars
<1> QED
  BY <1>4, <1>5, <1>6 DEF Next

\* One step of read().
LEMMA ReadOnward ==
    ASSUME NEW t \in Threads, TypeOK, CallsTyped, Places, Progress, Step(t),
           call[t].op = "read", call'[t] # Nothing
    PROVE  /\ call'[t].pc \in {"lock", "begin"} => call'[t].got = <<>>
           /\ call'[t].pc \in {"loop", "select", "grab", "done"} =>
                  call'[t].have = Len(call'[t].got)
           /\ call'[t].pc = "done" => call'[t].have = call'[t].size \/ call'[t].left <= 0
<1> DEFINE b == call[t]
           Well(c) == /\ c.pc \in {"lock", "begin"} => c.got = <<>>
                      /\ c.pc \in {"loop", "select", "grab", "done"} => c.have = Len(c.got)
                      /\ c.pc = "done" => c.have = c.size \/ c.left <= 0
<1>1. b \in Busy /\ b # Nothing
  BY StepKinds, NotNothing
<1>2. /\ \A c : Becomes(t, c) => call'[t] = c
      /\ \A c, threw : ~Ends(t, c, threw)
  BY DEF Becomes, Ends, CallsTyped
<1>3. Well(b)
  BY <1>1 DEF Progress
<1>4. /\ Available \in Nat /\ b.have \in Nat /\ b.size \in Nat /\ taken \in Nat
      /\ timeout.read \in Int /\ 0 \in Nat /\ Never \in Int
  <2>1. Available \in Nat /\ taken \in Nat
    BY DEF Available, TypeOK
  <2>2. timeout.read \in Int
    BY TimeoutsAssumption DEF TypeOK
  <2> QED
    BY <1>1, <2>1, <2>2 DEF Busy, Never
<1>5. ASSUME Lock(t) PROVE Well(call'[t])
  <2>1. b.pc = "lock" /\ b.got = <<>>
    BY <1>3, <1>5 DEF Lock, At
  <2>2. call'[t].pc \in {"lock", "begin"} /\ call'[t].got = b.got
    <3>1. call' = [call EXCEPT ![t].locks = b.locks + 1] =>
              call'[t].got = b.got /\ call'[t].pc = b.pc
      BY <1>1 DEF CallsTyped, Busy
    <3> QED
      BY <1>1, <1>2, <1>5, <2>1, <3>1 DEF Lock, Busy
  <2> QED
    BY <2>1, <2>2
<1>6. ASSUME ReadBegin(t) PROVE Well(call'[t])
  <2> DEFINE k == Smaller(Available, Asked(b))
             c == [b EXCEPT !.left = timeout.read, !.have = 0, !.wait = Never, !.pc = "loop"]
  <2>1. k \in Nat
    BY <1>4 DEF Smaller, Asked
  <2>2. c \in Busy /\ c.got = b.got /\ c.have = 0 /\ c.pc = "loop"
    BY <1>1, <1>4 DEF Busy, Stages
  <2>3. call'[t] = Got(c, k)
    BY <1>2, <1>6 DEF ReadBegin, Throws
  <2>4. b.got = <<>>
    BY <1>3, <1>6 DEF ReadBegin, At
  <2> HIDE DEF c, k
  <2>5. Len(Got(c, k).got) = Len(c.got) + k /\ Got(c, k).have = c.have + k /\ Got(c, k).pc = "loop"
    BY <1>4, <2>1, <2>2, GotAdds
  <2>6. Len(c.got) = 0
    BY <2>2, <2>4
  <2> QED
    BY <2>1, <2>2, <2>3, <2>5, <2>6
<1>7. ASSUME Grab(t) PROVE Well(call'[t])
  <2> DEFINE k == Smaller(Available, Asked(b) - b.have)
             c == [b EXCEPT !.pc = "loop"]
  <2>1. k \in Int
    BY <1>4 DEF Smaller, Asked
  <2>2. c \in Busy /\ c.got = b.got /\ c.have = b.have /\ c.pc = "loop"
    BY <1>1 DEF Busy, Stages
  <2>3. k > 0 /\ call'[t] = Got(c, k)
    BY <1>2, <1>7 DEF Grab, Throws
  <2>4. b.have = Len(b.got)
    BY <1>3, <1>7 DEF Grab, At
  <2> HIDE DEF c, k
  <2>5. k \in Nat
    BY <2>1, <2>3
  <2>6. Len(Got(c, k).got) = Len(c.got) + k /\ Got(c, k).have = c.have + k /\ Got(c, k).pc = "loop"
    BY <1>4, <2>2, <2>5, GotAdds
  <2> QED
    BY <2>2, <2>3, <2>4, <2>6
<1>8. ASSUME ReadLoop(t) PROVE Well(call'[t])
  <2>1. b.have = Len(b.got)
    BY <1>3, <1>8 DEF ReadLoop, At
  <2>2. Asked(b) = b.size
    BY DEF Asked
  <2> QED
    BY <1>1, <1>2, <1>8, <2>1, <2>2 DEF ReadLoop, Busy
<1>9. ASSUME ReadSelected(t) PROVE Well(call'[t])
  <2>1. b.have = Len(b.got)
    BY <1>3, <1>9 DEF ReadSelected, At
  <2> QED
    BY <1>1, <1>2, <1>9, <2>1 DEF ReadSelected, Throws, Busy
<1>10. ~ReadDone(t)
  BY <1>2 DEF ReadDone, Returns
<1>11. ~(\/ LineDone(t) \/ LinesDone(t) \/ FlushInput(t) \/ Flush(t) \/ FlushOutput(t)
         \/ WriteBegin(t) \/ WriteLoop(t) \/ WriteSelected(t) \/ SetTimeout(t) \/ Set(t)
         \/ Close(t))
  BY DEF LineDone, LinesDone, FlushInput, Flush, FlushOutput, WriteBegin, WriteLoop,
         WriteSelected, SetTimeout, Set, Close, Is
<1>12. ~(Put(t) \/ Open(t) \/ Telling(t))
  <2>1. ~(Put(t) \/ Open(t))
    BY <1>1 DEF Put, Open, Is, At, Places
  <2>2. ~Telling(t)
    BY <1>1, TellingShape DEF Configuring, Places
  <2> QED
    BY <2>1, <2>2
<1> QED
  BY <1>5, <1>6, <1>7, <1>8, <1>9, <1>10, <1>11, <1>12 DEF Step, Reading, Writing, Setting

LEMMA ProgressKept ==
    ASSUME TypeOK, CallsTyped, Places, Progress, [Next]_vars
    PROVE  Progress'
<1>1. ASSUME NEW t \in Threads, Invoke(t) PROVE Progress'
  <2>1. PICK c \in Busy : call' = [call EXCEPT ![t] = c] /\ c.got = <<>> /\ c.pc = "lock"
    BY <1>1, InvokeShape
  <2> QED
    BY <2>1 DEF CallsTyped, Progress
<1>2. ASSUME NEW t \in Threads, Step(t) PROVE Progress'
  <2>1. call[t] \in Busy /\ call[t] # Nothing /\ (Takes(t) \/ Goes(t) \/ Leaves(t))
    BY <1>2, StepKinds, NotNothing
  <2>2. \A u \in Threads \ {t} : call'[u] = call[u]
    BY <2>1 DEF Takes, Goes, Leaves, CallsTyped
  <2>3. call'[t] # Nothing => call'[t].op = call[t].op
    BY <2>1 DEF Takes, Goes, Leaves, CallsTyped, Busy
  <2> QED
    BY <1>2, <2>2, <2>3, ReadOnward DEF Progress
<1>3. CASE Tick
  BY <1>3, TickShape DEF Progress
<1>4. CASE call' = call
  BY <1>4 DEF Progress
<1> QED
  BY <1>1, <1>2, <1>3, <1>4, Steps

\* Two openers past their locks are not two.
LEMMA OneOpener ==
    ASSUME Locking, CallsTyped, AloneInTheirTime, NEW t \in Threads, NEW u \in Threads, t # u,
           call[t] # Nothing, call[t].pc # "lock", call[t].op \in Openers,
           call[u] # Nothing, call[u].pc # "lock", call[u].op \in Openers
    PROVE  FALSE
<1>1. call[t].op \notin Alone /\ call[u].op \notin Alone
  BY DEF AloneInTheirTime
<1>2. call[t].op = "setPort" /\ call[u].op = "setPort"
  BY <1>1 DEF Alone, Openers
<1>3. lock["read"] = t /\ lock["read"] = u
  BY <1>2, HoldsReadLock
<1> QED
  BY <1>3

\* A step that leaves the settings and those on their way alone.
Frame ==
    /\ UNCHANGED <<is_open, fd, parity, tty, company, settled>>
    /\ \A u \in Threads :
           /\ Configuring(u)' <=> Configuring(u)
           /\ Configuring(u) => /\ call'[u].pc = call[u].pc /\ call'[u].op = call[u].op
                                /\ call'[u].options = call[u].options

\* Reading, writing and taking locks are such steps.
LEMMA Elsewhere ==
    ASSUME NEW t \in Threads, TypeOK, CallsTyped, Places, Step(t),
           ~(Open(t) \/ Close(t) \/ Set(t) \/ Telling(t))
    PROVE  Frame
<1> DEFINE b == call[t]
<1>1. b \in Busy /\ b # Nothing /\ (Takes(t) \/ Goes(t) \/ Leaves(t))
  BY StepKinds, NotNothing
<1>2. \A u \in Threads \ {t} : call'[u] = call[u]
  BY <1>1 DEF Takes, Goes, Leaves, CallsTyped
<1>3. UNCHANGED <<is_open, fd, parity, tty, company, settled>>
  BY DEF Step, Reading, Writing, Setting, Lock, SetTimeout, ReadBegin, ReadLoop, ReadSelected,
         Grab, ReadDone, LineDone, LinesDone, FlushInput, WriteBegin, WriteLoop, WriteSelected,
         Put, Flush, FlushOutput, port, settings
<1>4. ~Configuring(t)
  BY DEF Step, Reading, Writing, Setting, Lock, SetTimeout, ReadBegin, ReadLoop, ReadSelected,
         Grab, ReadDone, LineDone, LinesDone, FlushInput, WriteBegin, WriteLoop, WriteSelected,
         Put, Flush, FlushOutput, Configuring, OnItsWay, At
<1>5. /\ \A c : Becomes(t, c) => call'[t] = c
      /\ \A c, threw : Ends(t, c, threw) => call'[t] = Nothing
  BY DEF Becomes, Ends, CallsTyped
<1>6. ASSUME call'[t] # Nothing => call'[t].pc \notin OnItsWay PROVE Frame
  <2>1. ~Configuring(t)'
    BY <1>6 DEF Configuring
  <2> QED
    BY <1>2, <1>3, <1>4, <2>1 DEF Frame, Configuring
<1>7. CASE Lock(t)
  <2>1. call' = [call EXCEPT ![t].locks = b.locks + 1] => call'[t].pc = b.pc
    BY <1>1 DEF CallsTyped, Busy
  <2>2. call'[t].pc \in {"lock", "begin"}
    BY <1>1, <1>5, <1>7, <2>1 DEF Lock, At, Busy
  <2> QED
    BY <1>6, <2>2 DEF OnItsWay
<1>8. CASE ReadBegin(t) \/ ReadLoop(t) \/ ReadSelected(t) \/ Grab(t)
  <2>1. call'[t] # Nothing => call'[t].pc \in {"loop", "select", "grab", "done"}
    BY <1>1, <1>5, <1>8 DEF ReadBegin, ReadLoop, ReadSelected, Grab, Throws, Got, Busy
  <2> QED
    BY <1>6, <2>1 DEF OnItsWay
<1>9. CASE LineDone(t) \/ LinesDone(t)
  <2>1. call'[t] # Nothing => call'[t].pc = "begin"
    BY <1>1, <1>5, <1>9 DEF LineDone, LinesDone, Returns, Cut, Busy
  <2> QED
    BY <1>6, <2>1 DEF OnItsWay
<1>10. CASE WriteBegin(t) \/ WriteLoop(t) \/ WriteSelected(t) \/ Put(t)
  <2>1. call'[t] # Nothing => call'[t].pc \in {"loop", "select", "put"}
    BY <1>1, <1>5, <1>10 DEF WriteBegin, WriteLoop, WriteSelected, Put, Throws, Returns, Busy
  <2> QED
    BY <1>6, <2>1 DEF OnItsWay
<1>11. CASE ReadDone(t) \/ FlushInput(t) \/ Flush(t) \/ FlushOutput(t) \/ SetTimeout(t)
  <2>1. call'[t] = Nothing
    BY <1>5, <1>11 DEF ReadDone, FlushInput, Flush, FlushOutput, SetTimeout, Throws, Returns
  <2> QED
    BY <1>6, <2>1
<1> QED
  BY <1>7, <1>8, <1>9, <1>10, <1>11 DEF Step, Reading, Writing, Setting

\* The rest of the steps of Next are such steps too.
LEMMA Outside ==
    ASSUME TypeOK, CallsTyped, [Next]_vars, ~\E t \in Threads : Step(t)
    PROVE  Frame
<1>1. ASSUME NEW t \in Threads, Invoke(t) PROVE Frame
  <2>1. PICK c \in Busy : call' = [call EXCEPT ![t] = c] /\ c.pc = "lock"
    BY <1>1, InvokeShape
  <2>2. call[t] = Nothing /\ call'[t] = c /\ \A u \in Threads \ {t} : call'[u] = call[u]
    BY <1>1, <2>1, InvokeShape DEF CallsTyped
  <2>3. UNCHANGED <<is_open, fd, parity, tty, company, settled>>
    BY <1>1 DEF Invoke, port, settings
  <2> QED
    BY <2>1, <2>2, <2>3 DEF Frame, Configuring, OnItsWay
<1>2. CASE Tick
  <2>1. UNCHANGED <<is_open, fd, parity, tty, company, settled>>
    BY <1>2 DEF Tick, port, settings
  <2> QED
    BY <1>2, <2>1, TickShape DEF Frame, Configuring
<1>3. CASE Arrives \/ Drain \/ Unplugged \/ UNCHANGED vars
  <2>1. UNCHANGED <<is_open, fd, parity, tty, company, settled, call>>
    BY <1>3 DEF Arrives, Drain, Unplugged, vars, port, settings
  <2> QED
    BY <2>1 DEF Frame, Configuring
<1> QED
  BY <1>1, <1>2, <1>3 DEF Next

\* A port is open when its opener is done, and the line has what the last call without
\* company has told it.
OnTheLine == Opening /\ Sharing /\ OptionsMatch /\ Told

LEMMA FrameKeeps ==
    ASSUME OnTheLine, Frame
    PROVE  OnTheLine'
<1>1. \A u \in Threads : /\ Waiting(u)' <=> Waiting(u)
                         /\ Settling(u)' <=> Settling(u)
  BY DEF Frame, Waiting, Settling, Configuring, OnItsWay
<1>2. Opening'
  BY DEF OnTheLine, Frame, Opening, Configuring
<1>3. Sharing'
  BY DEF OnTheLine, Frame, Sharing
<1>4. OptionsMatch'
  <2> SUFFICES ASSUME NEW u \in Threads, call'[u] # Nothing, call'[u].pc = "activate",
                      u \notin company'
               PROVE  Matches(call'[u].options, parity')
    BY DEF OptionsMatch
  <2>2. Configuring(u)
    BY DEF Frame, Configuring, OnItsWay
  <2>3. call[u] # Nothing /\ call[u].pc = "activate" /\ u \notin company
        /\ call'[u].options = call[u].options
    BY <2>2 DEF Frame, Configuring
  <2>4. Matches(call[u].options, parity)
    BY <2>3 DEF OnTheLine, OptionsMatch
  <2> QED
    BY <2>3, <2>4 DEF Frame
<1>5. Told'
  BY <1>1 DEF OnTheLine, Frame, Told, Matches
<1> QED
  BY <1>2, <1>3, <1>4, <1>5 DEF OnTheLine

\* Whoever sets out takes those on their way for company.
LEMMA SetsOutShares ==
    ASSUME NEW t \in Threads, Sharing, SetsOut(t), ~Configuring(t),
           \A u \in Threads \ {t} : call'[u] = call[u]
    PROVE  /\ Sharing'
           /\ \A u \in Threads \ {t} : Configuring(u) => u \in company' /\ ~settled'
<1> DEFINE others == {u \in Threads \ {t} : Configuring(u)}
<1>1. \A u \in Threads \ {t} : Configuring(u)' <=> Configuring(u)
  BY DEF Configuring
<1>2. others # {} => company' = company \cup others \cup {t} /\ ~settled'
  BY DEF SetsOut
<1>3. \A u \in Threads \ {t} : Configuring(u) => u \in others
  OBVIOUS
<1> HIDE DEF others
<1>4. \A u \in Threads \ {t} : Configuring(u) => u \in company' /\ t \in company' /\ ~settled'
  BY <1>2, <1>3
<1>5. Sharing'
  <2> SUFFICES ASSUME NEW a \in Threads, NEW c \in Threads, a # c,
                      Configuring(a)', Configuring(c)'
               PROVE  a \in company'
    BY DEF Sharing
  <2> QED
    BY <1>1, <1>4
<1> QED
  BY <1>4, <1>5

LEMMA OpenOnTheLine ==
    ASSUME NEW t \in Threads, TypeOK, CallsTyped, Locking, AloneInTheirTime, Places, OnTheLine,
           Open(t)
    PROVE  OnTheLine'
<1> DEFINE b == call[t]
<1>1. /\ b # Nothing /\ b.pc \in {"begin", "reopen"} /\ b.op \in Openers
      /\ parity' = parity /\ ~Configuring(t) /\ b \in Busy
  BY DEF Open, At, Is, Openers, Places, Configuring, OnItsWay, CallsTyped
<1>2. /\ \A c : Becomes(t, c) => call' = [call EXCEPT ![t] = c]
      /\ Throws(t) => call' = [call EXCEPT ![t] = Nothing]
  BY DEF Becomes, Ends, Throws
<1>3. \A u \in Threads \ {t} : call'[u] = call[u]
  BY <1>2 DEF Open, OpenIt, CallsTyped
<1>4. \A u \in Threads \ {t} : ~(Configuring(u) /\ call[u].op \in Openers)
  BY <1>1, OneOpener DEF Configuring, OnItsWay
<1>5. ASSUME Throws(t), UNCHANGED <<is_open, tty, company, settled>>, fd' = fd \/ fd' = "none"
      PROVE  OnTheLine'
  <2>1. call'[t] = Nothing
    BY <1>2, <1>5 DEF CallsTyped
  <2>2. CASE fd' = fd
    <3>1. Frame
      BY <1>1, <1>3, <1>5, <2>1, <2>2 DEF Frame, Configuring
    <3> QED
      BY <3>1, FrameKeeps
  <2>3. CASE fd' = "none"
    <3>1. \A u \in Threads : Configuring(u)' => u # t /\ Configuring(u) /\ call'[u] = call[u]
      BY <1>3, <2>1 DEF Configuring
    <3>2. Opening'
      BY <1>4, <3>1 DEF Opening
    <3>3. Sharing'
      BY <1>5, <3>1 DEF OnTheLine, Sharing
    <3>4. OptionsMatch'
      BY <1>1, <1>3, <1>5, <2>1 DEF OnTheLine, OptionsMatch, Matches
    <3>5. Told'
      BY <2>3 DEF Told
    <3> QED
      BY <3>2, <3>3, <3>4, <3>5 DEF OnTheLine
  <2> QED
    BY <1>5, <2>2, <2>3
<1>6. ASSUME ~is_open, fd' = "valid", is_open' = is_open, SetsOut(t),
             Becomes(t, [b EXCEPT !.pc = "configure"])
      PROVE  OnTheLine'
  <2>1. call'[t] = [b EXCEPT !.pc = "configure"] /\ call'[t] # Nothing
        /\ call'[t].pc = "configure"
    <3>1. [b EXCEPT !.pc = "configure"] \in Busy /\ [b EXCEPT !.pc = "configure"].pc = "configure"
      BY <1>1 DEF Busy, Stages
    <3> QED
      <4> DEFINE c == [b EXCEPT !.pc = "configure"]
      <4> HIDE DEF c
      <4>1. c \in Busy /\ c.pc = "configure" /\ Becomes(t, c)
        BY <1>6, <3>1 DEF c
      <4>2. call'[t] = c
        BY <1>2, <4>1 DEF CallsTyped
      <4> QED
        BY <4>1, <4>2, NotNothing DEF c
  <2>2. Opening'
    BY <1>6 DEF Opening
  <2>3. /\ Sharing'
        /\ \A u \in Threads \ {t} : Configuring(u) => u \in company'
    BY <1>1, <1>3, <1>6, SetsOutShares DEF OnTheLine
  <2>4. OptionsMatch'
    BY <1>3, <2>1, <2>3 DEF OptionsMatch, Configuring, OnItsWay
  <2>5. Told'
    BY <2>1 DEF Told, Waiting
  <2> QED
    BY <2>2, <2>3, <2>4, <2>5 DEF OnTheLine
<1> QED
  BY <1>5, <1>6 DEF Open, OpenIt

LEMMA CloseOnTheLine ==
    ASSUME NEW t \in Threads, TypeOK, CallsTyped, Places, OnTheLine, Close(t)
    PROVE  OnTheLine'
<1> DEFINE b == call[t]
<1>1. b # Nothing /\ b.pc = "begin" /\ ~Configuring(t) /\ b \in Busy
  BY DEF Close, At, Configuring, OnItsWay, CallsTyped
<1>2. UNCHANGED <<parity, tty, company, settled>>
  BY DEF Close, settings
<1>3. (\E c : call' = [call EXCEPT ![t] = c] /\ (c = Nothing \/ c.pc = "reopen"))
  <2>1. [b EXCEPT !.pc = "reopen"].pc = "reopen"
    BY <1>1 DEF Busy, Stages
  <2> QED
    BY <2>1 DEF Close, CloseIt, Becomes, Returns, Throws, Ends
<1>4. /\ \A u \in Threads \ {t} : call'[u] = call[u]
      /\ call'[t] = Nothing \/ call'[t].pc = "reopen"
  BY <1>3 DEF CallsTyped
<1>5. ~Configuring(t)'
  BY <1>4 DEF Configuring, OnItsWay
<1>6. CASE UNCHANGED <<is_open, fd>>
  <2>1. Frame
    BY <1>1, <1>2, <1>4, <1>5, <1>6 DEF Frame, Configuring
  <2> QED
    BY <2>1, FrameKeeps
<1>7. CASE is_open /\ fd' \in {"none", "stale"}
  <2>1. \A u \in Threads : Configuring(u)' => u # t /\ Configuring(u) /\ call'[u] = call[u]
    BY <1>4, <1>5 DEF Configuring
  <2>2. Opening'
    BY <1>7, <2>1 DEF OnTheLine, Opening
  <2>3. Sharing'
    BY <1>2, <2>1 DEF OnTheLine, Sharing
  <2>4. OptionsMatch'
    <3>1. \A u \in Threads : call'[u] # Nothing /\ call'[u].pc = "activate" => u # t
      BY <1>4
    <3> QED
      BY <1>2, <1>4, <3>1 DEF OnTheLine, OptionsMatch, Matches
  <2>5. Told'
    BY <1>7 DEF Told
  <2> QED
    BY <2>2, <2>3, <2>4, <2>5 DEF OnTheLine
<1> QED
  BY <1>6, <1>7 DEF Close, CloseIt

LEMMA SetOnTheLine ==
    ASSUME NEW t \in Threads, TypeOK, CallsTyped, Places, OnTheLine, Set(t)
    PROVE  OnTheLine'
<1> DEFINE b == call[t]
<1>1. /\ b # Nothing /\ b.pc = "begin" /\ ~Configuring(t) /\ b \in Busy
      /\ b.op \notin Openers /\ SetsOut(t) /\ UNCHANGED <<is_open, fd, tty>>
  BY DEF Set, At, Is, Configuring, OnItsWay, CallsTyped, Openers, port
<1>2. /\ is_open => Becomes(t, [b EXCEPT !.pc = "configure"])
      /\ ~is_open => Returns(t, b)
  BY DEF Set
<1>3. /\ \A u \in Threads \ {t} : call'[u] = call[u]
      /\ is_open => call'[t] = [b EXCEPT !.pc = "configure"]
      /\ ~is_open => call'[t] = Nothing
  BY <1>2 DEF Becomes, Returns, Ends, CallsTyped
<1>4. is_open => /\ call'[t] # Nothing /\ call'[t].pc = "configure"
                 /\ call'[t].op = b.op
  <2>1. /\ [b EXCEPT !.pc = "configure"] \in Busy
        /\ [b EXCEPT !.pc = "configure"].pc = "configure"
        /\ [b EXCEPT !.pc = "configure"].op = b.op
    BY <1>1 DEF Busy, Stages
  <2> QED
    BY <1>3, <2>1, NotNothing
<1>5. /\ Sharing'
      /\ \A u \in Threads \ {t} : Configuring(u) => u \in company' /\ ~settled'
  BY <1>1, <1>3, SetsOutShares DEF OnTheLine
<1>6. Opening'
  <2> SUFFICES ASSUME NEW u \in Threads, Configuring(u)', call'[u].op \in Openers
               PROVE  ~is_open' /\ fd' = "valid"
    BY DEF Opening
  <2>1. u # t
    BY <1>1, <1>3, <1>4 DEF Configuring
  <2>2. Configuring(u) /\ call[u].op \in Openers
    BY <1>3, <2>1 DEF Configuring
  <2> QED
    BY <1>1, <2>2 DEF OnTheLine, Opening
<1>7. OptionsMatch'
  <2> SUFFICES ASSUME NEW u \in Threads, call'[u] # Nothing, call'[u].pc = "activate"
               PROVE  u \in company'
    BY DEF OptionsMatch
  <2>1. u # t
    BY <1>3, <1>4
  <2>2. Configuring(u)
    BY <1>3, <2>1 DEF Configuring, OnItsWay
  <2> QED
    BY <1>5, <2>1, <2>2
<1>8. Told'
  <2>1. CASE is_open
    BY <1>4, <2>1 DEF Told, Waiting
  <2>2. CASE ~is_open
    <3> SUFFICES ASSUME settled', NEW u \in Threads, Settling(u)' PROVE FALSE
      BY <1>1, <2>2 DEF Told
    <3>1. u # t /\ Configuring(u)
      BY <1>3, <2>2 DEF Settling, Configuring, OnItsWay
    <3> QED
      BY <1>5, <3>1
  <2> QED
    BY <2>1, <2>2
<1> QED
  BY <1>5, <1>6, <1>7, <1>8 DEF OnTheLine

LEMMA TellingOnTheLine ==
    ASSUME NEW t \in Threads, TypeOK, CallsTyped, Locking, AloneInTheirTime, Places, OnTheLine,
           Telling(t)
    PROVE  OnTheLine'
<1> DEFINE b == call[t]
<1>1. Configuring(t) /\ b \in Busy /\ b # Nothing
  BY TellingShape DEF Configuring, CallsTyped
<1>2. UNCHANGED <<fd, parity, company>>
  BY DEF Telling, Configure, Flags, Activate, Settle, port, settings
<1>3. /\ \A c : Becomes(t, c) => call' = [call EXCEPT ![t] = c]
      /\ Throws(t) => call' = [call EXCEPT ![t] = Nothing]
      /\ Returns(t, b) => call' = [call EXCEPT ![t] = Nothing]
  BY DEF Becomes, Ends, Throws, Returns
<1>4. /\ \A u \in Threads \ {t} : call'[u] = call[u]
      /\ \A c : Becomes(t, c) => call'[t] = c
      /\ Throws(t) \/ Returns(t, b) => call'[t] = Nothing
      /\ call'[t] # Nothing => call'[t].op = b.op
  <2>1. \E c : call' = [call EXCEPT ![t] = c] /\ (c # Nothing => c.op = b.op)
    BY <1>3, TellingShape DEF Alike
  <2> QED
    BY <1>3, <2>1 DEF CallsTyped
<1>5. \A u \in Threads : Configuring(u)' => Configuring(u)
  BY <1>1, <1>4 DEF Configuring
<1>6. Sharing'
  BY <1>2, <1>5 DEF OnTheLine, Sharing
<1>7. is_open' = is_open \/ (call'[t] = Nothing /\ b.op \in Openers /\ b.pc = "settle")
  <2>1. CASE Configure(t) \/ Flags(t) \/ Activate(t)
    BY <2>1 DEF Configure, Flags, Activate, port
  <2>2. CASE Settle(t)
    <3>1. b.pc = "settle" /\ call'[t] = Nothing
      BY <1>4, <2>2 DEF Settle, At
    <3>2. is_open' = is_open \/ is_open' = (is_open \/ b.op \in Openers)
      BY <2>2 DEF Settle, Is, Openers
    <3>3. is_open \in BOOLEAN
      BY DEF TypeOK
    <3> QED
      BY <3>1, <3>2, <3>3
  <2> QED
    BY <2>1, <2>2 DEF Telling
<1>8. Opening'
  <2> SUFFICES ASSUME NEW u \in Threads, Configuring(u)', call'[u].op \in Openers
               PROVE  ~is_open' /\ fd' = "valid"
    BY DEF Opening
  <2>1. Configuring(u) /\ call[u].op \in Openers
    BY <1>4, <1>5 DEF Configuring
  <2>2. ~is_open /\ fd = "valid"
    BY <2>1 DEF OnTheLine, Opening
  <2>3. CASE call'[t] = Nothing /\ b.op \in Openers
    <3>1. u # t
      BY <2>3 DEF Configuring
    <3> QED
      BY <1>1, <2>1, <2>3, <3>1, OneOpener DEF Configuring, OnItsWay
  <2> QED
    BY <1>2, <1>7, <2>2, <2>3
<1>9. OptionsMatch'
  <2>1. ASSUME call'[t] # Nothing, call'[t].pc = "activate", t \notin company'
        PROVE  Matches(call'[t].options, parity')
    <3>1. Flags(t)
      <4>1. /\ Configure(t) => call'[t] = Nothing \/ call'[t].pc = "flags"
            /\ Activate(t) => call'[t].pc = "settle"
            /\ Settle(t) => call'[t] = Nothing
        <5>1. Configure(t) => call'[t] = Nothing \/ call'[t].pc = "flags"
          <6> DEFINE z == (baud = "custom")
                     c == [b EXCEPT !.options = tty, !.custom = z, !.pc = "flags"]
          <6>1. c.pc = "flags"
            BY <1>1 DEF Busy
          <6>2. Configure(t) => Throws(t) \/ Becomes(t, c)
            BY DEF Configure
          <6> HIDE DEF c
          <6> QED
            BY <1>4, <6>1, <6>2
        <5>2. Activate(t) => call'[t].pc = "settle"
          <6> DEFINE c == [b EXCEPT !.pc = "settle"]
          <6>1. c.pc = "settle"
            BY <1>1 DEF Busy
          <6>2. Activate(t) => Becomes(t, c)
            BY DEF Activate
          <6> HIDE DEF c
          <6> QED
            BY <1>4, <6>1, <6>2
        <5>3. Settle(t) => call'[t] = Nothing
          BY <1>4 DEF Settle
        <5> QED
          BY <5>1, <5>2, <5>3
      <4> QED
        BY <2>1, <4>1 DEF Telling
    <3>2. call'[t].options = Parity(b.options)
      BY <1>1, <1>4, <3>1 DEF Flags, Busy
    <3>3. Matches(Parity(b.options), parity)
      <4>1. b.options \in Lines /\ parity \in Parities
        BY <1>1 DEF Busy, TypeOK
      <4> QED
        BY <4>1 DEF Parity, Parities, Matches, Lines
    <3> QED
      BY <1>2, <3>2, <3>3 DEF Matches
  <2>2. ASSUME NEW u \in Threads \ {t}, call'[u] # Nothing, call'[u].pc = "activate",
               u \notin company'
        PROVE  Matches(call'[u].options, parity')
    BY <1>2, <1>4, <2>2 DEF OnTheLine, OptionsMatch, Matches
  <2> QED
    BY <2>1, <2>2 DEF OptionsMatch
<1>10. Told'
  <2>1. CASE Configure(t)
    <3> DEFINE z == (baud = "custom")
               c == [b EXCEPT !.options = tty, !.custom = z, !.pc = "flags"]
    <3>1. z \in BOOLEAN /\ tty \in Lines
      BY DEF TypeOK, Lines
    <3>2. ~settled' \/ Becomes(t, c)
      BY <2>1 DEF Configure
    <3> HIDE DEF z
    <3>3. c \in Busy /\ c.pc = "flags"
      BY <1>1, <3>1 DEF Busy, Stages
    <3> HIDE DEF c
    <3>4. ~settled' \/ (call'[t] # Nothing /\ call'[t].pc = "flags")
      BY <1>4, <3>2, <3>3, NotNothing
    <3> QED
      BY <3>4 DEF Told, Waiting
  <2>2. CASE Flags(t)
    <3>1. Becomes(t, [b EXCEPT !.options = Parity(@), !.pc = "activate"])
      BY <2>2 DEF Flags
    <3>2. [b EXCEPT !.options = Parity(@), !.pc = "activate"].pc = "activate"
      BY <1>1 DEF Busy
    <3>3. call'[t].pc = "activate"
      BY <1>4, <3>1, <3>2
    <3>4. \E c \in Busy : Becomes(t, c)
      <4> DEFINE n == Parity(b.options)
      <4>1. n \in Lines
        BY <1>1 DEF Busy, TypeOK, Parity, Parities, Lines
      <4>2. Becomes(t, [b EXCEPT !.options = n, !.pc = "activate"])
        BY <3>1
      <4> HIDE DEF n
      <4>3. [b EXCEPT !.options = n, !.pc = "activate"] \in Busy
        BY <1>1, <4>1 DEF Busy, Stages
      <4> QED
        BY <4>2, <4>3
    <3>5. call'[t] # Nothing
      BY <1>4, <3>4, NotNothing
    <3> QED
      BY <3>3, <3>5 DEF Told, Waiting
  <2>3. CASE Activate(t)
    <3>1. b.pc = "activate"
      BY <2>3 DEF Activate, At
    <3>2. settled' => t \notin company /\ tty' = b.options
      BY <2>3 DEF Activate
    <3>3. settled' => Matches(tty', parity')
      BY <1>1, <1>2, <3>1, <3>2 DEF OnTheLine, OptionsMatch, Matches
    <3> QED
      BY <3>3 DEF Told
  <2>4. CASE Settle(t)
    <3>1. Settling(t) /\ ~Waiting(t) /\ UNCHANGED <<tty, settled>>
      BY <2>4 DEF Settle, Settling, Waiting, At, settings
    <3>2. \A u \in Threads : Waiting(u) => Waiting(u)'
      BY <1>4, <3>1 DEF Waiting
    <3> QED
      BY <1>2, <3>1, <3>2 DEF OnTheLine, Told, Matches
  <2> QED
    BY <2>1, <2>2, <2>3, <2>4 DEF Telling
<1> QED
  BY <1>6, <1>8, <1>9, <1>10 DEF OnTheLine

LEMMA LineKept ==
    ASSUME TypeOK, CallsTyped, Locking, AloneInTheirTime, Places, OnTheLine, [Next]_vars
    PROVE  OnTheLine'
<1>1. ASSUME NEW t \in Threads, Step(t) PROVE OnTheLine'
  BY <1>1, OpenOnTheLine, CloseOnTheLine, SetOnTheLine, TellingOnTheLine, Elsewhere, FrameKeeps
<1>2. CASE ~\E t \in Threads : Step(t)
  BY <1>2, Outside, FrameKeeps
<1> QED
  BY <1>1, <1>2

-----------------------------------------------------------------------------
(* Theorems *)

IInv ==
    /\ TypeOK /\ CallsTyped /\ Locking /\ AloneInTheirTime /\ Places /\ ReadLast /\ Progress
    /\ ResultKnown /\ ShortOnlyInTheEnd /\ OnTheLine

\* The invariant is inductive.
THEOREM Invariance == Spec => []IInv
<1>1. Init => IInv
  <2> SUFFICES ASSUME Init PROVE IInv
    OBVIOUS
  <2>0. Planned
    BY PlansAssumption DEF Init, Planned
  <2>1. CallsTyped /\ Locking /\ AloneInTheirTime /\ Places /\ ReadLast /\ Progress
        /\ ResultKnown
    BY <2>0 DEF Init, CallsTyped, Locking, AloneInTheirTime, Places, ReadLast, Progress, ResultKnown
  <2>2. ShortOnlyInTheEnd
    BY DEF Init, ShortOnlyInTheEnd, Nothing
  <2>3. OnTheLine
    <3>1. \A t \in Threads : call[t] = Nothing
      BY DEF Init
    <3>2. Matches(tty, parity)
      BY DEF Init, Matches, Unset
    <3> QED
      BY <3>1, <3>2 DEF OnTheLine, Opening, Sharing, OptionsMatch, Told, Configuring
  <2>4. TypeOK
    BY BoundsAssumption DEF Init, TypeOK, Parities, Unset
  <2> QED
    BY <2>1, <2>2, <2>3, <2>4 DEF IInv
<1>2. IInv /\ [Next]_vars => IInv'
  <2>1. OnTheLine => Opening
    BY DEF OnTheLine
  <2> QED
    BY <2>1, TypeKept, CallsTypedKept, LockingKept, AloneKept, PlacesKept, ReadLastKept,
       ProgressKept, ShortKept, LineKept DEF IInv
<1> QED
  BY <1>1, <1>2, PTL DEF Spec

\* Every variable of the port keeps its type, the counts stay within what has
\* arrived and what the driver has room for, and an open port has a descriptor.
THEOREM TypeCorrect == Spec => []TypeOK
  BY Invariance, PTL DEF IInv

\* However many threads call, the bytes of one call came in without a gap: the read
\* lock keeps every other call from taking or discarding any between them.
THEOREM BytesOfACallAreContiguous == Spec => []Contiguous
<1>1. IInv => Contiguous
  <2> SUFFICES ASSUME IInv, NEW t \in Threads, call[t] # Nothing,
                      NEW i \in 2..Len(call[t].got)
               PROVE  call[t].got[i] = call[t].got[i - 1] + 1
    BY DEF Contiguous
  <2>1. call[t].got \in Seq(Nat)
    BY DEF IInv, CallsTyped, Busy
  <2>2. Len(call[t].got) \in Nat /\ taken \in Nat
    BY <2>1 DEF IInv, TypeOK
  <2>3. i \in 1..Len(call[t].got) /\ i - 1 \in 1..Len(call[t].got)
    BY <2>2
  <2>4. /\ call[t].got[i] = taken - Len(call[t].got) + i
        /\ call[t].got[i - 1] = taken - Len(call[t].got) + (i - 1)
    BY <2>3 DEF IInv, ReadLast
  <2>5. taken - Len(call[t].got) + i = (taken - Len(call[t].got) + (i - 1)) + 1
    BY <2>2
  <2> QED
    BY <2>4, <2>5
<1> QED
  BY <1>1, Invariance, PTL

\* A read() that returns less than it was asked for has used up its time, whatever
\* inter-byte timeout is set.
THEOREM ShortReadsUsedTheirTime == Spec => []ShortOnlyInTheEnd
  BY Invariance, PTL DEF IInv

\* An open line has the flags of the parity that was set last (parity_), whatever was
\* refused, closed, reopened or unplugged, when the call that told it (setParity(),
\* setBaudrate(), open(), setPort()) had the way for itself and the line was asked and
\* told; how many calls have crossed each other before makes no difference.
THEOREM LineHasItsSettings == Spec => []LineAsSet
<1>1. IInv => LineAsSet
  <2> SUFFICES ASSUME OnTheLine, settled, is_open, fd = "valid",
                      \A t \in Threads : ~Configuring(t)
               PROVE  Matches(tty, parity)
    BY DEF IInv, LineAsSet, Matches
  <2>1. \A t \in Threads : ~Waiting(t)
    BY DEF Waiting, Configuring, OnItsWay
  <2> QED
    BY <2>1 DEF OnTheLine, Told
<1> QED
  BY <1>1, Invariance, PTL

-----------------------------------------------------------------------------
(* Lines *)

LineReads == {"readline", "readlines"}
CutsOf(c) == {c.cuts[i] : i \in DOMAIN c.cuts}
EolsUpTo(got, k) == {n \in 1..k : EndsWithEol(SubSeq(got, 1, n))}

\* How many of its bytes a line reader has judged: all but the one it is reading.
Judged(c) == IF c.pc \in {"lock", "begin"} THEN Len(c.got) ELSE Len(c.got) - c.have

\* What a line reader knows of the bytes it has judged.
LinesKnown(c) ==
    c.op \in LineReads =>
        /\ c.pc \notin {"lock", "begin"} => c.have \in {0, 1} /\ c.have <= Len(c.got)
        /\ c.op = "readline" => EolsUpTo(c.got, Judged(c)) = {}
        /\ c.op = "readlines" => CutsOf(c) = EolsUpTo(c.got, Judged(c))
ReadersKnow == \A t \in Threads : call[t] # Nothing => LinesKnown(call[t])

\* What is promised of a result.
LineOf(r) ==
    /\ r.op = "readlines" /\ r.got # <<>> =>
           CutsOf(r) = {Len(r.got)} \cup {n \in DOMAIN r.got : EndsWithEol(SubSeq(r.got, 1, n))}
    /\ r.op = "readline" => EolsUpTo(r.got, Len(r.got) - 1) = {}

\* A byte more changes nothing of what came before it.
LEMMA LinesGrow ==
    ASSUME NEW c \in Busy, NEW k \in Nat, taken \in Nat, c.pc \notin {"lock", "begin"},
           c.op \in LineReads => c.have + k \in {0, 1}, LinesKnown(c)
    PROVE  LinesKnown(Got(c, k))
<1> SUFFICES ASSUME c.op \in LineReads PROVE LinesKnown(Got(c, k))
  BY GotAdds DEF LinesKnown
<1> DEFINE d == Got(c, k)
<1>1. /\ d \in Busy /\ d.op = c.op /\ d.pc = c.pc /\ d.cuts = c.cuts /\ d.have = c.have + k
      /\ Len(d.got) = Len(c.got) + k
      /\ \A i \in 1..Len(c.got) : d.got[i] = c.got[i]
  BY GotAdds
<1> HIDE DEF d
<1>2. /\ d.got \in Seq(Nat) /\ c.got \in Seq(Nat) /\ Len(c.got) \in Nat /\ Len(d.got) \in Nat
      /\ c.have \in Nat
  BY <1>1, LenProperties DEF Busy
<1>3. ASSUME NEW n \in 1..Len(c.got) PROVE SubSeq(d.got, 1, n) = SubSeq(c.got, 1, n)
  <2>1. \A i \in 1..n : d.got[i] \in Nat /\ c.got[i] \in Nat
    <3> SUFFICES ASSUME NEW i \in 1..n PROVE d.got[i] \in Nat /\ c.got[i] \in Nat
      OBVIOUS
    <3>1. i \in 1..Len(c.got)
      BY <1>2
    <3>2. c.got[i] \in Nat
      BY <1>2, <3>1, ElementOfSeq
    <3> QED
      BY <1>1, <3>1, <3>2
  <2>2. /\ SubSeq(d.got, 1, n) \in Seq(Nat)
        /\ Len(SubSeq(d.got, 1, n)) = IF 1 <= n THEN n - 1 + 1 ELSE 0
        /\ \A i \in 1..(n - 1 + 1) : SubSeq(d.got, 1, n)[i] = d.got[1 + i - 1]
    BY <2>1, SubSeqProperties
  <2>3. /\ SubSeq(c.got, 1, n) \in Seq(Nat)
        /\ Len(SubSeq(c.got, 1, n)) = IF 1 <= n THEN n - 1 + 1 ELSE 0
        /\ \A i \in 1..(n - 1 + 1) : SubSeq(c.got, 1, n)[i] = c.got[1 + i - 1]
    BY <2>1, SubSeqProperties
  <2> QED
    BY <1>1, <1>2, <2>2, <2>3, SeqEqual
<1>4. Judged(d) = Judged(c) /\ Judged(c) \in Int /\ Judged(c) <= Len(c.got)
  BY <1>1, <1>2 DEF Judged
<1>5. EolsUpTo(d.got, Judged(d)) = EolsUpTo(c.got, Judged(c))
  <2>1. \A n \in 1..Judged(c) : n \in 1..Len(c.got)
    BY <1>2, <1>4
  <2>2. \A n \in 1..Judged(c) :
            EndsWithEol(SubSeq(d.got, 1, n)) <=> EndsWithEol(SubSeq(c.got, 1, n))
    BY <1>3, <2>1
  <2> QED
    BY <1>4, <2>2 DEF EolsUpTo
<1>6. CutsOf(d) = CutsOf(c)
  BY <1>1 DEF CutsOf
<1>7. d.have \in {0, 1} /\ d.have <= Len(d.got)
  BY <1>1, <1>2 DEF LinesKnown
<1>8. LinesKnown(d)
  BY <1>1, <1>5, <1>6, <1>7 DEF LinesKnown
<1> QED
  BY <1>8 DEF d

\* A reader that goes on with the same bytes knows of them what it knew.
LEMMA SameLines ==
    ASSUME NEW c, NEW d, LinesKnown(c), d.op = c.op, d.got = c.got, d.cuts = c.cuts,
           Judged(d) = Judged(c),
           d.pc \notin {"lock", "begin"} /\ c.op \in LineReads =>
               d.have \in {0, 1} /\ d.have <= Len(d.got)
    PROVE  LinesKnown(d)
  BY DEF LinesKnown, CutsOf

\* Where a line ends when a byte has been judged.
LEMMA CutKnown ==
    ASSUME NEW c \in Busy, c.op = "readlines", c.pc = "done", LinesKnown(c)
    PROVE  /\ Cut(c).op = c.op /\ Cut(c).got = c.got /\ Cut(c).pc = c.pc
           /\ IF c.have = 0 \/ Len(c.got) = c.size
              THEN c.got # <<>> =>
                     CutsOf(Cut(c)) = {Len(c.got)} \cup EolsUpTo(c.got, Len(c.got))
              ELSE CutsOf(Cut(c)) = EolsUpTo(c.got, Len(c.got))
<1> DEFINE L == Len(c.got)
           q == Cut(c).cuts
           upto == IF c.cuts = <<>> THEN 0 ELSE c.cuts[Len(c.cuts)]
           stops == c.have = 0 \/ L = c.size
<1>1. /\ c.got \in Seq(Nat) /\ c.cuts \in Seq(Nat) /\ L \in Nat /\ Len(c.cuts) \in Nat
      /\ c.have \in {0, 1} /\ c.have <= L /\ CutsOf(c) = EolsUpTo(c.got, L - c.have)
  <2>1. c.have \in {0, 1} /\ c.have <= L /\ CutsOf(c) = EolsUpTo(c.got, L - c.have)
    BY DEF LinesKnown, LineReads, Judged
  <2> QED
    BY <2>1, LenProperties DEF Busy
<1>2. /\ Cut(c).op = c.op /\ Cut(c).got = c.got /\ Cut(c).pc = c.pc
      /\ q = IF upto # L /\ (EndsWithEol(c.got) \/ stops) THEN Append(c.cuts, L) ELSE c.cuts
  BY DEF Cut, Busy
<1>3. EndsWithEol(c.got) <=> EndsWithEol(SubSeq(c.got, 1, L))
  BY <1>1, SubSeqFull
<1>4. upto = 0 \/ upto \in CutsOf(c)
  <2>1. c.cuts # <<>> => Len(c.cuts) \in DOMAIN c.cuts
    BY <1>1, EmptySeq, LenProperties
  <2> QED
    BY <2>1 DEF CutsOf
<1>5. ASSUME q = Append(c.cuts, L) PROVE CutsOf(Cut(c)) = CutsOf(c) \cup {L}
  <2>1. /\ Len(q) = Len(c.cuts) + 1 /\ q \in Seq(Nat)
        /\ \A i \in 1..Len(c.cuts) : q[i] = c.cuts[i]
        /\ q[Len(c.cuts) + 1] = L
    BY <1>1, <1>5, AppendProperties
  <2>2. DOMAIN q = 1..(Len(c.cuts) + 1) /\ DOMAIN c.cuts = 1..Len(c.cuts)
    BY <1>1, <2>1, LenProperties
  <2> HIDE DEF q
  <2>3. {q[i] : i \in DOMAIN q} = {c.cuts[i] : i \in DOMAIN c.cuts} \cup {L}
    <3>1. \A i \in DOMAIN c.cuts : i \in DOMAIN q /\ q[i] = c.cuts[i]
      BY <1>1, <2>1, <2>2
    <3>2. Len(c.cuts) + 1 \in DOMAIN q
      BY <1>1, <2>2
    <3>3. \A i \in DOMAIN q : i \in DOMAIN c.cuts \/ i = Len(c.cuts) + 1
      BY <1>1, <2>2
    <3> QED
      BY <2>1, <3>1, <3>2, <3>3, ZenonT(40)
  <2> QED
    BY <2>3 DEF CutsOf, q
<1>6. ASSUME q = c.cuts PROVE CutsOf(Cut(c)) = CutsOf(c)
  BY <1>6 DEF CutsOf
<1> HIDE DEF q, upto
<1>7. CASE c.have = 0
  <2>1. CutsOf(c) = EolsUpTo(c.got, L)
    BY <1>1, <1>7
  <2>2. CASE upto = L
    <3>1. c.got # <<>> => L # 0
      BY <1>1, EmptySeq
    <3>2. CutsOf(Cut(c)) = CutsOf(c)
      BY <1>2, <1>6, <2>2
    <3> QED
      BY <1>2, <1>4, <1>7, <2>1, <2>2, <3>1, <3>2
  <2>3. CASE upto # L
    BY <1>2, <1>5, <1>7, <2>1, <2>3
  <2> QED
    BY <2>2, <2>3
<1>8. CASE c.have = 1
  <2>1. L - 1 \in Nat /\ CutsOf(c) = EolsUpTo(c.got, L - 1)
    BY <1>1, <1>8
  <2>2. upto # L
    BY <1>1, <1>4, <2>1 DEF EolsUpTo
  <2>3. EolsUpTo(c.got, L) = IF EndsWithEol(c.got) THEN CutsOf(c) \cup {L} ELSE CutsOf(c)
    <3>1. 1..L = (1..(L - 1)) \cup {L}
      BY <1>1, <2>1
    <3> QED
      BY <1>3, <2>1, <3>1 DEF EolsUpTo
  <2>4. CASE stops
    <3>1. CutsOf(Cut(c)) = CutsOf(c) \cup {L}
      BY <1>2, <1>5, <2>2, <2>4
    <3> QED
      BY <1>2, <2>3, <2>4, <3>1
  <2>5. CASE ~stops
    BY <1>2, <1>5, <1>6, <2>2, <2>3, <2>5
  <2> QED
    BY <2>4, <2>5
<1> QED
  BY <1>1, <1>7, <1>8

\* One step of a line reader.
LEMMA LineOnward ==
    ASSUME NEW t \in Threads, TypeOK, CallsTyped, Places, LinesKnown(call[t]), Step(t),
           call[t].op \in LineReads, call'[t] # Nothing
    PROVE  LinesKnown(call'[t])
<1> DEFINE b == call[t]
<1>1. b \in Busy /\ b # Nothing /\ b.op \in LineReads
  BY StepKinds, NotNothing
<1>2. /\ \A c : Becomes(t, c) => call'[t] = c
      /\ \A c, threw : ~Ends(t, c, threw)
  BY DEF Becomes, Ends, CallsTyped
<1>3. b.pc \notin {"lock", "begin"} => b.have \in {0, 1} /\ b.have <= Len(b.got)
  BY <1>1 DEF LinesKnown
<1>4. /\ Available \in Nat /\ b.have \in Nat /\ b.size \in Nat /\ taken \in Nat
      /\ timeout.read \in Int /\ 0 \in Nat /\ b.got \in Seq(Nat) /\ Len(b.got) \in Nat
      /\ b.cuts \in Seq(Nat) /\ Never \in Int
  BY <1>1, TimeoutsAssumption, LenProperties DEF Available, TypeOK, Busy, Never
<1>5. Asked(b) = 1
  BY <1>1 DEF Asked, LineReads
<1>6. ASSUME Lock(t) PROVE LinesKnown(call'[t])
  <2>1. call'[t].pc \in {"lock", "begin"} /\ call'[t].got = b.got /\ call'[t].cuts = b.cuts
        /\ call'[t].op = b.op /\ b.pc = "lock"
    <3>1. call' = [call EXCEPT ![t].locks = b.locks + 1] =>
              /\ call'[t].got = b.got /\ call'[t].pc = b.pc
              /\ call'[t].cuts = b.cuts /\ call'[t].op = b.op
      BY <1>1 DEF CallsTyped, Busy
    <3> QED
      BY <1>1, <1>2, <1>6, <3>1 DEF Lock, At, Busy
  <2>2. Judged(call'[t]) = Judged(b)
    BY <2>1 DEF Judged
  <2> QED
    BY <2>1, <2>2, SameLines
<1>7. ASSUME ReadBegin(t) PROVE LinesKnown(call'[t])
  <2> DEFINE k == Smaller(Available, Asked(b))
             c == [b EXCEPT !.left = timeout.read, !.have = 0, !.wait = Never, !.pc = "loop"]
  <2>1. k \in {0, 1}
    BY <1>4, <1>5 DEF Smaller
  <2>2. /\ c \in Busy /\ c.got = b.got /\ c.have = 0 /\ c.pc = "loop" /\ c.cuts = b.cuts
        /\ c.op = b.op
    BY <1>1, <1>4 DEF Busy, Stages
  <2>3. call'[t] = Got(c, k)
    BY <1>2, <1>7 DEF ReadBegin, Throws
  <2> HIDE DEF c, k
  <2>4. Judged(c) = Judged(b)
    BY <1>4, <1>7, <2>2 DEF Judged, ReadBegin, At
  <2>5. LinesKnown(c)
    BY <1>4, <2>2, <2>4, SameLines
  <2> QED
    BY <1>4, <2>1, <2>2, <2>3, <2>5, LinesGrow
<1>8. ASSUME Grab(t) PROVE LinesKnown(call'[t])
  <2> DEFINE k == Smaller(Available, Asked(b) - b.have)
             c == [b EXCEPT !.pc = "loop"]
  <2>1. /\ c \in Busy /\ c.got = b.got /\ c.have = b.have /\ c.pc = "loop" /\ c.cuts = b.cuts
        /\ c.op = b.op
    BY <1>1 DEF Busy, Stages
  <2>2. k > 0 /\ call'[t] = Got(c, k)
    BY <1>2, <1>8 DEF Grab, Throws
  <2>3. b.pc = "grab" /\ b.have \in {0, 1} /\ b.have <= Len(b.got)
    BY <1>3, <1>8 DEF Grab, At
  <2>4. k \in Nat /\ b.have + k \in {0, 1}
    BY <1>4, <1>5, <2>2, <2>3 DEF Smaller
  <2> HIDE DEF c, k
  <2>5. Judged(c) = Judged(b)
    BY <2>1, <2>3 DEF Judged
  <2>6. LinesKnown(c)
    BY <2>1, <2>3, <2>5, SameLines
  <2> QED
    BY <1>4, <2>1, <2>2, <2>4, <2>6, LinesGrow
<1>9. ASSUME ReadLoop(t) \/ ReadSelected(t) PROVE LinesKnown(call'[t])
  <2>1. b.pc \in {"loop", "select"} /\ b.have \in {0, 1} /\ b.have <= Len(b.got)
    BY <1>3, <1>9 DEF ReadLoop, ReadSelected, At
  <2>2. /\ call'[t].pc \notin {"lock", "begin"} /\ call'[t].got = b.got
        /\ call'[t].cuts = b.cuts /\ call'[t].op = b.op /\ call'[t].have = b.have
    BY <1>1, <1>2, <1>9 DEF ReadLoop, ReadSelected, Throws, Busy
  <2>3. Judged(call'[t]) = Judged(b)
    BY <2>1, <2>2 DEF Judged
  <2> QED
    BY <2>1, <2>2, <2>3, SameLines
<1>10. ASSUME LineDone(t) PROVE LinesKnown(call'[t])
  <2>1. /\ b.op = "readline" /\ b.pc = "done" /\ b.have # 0 /\ ~EndsWithEol(b.got)
        /\ call'[t] = [b EXCEPT !.pc = "begin"]
    BY <1>2, <1>10 DEF LineDone, At, Is, Returns
  <2>2. call'[t].pc = "begin" /\ call'[t].got = b.got /\ call'[t].op = "readline"
    BY <1>1, <2>1 DEF Busy
  <2>3. b.have = 1 /\ 1 <= Len(b.got)
    BY <1>3, <2>1
  <2>4. EolsUpTo(b.got, Len(b.got) - 1) = {}
    BY <1>1, <2>1, <2>3 DEF LinesKnown, Judged
  <2>5. EolsUpTo(b.got, Len(b.got)) = {}
    <3>1. ~EndsWithEol(SubSeq(b.got, 1, Len(b.got)))
      BY <1>4, <2>1, SubSeqFull
    <3>2. \A n \in 1..Len(b.got) : n \in 1..(Len(b.got) - 1) \/ n = Len(b.got)
      BY <1>4
    <3> QED
      BY <2>4, <3>1, <3>2 DEF EolsUpTo
  <2> QED
    BY <2>2, <2>5 DEF LinesKnown, Judged
<1>11. ASSUME LinesDone(t) PROVE LinesKnown(call'[t])
  <2>1. /\ b.op = "readlines" /\ b.pc = "done" /\ b.have # 0 /\ Len(b.got) # b.size
        /\ call'[t] = [Cut(b) EXCEPT !.pc = "begin"]
    BY <1>2, <1>11 DEF LinesDone, At, Is, Returns
  <2>2. /\ Cut(b).op = b.op /\ Cut(b).got = b.got
        /\ CutsOf(Cut(b)) = EolsUpTo(b.got, Len(b.got))
    BY <1>1, <2>1, CutKnown
  <2>3. /\ call'[t].pc = "begin" /\ call'[t].got = b.got /\ call'[t].op = "readlines"
        /\ call'[t].cuts = Cut(b).cuts
    BY <1>1, <2>1 DEF Cut, Busy
  <2>4. CutsOf(call'[t]) = EolsUpTo(call'[t].got, Judged(call'[t]))
    BY <2>2, <2>3 DEF CutsOf, Judged
  <2> QED
    BY <2>3, <2>4 DEF LinesKnown
<1>12. ~(\/ ReadDone(t) \/ FlushInput(t) \/ Flush(t) \/ FlushOutput(t)
         \/ WriteBegin(t) \/ WriteLoop(t) \/ WriteSelected(t) \/ SetTimeout(t) \/ Set(t)
         \/ Close(t))
  BY <1>1 DEF ReadDone, FlushInput, Flush, FlushOutput, WriteBegin, WriteLoop,
         WriteSelected, SetTimeout, Set, Close, Is, LineReads
<1>13. ~(Put(t) \/ Open(t) \/ Telling(t))
  <2>1. ~(Put(t) \/ Open(t))
    BY <1>1 DEF Put, Open, Is, At, Places, LineReads
  <2>2. ~Telling(t)
    BY <1>1, TellingShape DEF Configuring, Places, LineReads
  <2> QED
    BY <2>1, <2>2
<1> QED
  BY <1>6, <1>7, <1>8, <1>9, <1>10, <1>11, <1>12, <1>13 DEF Step, Reading, Writing, Setting

\* What a line reader returns.
LEMMA LineResults ==
    ASSUME NEW t \in Threads, TypeOK, CallsTyped, Places, LinesKnown(call[t]), Step(t)
    PROVE  \/ result' = result
           \/ \E c, threw : Ends(t, c, threw) /\ (~threw => LineOf(c))
<1> DEFINE b == call[t]
           Goal == \/ result' = result
                   \/ \E c, threw : Ends(t, c, threw) /\ (~threw => LineOf(c))
<1>1. b \in Busy /\ b # Nothing
  BY StepKinds, NotNothing
<1>2. ASSUME NEW c, Becomes(t, c) PROVE Goal
  BY <1>2 DEF Becomes
<1>3. ASSUME Throws(t) PROVE Goal
  BY <1>3 DEF Throws
<1>4. ASSUME NEW c, Returns(t, c), LineOf(c) PROVE Goal
  BY <1>4 DEF Returns
<1>0. b.op \notin LineReads => LineOf(b)
  BY DEF LineOf, LineReads
<1> HIDE DEF Goal
<1>5. ASSUME Lock(t) PROVE Goal
  BY <1>2, <1>5 DEF Lock, Goal
<1>6. ASSUME ReadBegin(t) \/ ReadLoop(t) \/ ReadSelected(t) \/ Grab(t) PROVE Goal
  BY <1>2, <1>3, <1>6 DEF ReadBegin, ReadLoop, ReadSelected, Grab
<1>7. ASSUME ReadDone(t) PROVE Goal
  <2>1. Returns(t, b) /\ b.op \notin LineReads
    BY <1>7 DEF ReadDone, Is, LineReads
  <2> QED
    BY <1>0, <1>4, <2>1
<1>8. ASSUME LineDone(t) PROVE Goal
  <2>1. b.op = "readline" /\ b.pc = "done"
    BY <1>8 DEF LineDone, At, Is
  <2>2. /\ b.have \in {0, 1} /\ EolsUpTo(b.got, Len(b.got) - b.have) = {}
        /\ Len(b.got) \in Nat
    BY <1>1, <2>1, LenProperties DEF LinesKnown, LineReads, Judged, Busy
  <2>3. EolsUpTo(b.got, Len(b.got) - 1) = {}
    BY <2>2 DEF EolsUpTo
  <2>4. LineOf(b)
    BY <2>1, <2>3 DEF LineOf
  <2> QED
    BY <1>2, <1>4, <1>8, <2>4 DEF LineDone
<1>9. ASSUME LinesDone(t) PROVE Goal
  <2>1. b.op = "readlines" /\ b.pc = "done"
    BY <1>9 DEF LinesDone, At, Is
  <2>2. ASSUME Returns(t, Cut(b)), b.have = 0 \/ Len(b.got) = b.size PROVE Goal
    <3>1. DOMAIN b.got = 1..Len(b.got)
      BY <1>1, LenProperties DEF Busy
    <3>2. EolsUpTo(b.got, Len(b.got)) = {n \in DOMAIN b.got : EndsWithEol(SubSeq(b.got, 1, n))}
      BY <3>1 DEF EolsUpTo
    <3>3. LineOf(Cut(b))
      BY <1>1, <2>1, <2>2, <3>2, CutKnown DEF LineOf
    <3> QED
      BY <1>4, <2>2, <3>3
  <2> QED
    BY <1>2, <1>9, <2>2 DEF LinesDone
<1>10. ASSUME FlushInput(t) \/ Flush(t) \/ FlushOutput(t) \/ WriteBegin(t) \/ WriteLoop(t)
            \/ WriteSelected(t) \/ SetTimeout(t) \/ Set(t) PROVE Goal
  <2>1. LineOf(b)
    BY <1>0, <1>10 DEF FlushInput, Flush, FlushOutput, WriteBegin, WriteLoop, WriteSelected,
                 SetTimeout, Set, Is, LineReads
  <2> QED
    BY <1>2, <1>3, <1>4, <1>10, <2>1
       DEF FlushInput, Flush, FlushOutput, WriteBegin, WriteLoop, WriteSelected, SetTimeout, Set
<1>11. ASSUME Put(t) PROVE Goal
  BY <1>2, <1>3, <1>11 DEF Put
<1>12. ASSUME Open(t) \/ Close(t) PROVE Goal
  <2>1. LineOf(b)
    BY <1>0, <1>1, <1>12 DEF Open, Close, Is, At, Places, LineReads
  <2> QED
    BY <1>2, <1>3, <1>4, <1>12, <2>1 DEF Open, OpenIt, Close, CloseIt
<1>13. ASSUME Telling(t) PROVE Goal
  <2>1. LineOf(b)
    BY <1>0, <1>1, <1>13, TellingShape DEF Configuring, Places, LineReads
  <2> QED
    BY <1>2, <1>3, <1>4, <1>13, <2>1, TellingShape
<1> QED
  BY <1>5, <1>6, <1>7, <1>8, <1>9, <1>10, <1>11, <1>12, <1>13
     DEF Step, Reading, Writing, Setting, Goal

LEMMA ReadersKnowKept ==
    ASSUME TypeOK, CallsTyped, Places, ReadersKnow, [Next]_vars
    PROVE  ReadersKnow'
<1>1. ASSUME NEW t \in Threads, Invoke(t) PROVE ReadersKnow'
  <2>1. PICK c \in Busy : call' = [call EXCEPT ![t] = c] /\ c.got = <<>> /\ c.pc = "lock"
                          /\ c.cuts = <<>>
    BY <1>1, InvokeShape
  <2>2. CutsOf(c) = {} /\ EolsUpTo(c.got, Judged(c)) = {}
    BY <2>1 DEF CutsOf, EolsUpTo, Judged
  <2>3. LinesKnown(c)
    BY <2>1, <2>2 DEF LinesKnown
  <2> QED
    BY <2>1, <2>3 DEF CallsTyped, ReadersKnow
<1>2. ASSUME NEW t \in Threads, Step(t) PROVE ReadersKnow'
  <2>1. call[t] \in Busy /\ call[t] # Nothing /\ (Takes(t) \/ Goes(t) \/ Leaves(t))
    BY <1>2, StepKinds, NotNothing
  <2>2. \A u \in Threads \ {t} : call'[u] = call[u]
    BY <2>1 DEF Takes, Goes, Leaves, CallsTyped
  <2>3. call'[t] # Nothing => call'[t].op = call[t].op
    BY <2>1 DEF Takes, Goes, Leaves, CallsTyped, Busy
  <2>4. call'[t] # Nothing => LinesKnown(call'[t])
    <3>1. CASE call[t].op \in LineReads
      BY <1>2, <2>1, <3>1, LineOnward DEF ReadersKnow
    <3>2. CASE call[t].op \notin LineReads
      BY <2>3, <3>2 DEF LinesKnown
    <3> QED
      BY <3>1, <3>2
  <2> QED
    BY <2>2, <2>4 DEF ReadersKnow
<1>3. CASE Tick
  <2> SUFFICES ASSUME NEW u \in Threads, call'[u] # Nothing PROVE LinesKnown(call'[u])
    BY DEF ReadersKnow
  <2>1. /\ call[u] # Nothing
        /\ call'[u].op = call[u].op /\ call'[u].pc = call[u].pc /\ call'[u].got = call[u].got
        /\ call'[u].have = call[u].have /\ call'[u].cuts = call[u].cuts
    BY <1>3, TickShape
  <2>2. LinesKnown(call[u]) /\ Judged(call'[u]) = Judged(call[u])
    BY <2>1 DEF ReadersKnow, Judged
  <2> QED
    BY <2>1, <2>2 DEF LinesKnown, CutsOf
<1>4. CASE call' = call
  BY <1>4 DEF ReadersKnow
<1> QED
  BY <1>1, <1>2, <1>3, <1>4, Steps

LEMMA LinesKept ==
    ASSUME TypeOK, CallsTyped, Places, ResultKnown, ReadersKnow,
           \A t \in Threads : LineOf(result[t]), [Next]_vars
    PROVE  \A t \in Threads : LineOf(result'[t])
<1>1. ASSUME NEW t \in Threads, NEW r, result' = [result EXCEPT ![t] = r], LineOf(r)
      PROVE  \A u \in Threads : LineOf(result'[u])
  <2>1. result'[t] = r /\ \A u \in Threads \ {t} : result'[u] = result[u]
    BY <1>1 DEF ResultKnown
  <2> QED
    BY <1>1, <2>1
<1>2. LineOf(Nothing)
  BY DEF LineOf, Nothing
<1>3. ASSUME NEW t \in Threads, Invoke(t) PROVE \A u \in Threads : LineOf(result'[u])
  BY <1>1, <1>2, <1>3 DEF Invoke
<1>4. ASSUME NEW t \in Threads, Step(t) PROVE \A u \in Threads : LineOf(result'[u])
  <2>1. LinesKnown(call[t])
    <3>1. call[t] # Nothing
      BY <1>4, StepKinds, NotNothing
    <3> QED
      BY <3>1 DEF ReadersKnow
  <2>2. CASE result' = result
    BY <2>2
  <2>3. CASE \E c, threw : Ends(t, c, threw) /\ (~threw => LineOf(c))
    <3>1. PICK c, threw : Ends(t, c, threw) /\ (~threw => LineOf(c))
      BY <2>3
    <3> DEFINE r == [op |-> c.op, size |-> c.size, got |-> c.got, cuts |-> c.cuts, left |-> c.left]
    <3>2. CASE threw \/ c.op \notin Reads
      BY <1>1, <1>2, <3>1, <3>2 DEF Ends
    <3>3. CASE ~(threw \/ c.op \notin Reads)
      <4>1. result' = [result EXCEPT ![t] = r]
        BY <3>1, <3>3 DEF Ends
      <4>2. r.op = c.op /\ r.got = c.got /\ r.cuts = c.cuts
        OBVIOUS
      <4> HIDE DEF r
      <4>3. LineOf(r)
        BY <3>1, <3>3, <4>2 DEF LineOf, CutsOf
      <4> QED
        BY <1>1, <4>1, <4>3
    <3> QED
      BY <3>2, <3>3
  <2> QED
    BY <1>4, <2>1, <2>2, <2>3, LineResults
<1>5. CASE Arrives \/ Drain \/ Unplugged \/ Tick \/ UNCHANGED vars
  BY <1>5 DEF Arrives, Drain, Unplugged, Tick, vars
<1> QED
  BY <1>3, <1>4, <1>5 DEF Next

\* The lines of readlines() are what was read, cut after each delimiter and where the
\* reading stopped, and readline() stops at its first delimiter, whatever the delimiter,
\* the sizes and the pace at which the bytes arrive.
THEOREM LinesEndWhereTheyShould == Spec => []LinesEndAtEol
<1> DEFINE LInv == ReadersKnow /\ \A t \in Threads : LineOf(result[t])
<1>1. Init => LInv
  <2> SUFFICES ASSUME Init PROVE LInv
    OBVIOUS
  <2>1. \A t \in Threads : call[t] = Nothing /\ result[t] = Nothing
    BY DEF Init
  <2>2. LineOf(Nothing)
    BY DEF LineOf, Nothing
  <2> QED
    BY <2>1, <2>2 DEF ReadersKnow
<1>2. IInv /\ LInv /\ [Next]_vars => LInv'
  <2> SUFFICES ASSUME IInv, LInv, [Next]_vars PROVE LInv'
    OBVIOUS
  <2>1. ReadersKnow'
    BY ReadersKnowKept DEF IInv
  <2>2. \A t \in Threads : LineOf(result'[t])
    BY LinesKept DEF IInv
  <2> QED
    BY <2>1, <2>2
<1>3. LInv /\ IInv => LinesEndAtEol
  <2> SUFFICES ASSUME LInv, NEW t \in Threads
               PROVE  LET r == result[t] IN
                      /\ r.op = "readlines" /\ r.got # <<>> =>
                             {r.cuts[i] : i \in DOMAIN r.cuts} =
                                 {Len(r.got)} \cup {n \in DOMAIN r.got : EndsWithEol(SubSeq(r.got, 1, n))}
                      /\ r.op = "readline" =>
                             \A n \in 1..(Len(r.got) - 1) : ~EndsWithEol(SubSeq(r.got, 1, n))
    BY DEF LinesEndAtEol
  <2> DEFINE r == result[t]
  <2>1. LineOf(r)
    OBVIOUS
  <2> QED
    BY <2>1 DEF LineOf, CutsOf, EolsUpTo
<1> QED
  BY <1>1, <1>2, <1>3, Invariance, PTL DEF Spec

=============================================================================
