------------------------------ MODULE DataLogger ------------------------------
(***************************************************************************)
(* chcnav_data_logger: a subscription per topic writes blocks of lines     *)
(* into a TextSink; a timer flushes all sinks; a sink that has grown past  *)
(* a size goes on in a new part.  The node may be stopped or killed at any *)
(* time and started again, in a new session directory or, within the same  *)
(* second, in the one of the run before.                                   *)
(*                                                                         *)
(* A block is known by its run, sink and number; its size is its number of *)
(* lines.  The stream of a sink holds blocks back until it spills, is      *)
(* flushed or closed.  A refused drain (disk full, I/O error) may have put *)
(* some blocks on disk and keeps all of them for the next attempt.  Blocks *)
(* cut in two count as not written.                                        *)
(***************************************************************************)
EXTENDS Integers, Sequences, SequencesExt, TLC

CONSTANTS
    Settings,    \* parameters the node may be started with, and how often it is (bound)
    RotateSize,  \* rotate_bytes_, in lines
    MaxBlocks,   \* bound: blocks a sink is given in a run
    MaxEvents    \* bound: changes of the clock and of the disk's health

ASSUME BoundsAssumption ==
    RotateSize \in Nat \ {0} /\ MaxBlocks \in Nat /\ MaxEvents \in Nat

Names == {"devpvt", "devimu", "hc_sentence", "nmea_sentence", "bestpos", "heading",
          "odometry", "velocity"}
Spellings == {"", "/", "/chcnav/"}
Tokens == [prefix : Spellings, name : Names \cup {"unknown"}]
ASSUME SettingsAssumption ==
    Settings \subseteq [topics : Seq(Tokens), full : BOOLEAN, rosout : BOOLEAN, runs : Nat]

VARIABLES
    up,        \* "down" (not started, or killed), "boot", "up", "stopping", "closing",
               \* "stopped"
    run,       \* how often the node was started
    setting,   \* its parameters
    todo,      \* topics the constructor has yet to add
    dir,       \* session_dir_: the second of the start, or 0 for none
    sinks,     \* events_, then the sinks of topic_loggers_
    fresh,     \* blocks taken since the last flushAll, as <<sink, number>>
    disk,      \* what each file holds
    latest,    \* where the link "latest" points, or 0
    second,    \* the clock, as far as session names show it
    healthy,   \* no drain, open or mkdir fails
    troubled,  \* healthy was FALSE at some time
    events     \* how often the clock or the disk has changed

process == <<up, run, setting, todo, dir>>
outside == <<second, healthy, troubled, events>>
vars == <<process, sinks, fresh, disk, latest, outside>>

Unasked == events < MaxEvents /\ events' = events + 1

-----------------------------------------------------------------------------
(* TextSink *)

NewSink(base) ==
    [base |-> base, open |-> FALSE, buf |-> <<>>, bad |-> FALSE, failed |-> FALSE,
     written |-> 0, part |-> 1, count |-> 0]

FileName(s) == <<dir, sinks[s].base, sinks[s].part>>

\* What a drain of the blocks q puts on disk and leaves in the stream.  A disk that
\* has refused once (bad) takes nothing until it takes all.
Drained(q) == [out |-> q, left |-> <<>>, ok |-> TRUE]
Refused(q, bad) ==
    {[out |-> SubSeq(q, 1, i), left |-> q, ok |-> FALSE] : i \in IF bad THEN {0} ELSE 0..(Len(q) - 1)}
Drain(q, bad) ==
    {Drained(q)} \cup (IF healthy \/ q = <<>> THEN {} ELSE Refused(q, bad))

\* A block goes into the stream, which spills when it is full.
Put(q, block) ==
    LET all == Append(q, block) IN
    {[out |-> SubSeq(all, 1, i), left |-> SubSeq(all, i + 1, Len(all)), ok |-> TRUE] :
        i \in 0..Len(all)}
    \cup (IF healthy THEN {} ELSE Refused(all, FALSE))

\* flush() and then close(), which drains once more what the flush has left.
FlushThenClose(q, bad) ==
    UNION {{[out |-> first.out \o again.out] : again \in Drain(first.left, TRUE)} :
           first \in Drain(q, bad)}

\* (Faulty: the file is truncated.)
OpenedTruncated(file) ==
    [f \in DOMAIN disk \cup {file} |-> IF f = file THEN <<>> ELSE disk[f]]
\* (Faulty: a file without a block of this run is started anew.)
OpenedAnew(file) ==
    [f \in DOMAIN disk \cup {file} |->
        IF f \in DOMAIN disk /\ (f = file => \E i \in DOMAIN disk[f] : disk[f][i].run = run)
        THEN disk[f] ELSE <<>>]
\* Opened in append mode: what the file holds stays.
Opened(file) ==
    [f \in DOMAIN disk \cup {file} |-> IF f \in DOMAIN disk THEN disk[f] ELSE <<>>]

Wrote(files, file, blocks) == [files EXCEPT ![file] = @ \o blocks]

\* (Faulty: a part that has just reached the limit goes on.)
RotatesPast(written) == written > RotateSize
Rotates(written) == written >= RotateSize

\* write() into an open stream, and the rotation.
PutAndRotate(s, sink, files, block) ==
    \E p \in IF sink.bad THEN Refused(Append(sink.buf, block), TRUE) ELSE Put(sink.buf, block) :
        LET now == Wrote(files, FileName(s), p.out)
            put == [sink EXCEPT !.buf = p.left, !.written = @ + block.size, !.failed = ~p.ok]
        IN IF p.ok /\ Rotates(put.written)
           THEN \E c \in FlushThenClose(p.left, FALSE) :
                    /\ disk' = Wrote(now, FileName(s), c.out)
                    /\ sinks' = [sinks EXCEPT ![s] =
                           [put EXCEPT !.open = FALSE, !.buf = <<>>, !.part = @ + 1,
                                       !.written = 0]]
           ELSE disk' = now /\ sinks' = [sinks EXCEPT ![s] = put]

\* A sink that has failed takes nothing; one that cannot be opened fails.
\* The headLine has counted the block before.
Write(s, size) ==
    LET sink == [sinks[s] EXCEPT !.count = @ + 1]
        block == [run |-> run, sink |-> s, n |-> sink.count, size |-> size]
    IN /\ sink.count <= MaxBlocks
       /\ fresh' = fresh \cup {<<s, sink.count>>}
       /\ \/ /\ sink.failed
             /\ sinks' = [sinks EXCEPT ![s] = sink]
             /\ UNCHANGED disk
          \/ /\ ~sink.failed /\ ~sink.open /\ ~healthy
             /\ sinks' = [sinks EXCEPT ![s] = [sink EXCEPT !.failed = TRUE]]
             /\ UNCHANGED disk
          \/ /\ ~sink.failed /\ ~sink.open
             /\ PutAndRotate(s, [sink EXCEPT !.open = TRUE, !.bad = FALSE],
                             Opened(FileName(s)), block)
          \/ /\ ~sink.failed /\ sink.open
             /\ PutAndRotate(s, sink, disk, block)

\* The streams flushAll() drains: events_ and those of topic_loggers_ that are open.
\* (Faulty: events_ only.)
FlushedEvents == {s \in DOMAIN sinks : sinks[s].open /\ s = 1}
Flushed == {s \in DOMAIN sinks : sinks[s].open}

\* A refusal only shows in the state of the stream.
FlushSinks ==
    \E d \in [Flushed -> UNION {Drain(sinks[s].buf, sinks[s].bad \/ sinks[s].failed) : s \in Flushed}] :
        /\ \A s \in Flushed : d[s] \in Drain(sinks[s].buf, sinks[s].bad \/ sinks[s].failed)
        /\ sinks' = [s \in DOMAIN sinks |->
               IF s \in Flushed
               THEN [sinks[s] EXCEPT !.buf = d[s].left, !.bad = @ \/ ~d[s].ok] ELSE sinks[s]]
        /\ disk' = [file \in DOMAIN disk |-> disk[file] \o
               FlattenSeq([s \in DOMAIN sinks |->
                   IF s \in Flushed /\ file = FileName(s) THEN d[s].out ELSE <<>>])]
        /\ fresh' = {}

\* The destructor of a sink: flush() and close().
CloseSink(s) ==
    /\ sinks[s].open
    /\ \E c \in FlushThenClose(sinks[s].buf, sinks[s].bad \/ sinks[s].failed) :
           /\ disk' = Wrote(disk, FileName(s), c.out)
           /\ sinks' = [sinks EXCEPT ![s].open = FALSE, ![s].buf = <<>>]
    /\ UNCHANGED <<process, fresh, latest, outside>>

-----------------------------------------------------------------------------
(* The constructor *)

MakeDirsMayFail == ~healthy
UpdateLatestLink == latest' = second

\* The session directory and the link "latest"; events_ without a line yet.
Start ==
    /\ up \in {"down", "stopped"} /\ run < setting.runs
    /\ run' = run + 1 /\ fresh' = {}
    /\ \/ /\ dir' = second /\ UpdateLatestLink
          /\ todo' = setting.topics
          /\ sinks' = <<NewSink("events")>>
          /\ up' = "boot"
       \/ /\ MakeDirsMayFail \* the node lives on, without a subscription
          /\ dir' = 0 /\ todo' = <<>> /\ sinks' = <<>>
          /\ up' = "up"
          /\ UNCHANGED latest
    /\ UNCHANGED <<setting, disk, outside>>

\* A line of events.log.
Event == Write(1, 1)

FirstEvent ==
    /\ up = "boot" /\ sinks[1].count = 0
    /\ Event
    /\ UNCHANGED <<process, latest, outside>>

\* findSpec: the short name or the topic, with or without a leading '/'.
Known(token) == token.name \in Names

\* addTopic: twice the same topic makes two sinks of one file.
AddTopic ==
    /\ up = "boot" /\ sinks[1].count > 0 /\ todo # <<>>
    /\ todo' = Tail(todo)
    /\ \/ /\ Known(Head(todo))
          /\ sinks' = Append(sinks, NewSink(Head(todo).name))
          /\ UNCHANGED <<fresh, disk>>
       \/ /\ ~Known(Head(todo))
          /\ Event
    /\ UNCHANGED <<up, run, setting, dir, latest, outside>>

Ready ==
    /\ up = "boot" /\ sinks[1].count > 0 /\ todo = <<>>
    /\ up' = "up"
    /\ UNCHANGED <<run, setting, todo, dir, sinks, fresh, disk, latest, outside>>

-----------------------------------------------------------------------------
(* The callbacks, one at a time: spin() is single-threaded *)

\* A headline, the lines every style has, those only "full" has, an empty line.
WriteBlock(name, lines, more) ==
    /\ up = "up"
    /\ \E s \in DOMAIN sinks \ {1} :
           /\ sinks[s].base = name
           /\ Write(s, 2 + lines + (IF setting.full THEN more ELSE 0))
    /\ UNCHANGED <<process, latest, outside>>

OnDevpvt == WriteBlock("devpvt", 12, 9)
OnDevimu == WriteBlock("devimu", 5, 0)
OnHcSentence == WriteBlock("hc_sentence", 3, 0)
OnNmea == WriteBlock("nmea_sentence", 1, 0)
OnBestpos == WriteBlock("bestpos", 5, 3)
OnHeading == WriteBlock("heading", 4, 3)
OnOdometry == WriteBlock("odometry", 6, 2)
OnVelocity == WriteBlock("velocity", 4, 0)

\* A message of /rosout at WARN or above; those below leave no trace.
OnRosout ==
    /\ up = "up" /\ setting.rosout /\ dir # 0
    /\ Event
    /\ UNCHANGED <<process, latest, outside>>

FlushAll ==
    /\ up = "up" /\ dir # 0
    /\ FlushSinks
    /\ UNCHANGED <<process, latest, outside>>

-----------------------------------------------------------------------------
(* The end of a run *)

\* The destructor of the node: a last event, flushAll(), then the sinks close.
Stop ==
    /\ up = "up"
    /\ up' = IF dir = 0 THEN "stopped" ELSE "stopping"
    /\ IF dir = 0 \/ sinks[1].count = MaxBlocks THEN UNCHANGED <<sinks, fresh, disk>> ELSE Event
    /\ UNCHANGED <<run, setting, todo, dir, latest, outside>>

FlushAtExit ==
    /\ up = "stopping"
    /\ FlushSinks
    /\ up' = "closing"
    /\ UNCHANGED <<run, setting, todo, dir, latest, outside>>

CloseAtExit == up = "closing" /\ \E s \in DOMAIN sinks : CloseSink(s)

Stopped ==
    /\ up = "closing" /\ \A s \in DOMAIN sinks : ~sinks[s].open
    /\ up' = "stopped"
    /\ UNCHANGED <<run, setting, todo, dir, sinks, fresh, disk, latest, outside>>

\* Killed: what the streams hold is gone.
Crash ==
    /\ up \in {"boot", "up", "stopping", "closing"}
    /\ up' = "down"
    /\ sinks' = <<>> /\ fresh' = {}
    /\ UNCHANGED <<run, setting, todo, dir, disk, latest, outside>>

-----------------------------------------------------------------------------
(* What happens around the node *)

NextSecond ==
    /\ Unasked
    /\ second' = second + 1
    /\ UNCHANGED <<process, sinks, fresh, disk, latest, healthy, troubled>>

DiskChanges ==
    /\ Unasked
    /\ healthy' = ~healthy
    /\ troubled' = TRUE
    /\ UNCHANGED <<process, sinks, fresh, disk, latest, second>>

Init ==
    /\ up = "down" /\ run = 0 /\ setting \in Settings /\ todo = <<>> /\ dir = 0
    /\ sinks = <<>> /\ fresh = {} /\ disk = <<>> /\ latest = 0
    /\ second = 1 /\ healthy = TRUE /\ troubled = FALSE /\ events = 0

Callbacks == OnDevpvt \/ OnDevimu \/ OnHcSentence \/ OnNmea \/ OnBestpos \/ OnHeading
             \/ OnOdometry \/ OnVelocity \/ OnRosout

Next ==
    \/ Start \/ FirstEvent \/ AddTopic \/ Ready
    \/ Callbacks \/ FlushAll
    \/ Stop \/ FlushAtExit \/ CloseAtExit \/ Stopped \/ Crash
    \/ NextSecond \/ DiskChanges

\* The constructor runs on, the executor keeps running the timer's callback, and an
\* exit is finished.
Spec == Init /\ [][Next]_vars
FairSpec ==
    /\ Spec
    /\ WF_vars(FirstEvent) /\ WF_vars(AddTopic) /\ WF_vars(Ready)
    /\ WF_vars(FlushAll) /\ WF_vars(FlushAtExit) /\ WF_vars(CloseAtExit)

-----------------------------------------------------------------------------
(* Properties *)

\* What the process holds of the files it writes.
Blocks == [run : Nat, sink : Nat, n : Nat, size : Nat]
Sinks == [base : Names \cup {"events"}, open : BOOLEAN, buf : Seq(Blocks), bad : BOOLEAN,
          failed : BOOLEAN, written : Nat, part : Nat, count : Nat]
TypeOK ==
    /\ up \in {"down", "boot", "up", "stopping", "closing", "stopped"}
    /\ setting \in Settings /\ todo \in Seq(Tokens) /\ sinks \in Seq(Sinks)
    /\ {run, dir, latest, second} \subseteq Nat
    /\ \A s \in DOMAIN sinks :
           /\ sinks[s].written < RotateSize \/ sinks[s].failed
           /\ sinks[s].open => FileName(s) \in DOMAIN disk
           /\ ~sinks[s].open => sinks[s].buf = <<>>

\* The places of this run's blocks of sink s: index i of part p, or index i of the
\* stream, which counts as the part after the last.
FileOf(file) == IF file \in DOMAIN disk THEN disk[file] ELSE <<>>
Part(s, p) == FileOf(<<dir, sinks[s].base, p>>)
Mine(s, b) == b.run = run /\ b.sink = s
Places(s) ==
    (UNION {{p} \X {i \in DOMAIN Part(s, p) : Mine(s, Part(s, p)[i])} : p \in 1..sinks[s].part})
    \cup ({sinks[s].part + 1} \X DOMAIN sinks[s].buf)
Number(s, q) ==
    (IF q[1] <= sinks[s].part THEN Part(s, q[1])[q[2]] ELSE sinks[s].buf[q[2]]).n
Before(q, r) == q[1] < r[1] \/ (q[1] = r[1] /\ q[2] < r[2])

\* On a healthy disk every block of this run is written once and in order, across
\* spills, rotations and two sinks of one file, also in files that an earlier run has
\* left; after a stop nothing is left in a stream.
WrittenOnceInOrder ==
    ~troubled => \A s \in DOMAIN sinks :
        /\ {Number(s, q) : q \in Places(s)} = 1..sinks[s].count
        /\ \A q, r \in Places(s) : Before(q, r) => Number(s, q) < Number(s, r)
        /\ up = "stopped" => sinks[s].buf = <<>>

\* What is on disk stays there, at its place: no step takes or moves a block of this
\* run or an earlier one, not even one that opens an old file again, closes, rotates or
\* writes to a disk that refuses.
FilesOnlyGrow ==
    [][\A file \in DOMAIN disk : file \in DOMAIN disk' /\ IsPrefix(disk[file], disk'[file])]_vars

\* A kill loses what came since the last flush and no more: a stream that has not
\* been refused holds nothing older.
HeldIsFresh ==
    \A s \in DOMAIN sinks : ~sinks[s].bad /\ ~sinks[s].failed =>
        \A i \in DOMAIN sinks[s].buf : <<s, sinks[s].buf[i].n>> \in fresh

\* The timer empties the streams again and again, unless the node has ended or the
\* disk has failed: no block waits for ever.
EventuallyWritten ==
    []<>(troubled \/ up \in {"down", "stopped"} \/ \A s \in DOMAIN sinks : sinks[s].buf = <<>>)

=============================================================================
