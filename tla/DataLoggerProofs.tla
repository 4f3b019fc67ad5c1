--------------------------- MODULE DataLoggerProofs ---------------------------
(***************************************************************************)
(* For any topics, size of a part, number of blocks, runs and refusals of  *)
(* the disk: the sinks are well formed, and a kill takes no block older    *)
(* than the last flush from a sink that has not been refused.  While the   *)
(* disk works, each block is written once and in order: that is shown of   *)
(* any files and sinks first, one kind of change after the other, and then *)
(* of the actions.  What is on disk stays there, whatever the disk does.   *)
(***************************************************************************)
EXTENDS DataLogger, TLAPS, SequenceTheorems, NaturalsInduction, WellFoundedInduction

-----------------------------------------------------------------------------
(* The inductive invariant *)

\* The sink k as number s of a process that writes to the directory d, when the
\* files exist and the blocks of f have come since the last flush.
SinkSound(k, s, d, files, f) ==
    /\ k \in Sinks
    /\ k.written < RotateSize \/ k.failed
    /\ k.open => <<d, k.base, k.part>> \in files
    /\ ~k.open => k.buf = <<>>
    /\ ~k.bad /\ ~k.failed => \A i \in DOMAIN k.buf : <<s, k.buf[i].n>> \in f

AllSound ==
    /\ sinks \in Seq(Sinks)
    /\ \A s \in DOMAIN sinks : SinkSound(sinks[s], s, dir, DOMAIN disk, fresh)

\* A process with a session directory has its events_.
HasEvents == up \in {"boot", "stopping", "closing"} \/ (up = "up" /\ dir # 0) => sinks # <<>>

ProcessTyped ==
    /\ up \in {"down", "boot", "up", "stopping", "closing", "stopped"}
    /\ setting \in Settings /\ todo \in Seq(Tokens)
    /\ run \in Nat /\ dir \in Nat /\ latest \in Nat /\ second \in Nat

Inv == ProcessTyped /\ HasEvents /\ AllSound

-----------------------------------------------------------------------------
(* What a stream holds *)

\* A refused block stays with those before it.
LEMMA RefusedKeeps ==
    ASSUME NEW q, NEW bad, NEW p \in Refused(q, bad)
    PROVE  p.left = q /\ p.ok = FALSE
<1>1. PICK i : p = [out |-> SubSeq(q, 1, i), left |-> q, ok |-> FALSE]
  BY DEF Refused
<1> QED
  BY <1>1

LEMMA DrainLeaves ==
    ASSUME NEW q \in Seq(Blocks), NEW bad, NEW d \in Drain(q, bad)
    PROVE  d.left \in {q, <<>>} /\ d.ok \in BOOLEAN /\ (d.ok => d.left = <<>>)
<1>1. CASE d = Drained(q)
  BY <1>1 DEF Drained
<1>2. CASE d \in Refused(q, bad)
  BY <1>2, RefusedKeeps
<1> QED
  BY <1>1, <1>2 DEF Drain

LEMMA PutKeeps ==
    ASSUME NEW q \in Seq(Blocks), NEW block \in Blocks, NEW p \in Put(q, block)
    PROVE  /\ p.left \in Seq(Blocks) /\ p.ok \in BOOLEAN
           /\ \A i \in DOMAIN p.left :
                  p.left[i] = block \/ \E j \in DOMAIN q : p.left[i] = q[j]
<1> DEFINE all == Append(q, block)
<1>1. /\ all \in Seq(Blocks) /\ Len(all) = Len(q) + 1
      /\ \A i \in 1..Len(q) : all[i] = q[i]
      /\ all[Len(q) + 1] = block
  BY AppendProperties
<1>2. Len(q) \in Nat /\ DOMAIN q = 1..Len(q)
  BY LenProperties
<1>3. \A i \in 1..Len(all) : all[i] = block \/ \E j \in DOMAIN q : all[i] = q[j]
  BY <1>1, <1>2
<1>4. CASE p \in Refused(all, FALSE)
  <2>1. p.left = all /\ p.ok = FALSE
    BY <1>4, RefusedKeeps, Zenon
  <2>2. DOMAIN all = 1..Len(all)
    BY <1>1, LenProperties
  <2> HIDE DEF all
  <2> QED
    BY <1>1, <1>3, <2>1, <2>2
<1>5. ASSUME NEW i \in 0..Len(all), p.left = SubSeq(all, i + 1, Len(all)), p.ok = TRUE
      PROVE  /\ p.left \in Seq(Blocks) /\ p.ok \in BOOLEAN
             /\ \A j \in DOMAIN p.left :
                    p.left[j] = block \/ \E u \in DOMAIN q : p.left[j] = q[u]
  <2>1. Len(all) \in Nat /\ i \in Nat /\ i <= Len(all)
    BY <1>1, <1>2
  <2>2. \A j \in (i + 1)..Len(all) : all[j] \in Blocks
    BY <1>1, <2>1, ElementOfSeq
  <2>3. /\ p.left \in Seq(Blocks)
        /\ Len(p.left) = Len(all) - i
        /\ \A j \in 1..(Len(all) - i) : p.left[j] = all[i + j]
    BY <1>5, <2>1, <2>2, <1>1, SubSeqProperties
  <2>4. DOMAIN p.left = 1..(Len(all) - i)
    BY <2>3, LenProperties
  <2>5. \A j \in 1..(Len(all) - i) : i + j \in 1..Len(all)
    BY <2>1
  <2> HIDE DEF all
  <2> QED
    BY <1>3, <1>5, <2>3, <2>4, <2>5
<1>6. CASE p \notin Refused(all, FALSE)
  <2>1. PICK i \in 0..Len(all) :
            p = [out |-> SubSeq(all, 1, i), left |-> SubSeq(all, i + 1, Len(all)), ok |-> TRUE]
    BY <1>6, Zenon DEF Put
  <2>2. p.left = SubSeq(all, i + 1, Len(all)) /\ p.ok = TRUE
    BY <2>1
  <2> QED
    BY <1>5, <2>2
<1> QED
  BY <1>4, <1>6

-----------------------------------------------------------------------------
(* What a write does to a sink *)

\* The sink is replaced by a sound one, the other sinks are left alone, and no
\* file goes away.
Replaces(s, f) ==
    /\ \E k : /\ sinks' = [sinks EXCEPT ![s] = k]
              /\ SinkSound(k, s, dir, DOMAIN disk', f)
    /\ DOMAIN disk \subseteq DOMAIN disk'

LEMMA SinkTurned ==
    ASSUME NEW k \in Sinks
    PROVE  LET turned == [k EXCEPT !.open = FALSE, !.buf = <<>>, !.part = @ + 1, !.written = 0]
           IN  /\ turned \in Sinks /\ ~turned.open /\ turned.buf = <<>> /\ turned.written = 0
<1> DEFINE next == k.part + 1
<1>1. <<>> \in Seq(Blocks)
  BY EmptySeq
<1>2. next \in Nat
  BY DEF Sinks
<1> HIDE DEF next
<1>3. LET turned == [k EXCEPT !.open = FALSE, !.buf = <<>>, !.part = next, !.written = 0]
      IN  /\ turned \in Sinks /\ ~turned.open /\ turned.buf = <<>> /\ turned.written = 0
  BY <1>1, <1>2 DEF Sinks
<1> QED
  BY <1>3 DEF next

LEMMA PutAndRotateSound ==
    ASSUME NEW s \in DOMAIN sinks, NEW sink \in Sinks, NEW files, NEW block \in Blocks, NEW f,
           RotateSize \in Nat \ {0},
           sink.base = sinks[s].base, sink.part = sinks[s].part, sink.open,
           FileName(s) \in DOMAIN files, DOMAIN disk \subseteq DOMAIN files,
           ~sink.bad => \A i \in DOMAIN sink.buf : <<s, sink.buf[i].n>> \in f,
           <<s, block.n>> \in f,
           PutAndRotate(s, sink, files, block)
    PROVE  Replaces(s, f)
<1>1. PICK p \in IF sink.bad THEN Refused(Append(sink.buf, block), TRUE)
                             ELSE Put(sink.buf, block) :
          LET now == Wrote(files, FileName(s), p.out)
              put == [sink EXCEPT !.buf = p.left, !.written = @ + block.size, !.failed = ~p.ok]
          IN IF p.ok /\ Rotates(put.written)
             THEN \E c \in FlushThenClose(p.left, FALSE) :
                      /\ disk' = Wrote(now, FileName(s), c.out)
                      /\ sinks' = [sinks EXCEPT ![s] =
                             [put EXCEPT !.open = FALSE, !.buf = <<>>, !.part = @ + 1,
                                         !.written = 0]]
             ELSE disk' = now /\ sinks' = [sinks EXCEPT ![s] = put]
  BY DEF PutAndRotate
<1> DEFINE put == [sink EXCEPT !.buf = p.left, !.written = @ + block.size, !.failed = ~p.ok]
           turned == [put EXCEPT !.open = FALSE, !.buf = <<>>, !.part = @ + 1, !.written = 0]
<1>2. /\ sink.buf \in Seq(Blocks) /\ sink.bad \in BOOLEAN /\ sink.written \in Nat
      /\ sink.part \in Nat /\ block.size \in Nat
  BY DEF Sinks, Blocks
<1>3. p.left \in Seq(Blocks) /\ p.ok \in BOOLEAN /\ (sink.bad => ~p.ok)
  <2>1. CASE sink.bad
    <3>1. Append(sink.buf, block) \in Seq(Blocks)
      BY <1>2, AppendProperties
    <3>2. p.left = Append(sink.buf, block) /\ p.ok = FALSE
      BY <1>1, <2>1, RefusedKeeps, Zenon
    <3> QED
      BY <3>1, <3>2
  <2>2. CASE ~sink.bad
    <3>1. p \in Put(sink.buf, block)
      BY <1>1, <2>2
    <3> QED
      BY <1>2, <2>2, <3>1, PutKeeps
  <2> QED
    BY <2>1, <2>2
<1>4. p.ok => \A i \in DOMAIN p.left : <<s, p.left[i].n>> \in f
  <2> SUFFICES ASSUME p.ok, NEW i \in DOMAIN p.left
               PROVE  <<s, p.left[i].n>> \in f
    OBVIOUS
  <2>1. ~sink.bad /\ p \in Put(sink.buf, block)
    BY <1>1, <1>3
  <2>2. p.left[i] = block \/ \E j \in DOMAIN sink.buf : p.left[i] = sink.buf[j]
    BY <1>2, <2>1, PutKeeps
  <2> QED
    BY <2>1, <2>2
<1>5. DOMAIN Wrote(files, FileName(s), p.out) = DOMAIN files
  BY DEF Wrote
<1>6. /\ put \in Sinks /\ put.open /\ put.base = sink.base /\ put.part = sink.part
      /\ put.buf = p.left /\ put.failed = ~p.ok /\ put.written \in Nat
  <2> DEFINE w == sink.written + block.size
             no == ~p.ok
  <2>1. w \in Nat /\ no \in BOOLEAN
    BY <1>2
  <2>2. put = [sink EXCEPT !.buf = p.left, !.written = w, !.failed = no]
    BY Zenon DEF w, no
  <2> HIDE DEF put, w, no
  <2>3. /\ put \in Sinks /\ put.open = sink.open /\ put.base = sink.base
        /\ put.part = sink.part /\ put.buf = p.left /\ put.failed = no /\ put.written = w
    BY <1>2, <1>3, <2>1, <2>2 DEF Sinks
  <2> QED
    BY <2>1, <2>3, Zenon DEF no
<1>7. CASE p.ok /\ Rotates(put.written)
  <2>1. /\ turned \in Sinks /\ ~turned.open /\ turned.buf = <<>> /\ turned.written = 0
    BY <1>6, SinkTurned
  <2>2. SinkSound(turned, s, dir, DOMAIN disk', f)
    BY <2>1 DEF SinkSound
  <2>3. PICK c : disk' = Wrote(Wrote(files, FileName(s), p.out), FileName(s), c.out)
                 /\ sinks' = [sinks EXCEPT ![s] = turned]
    BY <1>1, <1>7
  <2>4. DOMAIN disk' = DOMAIN files
    BY <1>5, <2>3 DEF Wrote
  <2> QED
    BY <2>2, <2>3, <2>4 DEF Replaces
<1>8. CASE ~(p.ok /\ Rotates(put.written))
  <2>1. disk' = Wrote(files, FileName(s), p.out) /\ sinks' = [sinks EXCEPT ![s] = put]
    BY <1>1, <1>8
  <2>2. put.written < RotateSize \/ put.failed
    <3>1. CASE ~p.ok
      BY <1>6, <3>1, Zenon
    <3>2. CASE ~Rotates(put.written)
      <4> HIDE DEF put
      <4> QED
        BY <1>6, <3>2 DEF Rotates
    <3> QED
      BY <1>8, <3>1, <3>2, Zenon
  <2>3. <<dir, put.base, put.part>> \in DOMAIN disk'
    BY <1>5, <1>6, <2>1 DEF FileName
  <2>4. SinkSound(put, s, dir, DOMAIN disk', f)
    BY <1>4, <1>6, <2>2, <2>3 DEF SinkSound
  <2> QED
    BY <1>5, <2>1, <2>4 DEF Replaces
<1> QED
  BY <1>7, <1>8

-----------------------------------------------------------------------------
(* Sound sinks stay sound *)

\* More files and more fresh blocks make no sink unsound.
LEMMA SoundGrows ==
    ASSUME NEW k, NEW s, NEW d, NEW files, NEW more, files \subseteq more,
           NEW f, NEW g, f \subseteq g, SinkSound(k, s, d, files, f)
    PROVE  SinkSound(k, s, d, more, g)
  BY DEF SinkSound

LEMMA NewSinkSound ==
    ASSUME NEW base \in Names \cup {"events"}, NEW s, NEW d, NEW files, NEW f
    PROVE  SinkSound(NewSink(base), s, d, files, f)
<1>1. <<>> \in Seq(Blocks) /\ DOMAIN <<>> = {}
  BY EmptySeq
<1> QED
  BY <1>1, BoundsAssumption DEF SinkSound, Sinks, NewSink

\* A sink of a process is replaced.
LEMMA ReplacedSound ==
    ASSUME AllSound, NEW s \in DOMAIN sinks, dir' = dir,
           fresh \subseteq fresh', Replaces(s, fresh')
    PROVE  AllSound' /\ sinks' # <<>>
<1>1. PICK k : /\ sinks' = [sinks EXCEPT ![s] = k]
               /\ SinkSound(k, s, dir, DOMAIN disk', fresh')
  BY DEF Replaces
<1>2. DOMAIN sinks = 1..Len(sinks) /\ Len(sinks) \in Nat
  BY LenProperties DEF AllSound
<1>3. k \in Sinks
  BY <1>1 DEF SinkSound
<1>4. /\ sinks' \in Seq(Sinks) /\ DOMAIN sinks' = DOMAIN sinks
      /\ sinks'[s] = k /\ \A u \in DOMAIN sinks : u # s => sinks'[u] = sinks[u]
  BY <1>1, <1>2, <1>3, ExceptSeq DEF AllSound
<1>5. ASSUME NEW u \in DOMAIN sinks PROVE SinkSound(sinks'[u], u, dir, DOMAIN disk', fresh')
  <2>1. CASE u = s
    BY <1>1, <1>4, <2>1
  <2>2. CASE u # s
    BY <1>4, <2>2, SoundGrows DEF AllSound, Replaces
  <2> QED
    BY <2>1, <2>2
<1>6. sinks' # <<>>
  BY <1>4, EmptySeq
<1> QED
  BY <1>4, <1>5, <1>6 DEF AllSound

LEMMA WriteSound ==
    ASSUME AllSound, ProcessTyped, NEW s \in DOMAIN sinks, NEW size \in Nat, dir' = dir,
           Write(s, size)
    PROVE  AllSound' /\ sinks' # <<>>
<1> DEFINE n == sinks[s].count + 1
           sink == [sinks[s] EXCEPT !.count = @ + 1]
           opened == [sink EXCEPT !.open = TRUE, !.bad = FALSE]
           block == [run |-> run, sink |-> s, n |-> sink.count, size |-> size]
<1>1. SinkSound(sinks[s], s, dir, DOMAIN disk, fresh) /\ sinks[s] \in Sinks
  BY DEF AllSound, SinkSound
<1>2. n \in Nat
  BY <1>1 DEF Sinks
<1>3. /\ sink \in Sinks /\ sink.count = n
      /\ sink.base = sinks[s].base /\ sink.part = sinks[s].part /\ sink.open = sinks[s].open
      /\ sink.buf = sinks[s].buf /\ sink.bad = sinks[s].bad /\ sink.failed = sinks[s].failed
      /\ sink.written = sinks[s].written
  <2>1. sink = [sinks[s] EXCEPT !.count = n]
    OBVIOUS
  <2> HIDE DEF sink, n
  <2> QED
    BY <1>1, <1>2, <2>1 DEF Sinks
<1>4. block \in Blocks /\ block.n = n
  <2>1. s \in Nat
    BY LenProperties DEF AllSound
  <2> HIDE DEF n, sink
  <2> QED
    BY <1>2, <1>3, <2>1 DEF Blocks, ProcessTyped
<1>5. fresh' = fresh \cup {<<s, n>>}
  BY <1>3 DEF Write
<1>6. fresh \subseteq fresh' /\ <<s, block.n>> \in fresh'
  BY <1>4, <1>5
<1> HIDE DEF n
<1>7. CASE sink.failed /\ sinks' = [sinks EXCEPT ![s] = sink] /\ disk' = disk
  <2>1. SinkSound(sink, s, dir, DOMAIN disk', fresh')
    <3> HIDE DEF sink
    <3> QED
      BY <1>1, <1>3, <1>6, <1>7 DEF SinkSound
  <2> QED
    BY <1>6, <1>7, <2>1, ReplacedSound DEF Replaces
<1>8. CASE /\ ~sink.failed /\ ~sink.open /\ disk' = disk
           /\ sinks' = [sinks EXCEPT ![s] = [sink EXCEPT !.failed = TRUE]]
  <2>1. SinkSound([sink EXCEPT !.failed = TRUE], s, dir, DOMAIN disk', fresh')
    <3> HIDE DEF sink
    <3> QED
      BY <1>1, <1>3, <1>8 DEF SinkSound, Sinks
  <2> QED
    BY <1>6, <1>8, <2>1, ReplacedSound DEF Replaces
<1>9. CASE /\ ~sink.failed /\ ~sink.open
           /\ PutAndRotate(s, opened, Opened(FileName(s)), block)
  <2>1. sinks[s].buf = <<>> /\ DOMAIN <<>> = {}
    BY <1>1, <1>3, <1>9 DEF SinkSound
  <2>2. /\ opened \in Sinks /\ opened.open /\ opened.buf = <<>>
        /\ opened.base = sinks[s].base /\ opened.part = sinks[s].part
    <3> HIDE DEF sink
    <3> QED
      BY <1>3, <2>1 DEF Sinks
  <2>3. /\ FileName(s) \in DOMAIN Opened(FileName(s))
        /\ DOMAIN disk \subseteq DOMAIN Opened(FileName(s))
    BY DEF Opened
  <2>4. Replaces(s, fresh')
    <3> HIDE DEF opened, block
    <3> QED
      BY <1>4, <1>6, <1>9, <2>1, <2>2, <2>3, PutAndRotateSound, BoundsAssumption
  <2> QED
    BY <1>6, <2>4, ReplacedSound
<1>10. CASE ~sink.failed /\ sink.open /\ PutAndRotate(s, sink, disk, block)
  <2>1. FileName(s) \in DOMAIN disk
    BY <1>1, <1>3, <1>10 DEF SinkSound, FileName
  <2>2. ~sink.bad => \A i \in DOMAIN sink.buf : <<s, sink.buf[i].n>> \in fresh'
    <3> HIDE DEF sink
    <3> QED
      BY <1>1, <1>3, <1>6, <1>10 DEF SinkSound
  <2>3. Replaces(s, fresh')
    <3> HIDE DEF sink, block
    <3> QED
      BY <1>3, <1>4, <1>6, <1>10, <2>1, <2>2, PutAndRotateSound, BoundsAssumption
  <2> QED
    BY <1>6, <2>3, ReplacedSound
<1> QED
  BY <1>7, <1>8, <1>9, <1>10 DEF Write

\* A flush empties each open stream or finds it refused: no other blocks are old.
LEMMA FlushSound ==
    ASSUME AllSound, dir' = dir, FlushSinks
    PROVE  AllSound' /\ (sinks # <<>> => sinks' # <<>>)
<1>1. PICK d : /\ \A s \in Flushed : d[s] \in Drain(sinks[s].buf, sinks[s].bad \/ sinks[s].failed)
               /\ sinks' = [s \in DOMAIN sinks |->
                     IF s \in Flushed
                     THEN [sinks[s] EXCEPT !.buf = d[s].left, !.bad = @ \/ ~d[s].ok]
                     ELSE sinks[s]]
  BY Zenon DEF FlushSinks
<1>2. DOMAIN disk' = DOMAIN disk /\ fresh' = {}
  BY DEF FlushSinks
<1>3. DOMAIN sinks = 1..Len(sinks) /\ Len(sinks) \in Nat
  BY LenProperties DEF AllSound
<1>4. ASSUME NEW s \in DOMAIN sinks PROVE SinkSound(sinks'[s], s, dir, DOMAIN disk', fresh')
  <2>1. SinkSound(sinks[s], s, dir, DOMAIN disk, fresh) /\ sinks[s] \in Sinks
    BY DEF AllSound, SinkSound
  <2>2. CASE s \in Flushed
    <3> DEFINE left == d[s].left
               bad == sinks[s].bad \/ ~d[s].ok
    <3>1. sinks[s].buf \in Seq(Blocks) /\ sinks[s].bad \in BOOLEAN
      BY <2>1 DEF Sinks
    <3>2. left \in {sinks[s].buf, <<>>} /\ d[s].ok \in BOOLEAN /\ (d[s].ok => left = <<>>)
      BY <1>1, <2>2, <3>1, DrainLeaves, Zenon
    <3>3. bad \in BOOLEAN /\ (~bad => left = <<>>)
      BY <3>2
    <3>4. left \in Seq(Blocks)
      BY <3>1, <3>2, EmptySeq
    <3>5. sinks'[s] = [sinks[s] EXCEPT !.buf = left, !.bad = bad]
      BY <1>1, <2>2, Zenon
    <3>6. sinks[s].open /\ DOMAIN <<>> = {}
      BY <2>2 DEF Flushed
    <3> HIDE DEF left, bad
    <3>7. ~bad => \A i \in DOMAIN left : <<s, left[i].n>> \in fresh'
      BY <3>3, <3>6
    <3>8. ASSUME NEW is \in BOOLEAN, sinks'[s] = [sinks[s] EXCEPT !.buf = left, !.bad = is],
                 ~is => \A i \in DOMAIN left : <<s, left[i].n>> \in fresh'
          PROVE  SinkSound(sinks'[s], s, dir, DOMAIN disk', fresh')
      <4>1. /\ sinks'[s] \in Sinks /\ sinks'[s].open = sinks[s].open
            /\ sinks'[s].base = sinks[s].base /\ sinks'[s].part = sinks[s].part
            /\ sinks'[s].written = sinks[s].written /\ sinks'[s].failed = sinks[s].failed
            /\ sinks'[s].buf = left /\ sinks'[s].bad = is
        BY <2>1, <3>4, <3>8 DEF Sinks
      <4> QED
        BY <1>2, <2>1, <3>6, <3>8, <4>1 DEF SinkSound
    <3> QED
      BY <3>3, <3>5, <3>7, <3>8, Zenon
  <2>3. CASE s \notin Flushed
    <3>1. sinks'[s] = sinks[s]
      BY <1>1, <2>3
    <3>2. sinks[s].buf = <<>> /\ DOMAIN <<>> = {}
      BY <2>1, <2>3 DEF SinkSound, Flushed
    <3> QED
      BY <1>2, <2>1, <3>1, <3>2 DEF SinkSound
  <2> QED
    BY <2>2, <2>3
<1>5. sinks' \in Seq(Sinks) /\ DOMAIN sinks' = DOMAIN sinks
  <2>1. DOMAIN sinks' = DOMAIN sinks
    BY <1>1
  <2>2. \A s \in DOMAIN sinks : sinks'[s] \in Sinks
    BY <1>4 DEF SinkSound
  <2>3. sinks' = [s \in 1..Len(sinks) |-> sinks'[s]]
    BY <1>1, <1>3
  <2>4. sinks' \in [1..Len(sinks) -> Sinks]
    BY <1>3, <2>2, <2>3
  <2> QED
    BY <1>3, <2>1, <2>4, SeqDef
<1>6. sinks # <<>> => sinks' # <<>>
  BY <1>3, <1>5, EmptySeq DEF AllSound
<1> QED
  BY <1>4, <1>5, <1>6 DEF AllSound

LEMMA CloseSound ==
    ASSUME AllSound, NEW s \in DOMAIN sinks, CloseSink(s)
    PROVE  AllSound' /\ sinks' # <<>>
<1> DEFINE closed == [sinks[s] EXCEPT !.open = FALSE, !.buf = <<>>]
<1>1. SinkSound(sinks[s], s, dir, DOMAIN disk, fresh) /\ sinks[s] \in Sinks
  BY DEF AllSound, SinkSound
<1>2. PICK c : /\ disk' = Wrote(disk, FileName(s), c.out)
               /\ sinks' = [sinks EXCEPT ![s].open = FALSE, ![s].buf = <<>>]
  BY DEF CloseSink
<1>3. dir' = dir /\ fresh' = fresh
  BY DEF CloseSink, process
<1>4. <<>> \in Seq(Blocks) /\ DOMAIN <<>> = {}
  BY EmptySeq
<1>5. SinkSound(closed, s, dir, DOMAIN disk', fresh')
  BY <1>1, <1>4 DEF SinkSound, Sinks
<1>6. sinks' = [sinks EXCEPT ![s] = closed]
  BY <1>2
<1>7. DOMAIN disk' = DOMAIN disk
  BY <1>2 DEF Wrote
<1> QED
  BY <1>3, <1>5, <1>6, <1>7, ReplacedSound DEF Replaces

-----------------------------------------------------------------------------
(* The steps *)

LEMMA EventSound ==
    ASSUME Inv, sinks # <<>>, dir' = dir, Event
    PROVE  AllSound' /\ sinks' # <<>>
<1>1. 1 \in DOMAIN sinks
  BY LenProperties, EmptySeq DEF Inv, AllSound
<1> QED
  BY <1>1, WriteSound DEF Inv, Event

LEMMA WriteBlockKeeps ==
    ASSUME Inv, NEW name, NEW lines \in Nat, NEW more \in Nat, WriteBlock(name, lines, more)
    PROVE  Inv'
<1>1. PICK s \in DOMAIN sinks : Write(s, 2 + lines + (IF setting.full THEN more ELSE 0))
  BY DEF WriteBlock
<1>2. 2 + lines + (IF setting.full THEN more ELSE 0) \in Nat
  OBVIOUS
<1>3. UNCHANGED <<up, run, setting, todo, dir, latest, second>>
  BY DEF WriteBlock, process, outside
<1>4. AllSound' /\ sinks' # <<>>
  BY <1>1, <1>2, <1>3, WriteSound DEF Inv
<1> QED
  BY <1>3, <1>4 DEF Inv, ProcessTyped, HasEvents

\* No sink, no sink unsound.
LEMMA NoneSound ==
    ASSUME sinks' = <<>>
    PROVE  AllSound'
  BY EmptySeq DEF AllSound

LEMMA StartKeeps ==
    ASSUME Inv, Start
    PROVE  Inv'
<1>1. run' \in Nat /\ setting' = setting /\ second' = second
  BY DEF Inv, ProcessTyped, Start, outside
<1>2. setting.topics \in Seq(Tokens)
  BY SettingsAssumption DEF Inv, ProcessTyped
<1>3. CASE /\ dir' = second /\ UpdateLatestLink /\ todo' = setting.topics
           /\ sinks' = <<NewSink("events")>> /\ up' = "boot"
  <2>1. NewSink("events") \in Sinks
    BY NewSinkSound DEF SinkSound
  <2>2. <<NewSink("events")>> \in Seq(Sinks) /\ DOMAIN <<NewSink("events")>> = {1}
    BY <2>1
  <2>3. <<NewSink("events")>>[1] = NewSink("events") /\ <<NewSink("events")>> # <<>>
    BY <2>2, EmptySeq
  <2>4. AllSound'
    BY <1>3, <2>2, <2>3, NewSinkSound DEF AllSound
  <2> QED
    BY <1>1, <1>2, <1>3, <2>3, <2>4 DEF Inv, ProcessTyped, HasEvents, UpdateLatestLink
<1>4. CASE dir' = 0 /\ todo' = <<>> /\ sinks' = <<>> /\ up' = "up" /\ latest' = latest
  <2>1. <<>> \in Seq(Tokens)
    BY EmptySeq
  <2> QED
    BY <1>1, <1>4, <2>1, NoneSound DEF Inv, ProcessTyped, HasEvents
<1> QED
  BY <1>3, <1>4 DEF Start

LEMMA AddTopicKeeps ==
    ASSUME Inv, AddTopic
    PROVE  Inv'
<1>1. /\ up = "boot" /\ todo # <<>> /\ todo' = Tail(todo)
      /\ UNCHANGED <<up, run, setting, dir, latest, second>>
  BY DEF AddTopic, outside
<1>2. todo' \in Seq(Tokens) /\ Head(todo) \in Tokens
  BY <1>1, HeadTailProperties DEF Inv, ProcessTyped
<1>3. CASE /\ Known(Head(todo)) /\ sinks' = Append(sinks, NewSink(Head(todo).name))
           /\ UNCHANGED <<fresh, disk>>
  <2> DEFINE new == NewSink(Head(todo).name)
  <2>1. \A s : SinkSound(new, s, dir, DOMAIN disk, fresh)
    BY <1>3, NewSinkSound DEF Known
  <2>2. new \in Sinks
    BY <2>1 DEF SinkSound
  <2>3. /\ sinks' \in Seq(Sinks) /\ Len(sinks') = Len(sinks) + 1
        /\ \A i \in 1..Len(sinks) : sinks'[i] = sinks[i]
        /\ sinks'[Len(sinks) + 1] = new
    BY <1>3, <2>2, AppendProperties DEF Inv, AllSound
  <2>4. /\ DOMAIN sinks = 1..Len(sinks) /\ Len(sinks) \in Nat
        /\ DOMAIN sinks' = 1..(Len(sinks) + 1)
    BY <2>3, LenProperties DEF Inv, AllSound
  <2>5. ASSUME NEW s \in DOMAIN sinks'
        PROVE  SinkSound(sinks'[s], s, dir, DOMAIN disk, fresh)
    <3> HIDE DEF new
    <3>1. CASE s \in 1..Len(sinks)
      BY <2>3, <2>4, <3>1 DEF Inv, AllSound
    <3>2. CASE s = Len(sinks) + 1
      BY <2>1, <2>3, <3>2
    <3> QED
      BY <2>4, <2>5, <3>1, <3>2
  <2>6. sinks' # <<>>
    BY <2>3, <2>4, EmptySeq
  <2>7. AllSound'
    BY <1>1, <1>3, <2>3, <2>5 DEF AllSound
  <2> QED
    BY <1>1, <1>2, <2>6, <2>7 DEF Inv, ProcessTyped, HasEvents
<1>4. CASE Event
  <2>1. AllSound' /\ sinks' # <<>>
    BY <1>1, <1>4, EventSound DEF Inv, HasEvents
  <2> QED
    BY <1>1, <1>2, <2>1 DEF Inv, ProcessTyped, HasEvents
<1> QED
  BY <1>3, <1>4 DEF AddTopic

LEMMA CallbacksKeep ==
    ASSUME Inv, Callbacks
    PROVE  Inv'
<1>1. CASE OnRosout
  <2>1. UNCHANGED <<up, run, setting, todo, dir, latest, second>> /\ sinks # <<>>
    BY <1>1 DEF Inv, HasEvents, OnRosout, process, outside
  <2>2. AllSound' /\ sinks' # <<>>
    BY <1>1, <2>1, EventSound DEF OnRosout
  <2> QED
    BY <2>1, <2>2 DEF Inv, ProcessTyped, HasEvents
<1>2. CASE ~OnRosout
  BY <1>2, WriteBlockKeeps DEF Callbacks, OnDevpvt, OnDevimu, OnHcSentence, OnNmea,
     OnBestpos, OnHeading, OnOdometry, OnVelocity
<1> QED
  BY <1>1, <1>2

LEMMA NextKeeps ==
    ASSUME Inv, [Next]_vars
    PROVE  Inv'
<1>1. CASE Start
  BY <1>1, StartKeeps
<1>2. CASE FirstEvent
  <2>1. UNCHANGED <<up, run, setting, todo, dir, latest, second>> /\ sinks # <<>>
    BY <1>2 DEF Inv, HasEvents, FirstEvent, process, outside
  <2>2. AllSound' /\ sinks' # <<>>
    BY <1>2, <2>1, EventSound DEF FirstEvent
  <2> QED
    BY <2>1, <2>2 DEF Inv, ProcessTyped, HasEvents
<1>3. CASE AddTopic
  BY <1>3, AddTopicKeeps
<1>4. CASE Ready
  BY <1>4 DEF Ready, outside, Inv, ProcessTyped, HasEvents, AllSound
<1>5. CASE Callbacks
  BY <1>5, CallbacksKeep
<1>6. CASE FlushAll
  <2>1. UNCHANGED <<up, run, setting, todo, dir, latest, second>> /\ FlushSinks
    BY <1>6 DEF FlushAll, process, outside
  <2>2. AllSound' /\ (sinks # <<>> => sinks' # <<>>)
    BY <2>1, FlushSound DEF Inv
  <2> QED
    BY <2>1, <2>2 DEF Inv, ProcessTyped, HasEvents
<1>7. CASE Stop
  <2>1. UNCHANGED <<run, setting, todo, dir, latest, second>> /\ up = "up"
        /\ up' = IF dir = 0 THEN "stopped" ELSE "stopping"
    BY <1>7 DEF Stop, outside
  <2>2. CASE UNCHANGED <<sinks, fresh, disk>>
    BY <2>1, <2>2 DEF Inv, ProcessTyped, HasEvents, AllSound
  <2>3. CASE dir # 0 /\ Event
    <3>1. AllSound' /\ sinks' # <<>>
      BY <2>1, <2>3, EventSound DEF Inv, HasEvents
    <3> QED
      BY <2>1, <3>1 DEF Inv, ProcessTyped, HasEvents
  <2> QED
    BY <1>7, <2>2, <2>3 DEF Stop
<1>8. CASE FlushAtExit
  <2>1. UNCHANGED <<run, setting, todo, dir, latest, second>> /\ FlushSinks
        /\ up = "stopping" /\ up' = "closing"
    BY <1>8 DEF FlushAtExit, outside
  <2>2. AllSound' /\ (sinks # <<>> => sinks' # <<>>)
    BY <2>1, FlushSound DEF Inv
  <2> QED
    BY <2>1, <2>2 DEF Inv, ProcessTyped, HasEvents
<1>9. CASE CloseAtExit
  <2>1. PICK s \in DOMAIN sinks : CloseSink(s)
    BY <1>9 DEF CloseAtExit
  <2>2. AllSound' /\ sinks' # <<>>
    BY <2>1, CloseSound DEF Inv
  <2> QED
    BY <2>1, <2>2 DEF Inv, ProcessTyped, HasEvents, CloseSink, process, outside
<1>10. CASE Stopped
  BY <1>10 DEF Stopped, outside, Inv, ProcessTyped, HasEvents, AllSound
<1>11. CASE Crash
  BY <1>11, NoneSound DEF Crash, outside, Inv, ProcessTyped, HasEvents
<1>12. CASE NextSecond
  BY <1>12 DEF NextSecond, process, Inv, ProcessTyped, HasEvents, AllSound
<1>13. CASE DiskChanges
  BY <1>13 DEF DiskChanges, process, Inv, ProcessTyped, HasEvents, AllSound
<1>14. CASE UNCHANGED vars
  BY <1>14 DEF vars, process, outside, Inv, ProcessTyped, HasEvents, AllSound
<1> QED
  BY <1>1, <1>2, <1>3, <1>4, <1>5, <1>6, <1>7, <1>8, <1>9, <1>10, <1>11, <1>12, <1>13, <1>14
     DEF Next

LEMMA Invariance == Spec => []Inv
<1>1. Init => Inv
  <2> SUFFICES ASSUME Init PROVE Inv
    OBVIOUS
  <2>1. <<>> \in Seq(Tokens) /\ <<>> \in Seq(Sinks) /\ DOMAIN <<>> = {}
    BY EmptySeq
  <2> QED
    BY <2>1 DEF Init, Inv, ProcessTyped, HasEvents, AllSound
<1> QED
  BY <1>1, NextKeeps, PTL DEF Spec

-----------------------------------------------------------------------------
(* Blocks in order *)

\* The property of the sink k, as number s of run r with the directory d, over any
\* files: what the file f holds, part p of the sink, and the sink's own blocks.
Held(files, f) == IF f \in DOMAIN files THEN files[f] ELSE <<>>
Text(files, d, k, p) == Held(files, <<d, k.base, p>>)
IsOf(b, s, r) == b.run = r /\ b.sink = s

\* Its places, in the files and in the stream, and the numbers of the blocks there.
InPart(files, d, k, s, r, p) ==
    {p} \X {i \in DOMAIN Text(files, d, k, p) : IsOf(Text(files, d, k, p)[i], s, r)}
InParts(files, d, k, s, r) == UNION {InPart(files, d, k, s, r, p) : p \in 1..k.part}
InStream(k) == {k.part + 1} \X DOMAIN k.buf
PlacesIn(files, d, k, s, r) == InParts(files, d, k, s, r) \cup InStream(k)
NumberAt(files, d, k, q) ==
    (IF q[1] <= k.part THEN Text(files, d, k, q[1])[q[2]] ELSE k.buf[q[2]]).n

\* Each block that the sink has counted is in one place, behind those before it.
InOrder(files, d, k, s, r) ==
    /\ {NumberAt(files, d, k, q) : q \in PlacesIn(files, d, k, s, r)} = 1..k.count
    /\ \A q, t \in PlacesIn(files, d, k, s, r) :
           Before(q, t) => NumberAt(files, d, k, q) < NumberAt(files, d, k, t)

\* A place is a pair: a part and an index there, or the stream and an index there.
LEMMA PlaceIs ==
    ASSUME NEW files, NEW d, NEW k, NEW s, NEW r, k.part \in Nat, k.buf \in Seq(Blocks),
           \A p \in 1..k.part : Text(files, d, k, p) \in Seq(Blocks), NEW q
    PROVE  q \in PlacesIn(files, d, k, s, r) <=>
           \E p \in 1..(k.part + 1), i \in Nat \ {0} :
              /\ q = <<p, i>>
              /\ p <= k.part => i <= Len(Text(files, d, k, p)) /\ IsOf(Text(files, d, k, p)[i], s, r)
              /\ p = k.part + 1 => i <= Len(k.buf)
<1> DEFINE text(p) == Text(files, d, k, p)
           C(p, i) == /\ p <= k.part => i <= Len(text(p)) /\ IsOf(text(p)[i], s, r)
                      /\ p = k.part + 1 => i <= Len(k.buf)
<1>1. \A p \in 1..k.part : Len(text(p)) \in Nat /\ DOMAIN text(p) = 1..Len(text(p))
  BY LenProperties
<1>2. Len(k.buf) \in Nat /\ DOMAIN k.buf = 1..Len(k.buf)
  BY LenProperties
<1>3. q \in PlacesIn(files, d, k, s, r) <=>
         \/ \E p \in 1..k.part : \E i \in DOMAIN text(p) : IsOf(text(p)[i], s, r) /\ q = <<p, i>>
         \/ \E i \in DOMAIN k.buf : q = <<k.part + 1, i>>
  <2>1. \A p : q \in InPart(files, d, k, s, r, p) <=>
                   \E i \in DOMAIN text(p) : IsOf(text(p)[i], s, r) /\ q = <<p, i>>
    BY DEF InPart
  <2>2. q \in InStream(k) <=> \E i \in DOMAIN k.buf : q = <<k.part + 1, i>>
    BY DEF InStream
  <2>3. q \in InParts(files, d, k, s, r) <=>
            \E p \in 1..k.part : q \in InPart(files, d, k, s, r, p)
    BY DEF InParts
  <2> HIDE DEF text
  <2> QED
    BY <2>1, <2>2, <2>3 DEF PlacesIn
<1> HIDE DEF text
<1>4. ASSUME NEW p \in 1..k.part, NEW i \in DOMAIN text(p), IsOf(text(p)[i], s, r), q = <<p, i>>
      PROVE  \E w \in 1..(k.part + 1), j \in Nat \ {0} : q = <<w, j>> /\ C(w, j)
  <2>1. p \in 1..(k.part + 1) /\ i \in Nat \ {0} /\ C(p, i)
    BY <1>1, <1>4
  <2> QED
    BY <1>4, <2>1
<1>5. ASSUME NEW i \in DOMAIN k.buf, q = <<k.part + 1, i>>
      PROVE  \E w \in 1..(k.part + 1), j \in Nat \ {0} : q = <<w, j>> /\ C(w, j)
  <2>1. k.part + 1 \in 1..(k.part + 1) /\ i \in Nat \ {0} /\ C(k.part + 1, i)
    BY <1>2, <1>5
  <2> QED
    BY <1>5, <2>1
<1>6. ASSUME NEW p \in 1..(k.part + 1), NEW i \in Nat \ {0}, q = <<p, i>>, C(p, i)
      PROVE  q \in PlacesIn(files, d, k, s, r)
  <2>1. CASE p \in 1..k.part
    <3>1. i \in DOMAIN text(p) /\ IsOf(text(p)[i], s, r)
      BY <1>1, <1>6, <2>1
    <3> QED
      BY <1>3, <1>6, <2>1, <3>1
  <2>2. CASE p = k.part + 1
    <3>1. i \in DOMAIN k.buf
      BY <1>2, <1>6, <2>2
    <3> QED
      BY <1>3, <1>6, <2>2, <3>1
  <2> QED
    BY <2>1, <2>2
<1> QED
  <2>1. q \in PlacesIn(files, d, k, s, r) <=>
           \E p \in 1..(k.part + 1), i \in Nat \ {0} : q = <<p, i>> /\ C(p, i)
    BY <1>3, <1>4, <1>5, <1>6
  <2> QED
    BY <2>1 DEF text

\* The same, by name, so that the arithmetic stays apart from the sets.
Typed(files, d, k) ==
    /\ k.part \in Nat /\ k.buf \in Seq(Blocks)
    /\ \A p \in 1..k.part : Text(files, d, k, p) \in Seq(Blocks)

IsPlace(files, d, k, s, r, q) ==
    \E p \in 1..(k.part + 1), i \in Nat \ {0} :
        /\ q = <<p, i>>
        /\ p <= k.part => i <= Len(Text(files, d, k, p)) /\ IsOf(Text(files, d, k, p)[i], s, r)
        /\ p = k.part + 1 => i <= Len(k.buf)

LEMMA Placed ==
    ASSUME NEW files, NEW d, NEW k, NEW s, NEW r, Typed(files, d, k), NEW q
    PROVE  q \in PlacesIn(files, d, k, s, r) <=> IsPlace(files, d, k, s, r, q)
  BY PlaceIs DEF Typed, IsPlace

\* b begins with all of a.
Extends(a, b) ==
    /\ a \in Seq(Blocks) /\ b \in Seq(Blocks) /\ Len(a) <= Len(b)
    /\ \A u \in 1..Len(a) : b[u] = a[u]

\* l differs from k at most in its stream and in what it has written.
Alike(k, l) ==
    l \in Sinks /\ l.part = k.part /\ l.base = k.base /\ l.count = k.count /\ ~l.bad /\ ~l.failed

\* The first i blocks of the stream k are in the file from place j on.
Shifted(was, is, k, l, s, r, i, j) ==
    /\ Len(k.buf) = i + Len(l.buf)
    /\ \A u \in 1..Len(l.buf) : l.buf[u] = k.buf[i + u]
    /\ Len(was) <= j /\ j + i <= Len(is)
    /\ \A u \in 1..i : is[j + u] = k.buf[u]
    /\ \A v \in (Len(was) + 1)..Len(is) : IsOf(is[v], s, r) => v \in (j + 1)..(j + i)

\* Every file of the stream's sink goes on, and only the last with blocks of the sink.
Grown(files, more, d, k, s, r) ==
    \A p \in 1..k.part :
        /\ Extends(Text(files, d, k, p), Text(more, d, k, p))
        /\ \A u \in (Len(Text(files, d, k, p)) + 1)..Len(Text(more, d, k, p)) :
               IsOf(Text(more, d, k, p)[u], s, r) => p = k.part

\* A spill: what leaves the stream for the end of the last part keeps its order, and
\* each place afterwards comes from one before.
LEMMA Moves ==
    ASSUME NEW files, NEW more, NEW d, NEW k \in Sinks, NEW l, NEW s, NEW r, NEW i \in Nat, NEW j \in Nat,
           k.part # 0, Alike(k, l), \A u \in DOMAIN k.buf : IsOf(k.buf[u], s, r),
           Grown(files, more, d, k, s, r),
           Shifted(Text(files, d, k, k.part), Text(more, d, k, k.part), k, l, s, r, i, j),
           InOrder(files, d, k, s, r)
    PROVE  InOrder(more, d, l, s, r)
<1> /\ k.part \in Nat \ {0} /\ l.part = k.part /\ l.base = k.base /\ l.count = k.count
    /\ k.buf \in Seq(Blocks) /\ l.buf \in Seq(Blocks)
  BY DEF Alike, Sinks
<1> \A u \in 1..Len(k.buf) : IsOf(k.buf[u], s, r)
  BY LenProperties
<1> /\ Len(k.buf) = i + Len(l.buf)
    /\ \A u \in 1..Len(l.buf) : l.buf[u] = k.buf[i + u]
    /\ Len(Text(files, d, k, k.part)) <= j /\ j + i <= Len(Text(more, d, k, k.part))
    /\ \A u \in 1..i : Text(more, d, k, k.part)[j + u] = k.buf[u]
  BY DEF Shifted
<1> \A p \in 1..k.part : Extends(Text(files, d, k, p), Text(more, d, k, p))
  BY DEF Grown
<1> \A p \in 1..k.part : \A u \in (Len(Text(files, d, k, p)) + 1)..Len(Text(more, d, k, p)) :
        IsOf(Text(more, d, k, p)[u], s, r) => p = k.part /\ u \in (j + 1)..(j + i)
  BY DEF Grown, Shifted
<1> DEFINE P == PlacesIn(files, d, k, s, r)
           Q == PlacesIn(more, d, l, s, r)
           was(p) == Text(files, d, k, p)
           is(p) == Text(more, d, k, p)
           from(p, u) == IF p = k.part /\ u > Len(was(p)) THEN <<p + 1, u - j>>
                         ELSE IF p = k.part + 1 THEN <<p, i + u>> ELSE <<p, u>>
           old(q) == from(q[1], q[2])
<1>1. \A p \in 1..k.part : Text(more, d, l, p) = is(p)
  BY DEF Text
<1>2. \A p \in 1..k.part : was(p) \in Seq(Blocks) /\ is(p) \in Seq(Blocks)
                           /\ Len(was(p)) \in Nat /\ Len(is(p)) \in Nat
                           /\ Len(was(p)) <= Len(is(p))
                           /\ \A u \in 1..Len(was(p)) : is(p)[u] = was(p)[u]
  BY LenProperties DEF Extends
<1>3. Len(k.buf) \in Nat /\ Len(l.buf) \in Nat /\ k.part \in 1..k.part
  BY LenProperties
<1>4. ASSUME NEW q \in Q
      PROVE  \E p \in 1..(k.part + 1), u \in Nat \ {0} :
                /\ q = <<p, u>>
                /\ p <= k.part => u <= Len(is(p)) /\ IsOf(is(p)[u], s, r)
                /\ p = k.part + 1 => u <= Len(l.buf)
  <2>1. \A p \in 1..l.part : Text(more, d, l, p) \in Seq(Blocks)
    BY <1>1, <1>2
  <2>2. \E p \in 1..(l.part + 1), u \in Nat \ {0} :
                /\ q = <<p, u>>
                /\ p <= l.part => u <= Len(Text(more, d, l, p)) /\ IsOf(Text(more, d, l, p)[u], s, r)
                /\ p = l.part + 1 => u <= Len(l.buf)
    <3>1. Typed(more, d, l)
      BY <2>1 DEF Typed
    <3>2. IsPlace(more, d, l, s, r, q)
      BY <3>1, Placed, Zenon
    <3> QED
      BY <3>2, Zenon DEF IsPlace
  <2> QED
    BY <1>1, <2>2
<1>5. ASSUME NEW p \in 1..(k.part + 1), NEW u \in Nat \ {0},
             p <= k.part => u <= Len(is(p)) /\ IsOf(is(p)[u], s, r),
             p = k.part + 1 => u <= Len(l.buf)
      PROVE  <<p, u>> \in Q
  <2>1. \A w \in 1..l.part : Text(more, d, l, w) \in Seq(Blocks)
    BY <1>1, <1>2
  <2>2. p <= l.part => u <= Len(Text(more, d, l, p)) /\ IsOf(Text(more, d, l, p)[u], s, r)
    BY <1>1, <1>5
  <2>3. p \in 1..(l.part + 1) /\ (p = l.part + 1 => u <= Len(l.buf))
    BY <1>5
  <2>4. \E w \in 1..(l.part + 1), v \in Nat \ {0} :
                /\ <<p, u>> = <<w, v>>
                /\ w <= l.part => v <= Len(Text(more, d, l, w)) /\ IsOf(Text(more, d, l, w)[v], s, r)
                /\ w = l.part + 1 => v <= Len(l.buf)
    BY <2>2, <2>3, Zenon
  <2> QED
    BY <2>1, <2>4, PlaceIs
<1>6. ASSUME NEW q \in P
      PROVE  \E p \in 1..(k.part + 1), u \in Nat \ {0} :
                /\ q = <<p, u>>
                /\ p <= k.part => u <= Len(was(p)) /\ IsOf(was(p)[u], s, r)
                /\ p = k.part + 1 => u <= Len(k.buf)
  BY <1>2, PlaceIs, SMTT(30)
<1>7. ASSUME NEW p \in 1..(k.part + 1), NEW u \in Nat \ {0},
             p <= k.part => u <= Len(was(p)) /\ IsOf(was(p)[u], s, r),
             p = k.part + 1 => u <= Len(k.buf)
      PROVE  <<p, u>> \in P
  <2>1. \E w \in 1..(k.part + 1), v \in Nat \ {0} :
                /\ <<p, u>> = <<w, v>>
                /\ w <= k.part => v <= Len(was(w)) /\ IsOf(was(w)[v], s, r)
                /\ w = k.part + 1 => v <= Len(k.buf)
    BY <1>7, Zenon
  <2> QED
    BY <1>2, <2>1, PlaceIs
<1>8. ASSUME NEW p \in 1..k.part, NEW u \in Nat, u > Len(was(p)), u <= Len(is(p)),
             IsOf(is(p)[u], s, r)
      PROVE  p = k.part /\ u - j \in 1..i /\ is(p)[u] = k.buf[u - j]
  <2>1. u \in (Len(was(p)) + 1)..Len(is(p))
    BY <1>2, <1>8
  <2>2. p = k.part /\ u \in (j + 1)..(j + i)
    BY <1>8, <2>1
  <2>3. u - j \in 1..i /\ j + (u - j) = u
    BY <2>2
  <2> QED
    BY <2>2, <2>3
<1>9. Len(was(k.part)) <= j /\ j + i <= Len(is(k.part)) /\ \A u \in 1..i : is(k.part)[j + u] = k.buf[u]
  OBVIOUS
<1> DEFINE N(q) == NumberAt(files, d, k, q)
           M(q) == NumberAt(more, d, l, q)
<1>10. ASSUME NEW p \in 1..k.part, NEW u
       PROVE  N(<<p, u>>) = was(p)[u].n /\ M(<<p, u>>) = is(p)[u].n
  <2>1. p <= k.part
    OBVIOUS
  <2> QED
    BY <1>1, <2>1 DEF NumberAt
<1>10a. ASSUME NEW u
        PROVE  N(<<k.part + 1, u>>) = k.buf[u].n /\ M(<<k.part + 1, u>>) = l.buf[u].n
  <2>1. ~(k.part + 1 <= k.part)
    OBVIOUS
  <2> QED
    BY <1>1, <2>1 DEF NumberAt
<1>11. {N(q) : q \in P} = 1..k.count /\ \A q, t \in P : Before(q, t) => N(q) < N(t)
  BY DEF InOrder
<1> HIDE DEF P, Q, N, M, was, is
<1>12. ASSUME NEW p \in 1..(k.part + 1), NEW u \in Nat \ {0}, <<p, u>> \in Q
       PROVE  from(p, u) \in P /\ N(from(p, u)) = M(<<p, u>>)
  <2>1. /\ p <= k.part => u <= Len(is(p)) /\ IsOf(is(p)[u], s, r)
        /\ p = k.part + 1 => u <= Len(l.buf)
    <3>1. PICK w \in 1..(k.part + 1), v \in Nat \ {0} :
                /\ <<p, u>> = <<w, v>>
                /\ w <= k.part => v <= Len(is(w)) /\ IsOf(is(w)[v], s, r)
                /\ w = k.part + 1 => v <= Len(l.buf)
      BY <1>4, <1>12
    <3>2. w = p /\ v = u
      BY <3>1
    <3> QED
      BY <3>1, <3>2
  <2>2. CASE p = k.part + 1
    <3>1. from(p, u) = <<k.part + 1, i + u>>
      BY <2>2, SMTT(30)
    <3>2. u \in 1..Len(l.buf) /\ i + u \in Nat \ {0} /\ i + u <= Len(k.buf)
      BY <1>3, <2>1, <2>2
    <3>3. ~(k.part + 1 <= k.part) /\ k.part + 1 \in 1..(k.part + 1)
      OBVIOUS
    <3>4. <<k.part + 1, i + u>> \in P
      BY <1>7, <3>2, <3>3
    <3> QED
      <4>1. N(<<k.part + 1, i + u>>) = k.buf[i + u].n
        BY <1>10a
      <4>2. M(<<k.part + 1, u>>) = l.buf[u].n
        BY <1>10a
      <4>3. l.buf[u] = k.buf[i + u]
        BY <3>2, Zenon
      <4> QED
        BY <2>2, <3>1, <3>4, <4>1, <4>2, <4>3, Zenon
  <2>3. CASE p \in 1..k.part /\ u > Len(was(p))
    <3>1. p = k.part /\ u - j \in 1..i /\ is(p)[u] = k.buf[u - j]
      BY <1>8, <2>1, <2>3
    <3>2. from(p, u) = <<k.part + 1, u - j>>
      BY <2>3, <3>1
    <3>3. u - j \in Nat \ {0} /\ u - j <= Len(k.buf)
      <4>1. i <= Len(k.buf)
        BY <1>3
      <4> QED
        BY <1>3, <3>1, <4>1, SMTT(30)
    <3>4. ~(k.part + 1 <= k.part) /\ k.part + 1 \in 1..(k.part + 1)
      OBVIOUS
    <3>5. <<k.part + 1, u - j>> \in P
      BY <1>7, <3>3, <3>4
    <3> QED
      <4>1. N(<<k.part + 1, u - j>>) = k.buf[u - j].n
        BY <1>10a
      <4>2. M(<<p, u>>) = is(p)[u].n
        BY <1>10, <2>3
      <4> QED
        BY <3>1, <3>2, <3>5, <4>1, <4>2, Zenon
  <2>4. CASE p \in 1..k.part /\ ~(u > Len(was(p)))
    <3>1. from(p, u) = <<p, u>>
      BY <2>4, SMTT(30)
    <3>2. u \in 1..Len(was(p)) /\ is(p)[u] = was(p)[u]
      <4>1. Len(was(p)) \in Nat
        BY <1>2, <2>4
      <4>2. u \in 1..Len(was(p))
        BY <2>4, <4>1
      <4> QED
        BY <1>2, <2>4, <4>2, SMTT(30)
    <3>3. p <= k.part /\ ~(p = k.part + 1)
      BY <2>4
    <3>4. <<p, u>> \in P
      BY <1>7, <2>1, <3>2, <3>3
    <3> QED
      <4>1. N(<<p, u>>) = was(p)[u].n /\ M(<<p, u>>) = is(p)[u].n
        BY <1>10, <2>4, SMTT(30)
      <4> QED
        BY <3>1, <3>2, <3>4, <4>1, Zenon
  <2> QED
    BY <2>2, <2>3, <2>4, SMTT(30)
<1>13. ASSUME NEW p \in 1..(k.part + 1), NEW u \in Nat \ {0}, <<p, u>> \in P
       PROVE  \E t \in Q : M(t) = N(<<p, u>>)
  <2>1. /\ p <= k.part => u <= Len(was(p)) /\ IsOf(was(p)[u], s, r)
        /\ p = k.part + 1 => u <= Len(k.buf)
    <3>1. PICK w \in 1..(k.part + 1), v \in Nat \ {0} :
                /\ <<p, u>> = <<w, v>>
                /\ w <= k.part => v <= Len(was(w)) /\ IsOf(was(w)[v], s, r)
                /\ w = k.part + 1 => v <= Len(k.buf)
      BY <1>6, <1>13
    <3>2. w = p /\ v = u
      BY <3>1
    <3> QED
      BY <3>1, <3>2
  <2>2. CASE p \in 1..k.part
    <3>1. u \in 1..Len(was(p)) /\ is(p)[u] = was(p)[u] /\ u <= Len(is(p))
      BY <1>2, <2>1, <2>2
    <3>2. IsOf(is(p)[u], s, r) /\ ~(p = k.part + 1)
      BY <2>1, <2>2, <3>1
    <3>3. <<p, u>> \in Q
      BY <1>5, <3>1, <3>2
    <3> QED
      <4>1. N(<<p, u>>) = was(p)[u].n /\ M(<<p, u>>) = is(p)[u].n
        BY <1>10, <2>2
      <4> QED
        BY <3>1, <3>3, <4>1, Zenon
  <2>3. CASE p = k.part + 1 /\ u <= i
    <3>1. u \in 1..i /\ u \in 1..Len(k.buf) /\ j + u \in Nat \ {0} /\ j + u <= Len(is(k.part))
      <4>1. Len(is(k.part)) \in Nat
        BY <1>2, <1>3, Zenon
      <4>2. j + i <= Len(is(k.part))
        BY <1>9, Zenon
      <4> QED
        BY <1>3, <2>3, <4>1, <4>2, SMTT(30)
    <3>2. is(k.part)[j + u] = k.buf[u] /\ IsOf(k.buf[u], s, r)
      BY <1>9, <3>1
    <3>3. ~(k.part = k.part + 1) /\ k.part \in 1..(k.part + 1)
      OBVIOUS
    <3>4. <<k.part, j + u>> \in Q
      BY <1>5, <3>1, <3>2, <3>3
    <3> QED
      <4>1. N(<<p, u>>) = k.buf[u].n
        BY <1>10a, <2>3
      <4>2. M(<<k.part, j + u>>) = is(k.part)[j + u].n
        BY <1>3, <1>10
      <4> QED
        BY <3>2, <3>4, <4>1, <4>2, Zenon
  <2>4. CASE p = k.part + 1 /\ ~(u <= i)
    <3>1. u - i \in Nat \ {0} /\ u - i \in 1..Len(l.buf) /\ i + (u - i) = u
      BY <1>3, <2>1, <2>4
    <3>2. l.buf[u - i] = k.buf[u]
      <4>1. l.buf[u - i] = k.buf[i + (u - i)]
        BY <3>1, Zenon
      <4> QED
        BY <3>1, <4>1, Zenon
    <3>3. ~(k.part + 1 <= k.part) /\ k.part + 1 \in 1..(k.part + 1) /\ u - i <= Len(l.buf)
      BY <3>1, SMTT(30)
    <3>4. <<k.part + 1, u - i>> \in Q
      BY <1>5, <3>1, <3>3
    <3> QED
      <4>1. N(<<p, u>>) = k.buf[u].n
        BY <1>10a, <2>4
      <4>2. M(<<k.part + 1, u - i>>) = l.buf[u - i].n
        BY <1>10a
      <4> QED
        BY <3>2, <3>4, <4>1, <4>2, Zenon
  <2> QED
    <3>1. p \in 1..k.part \/ p = k.part + 1
      OBVIOUS
    <3> QED
      BY <2>2, <2>3, <2>4, <3>1, Zenon
<1>14. {M(q) : q \in Q} = 1..l.count
  <2>1. \A t \in Q : \E q \in P : N(q) = M(t)
    <3>1. SUFFICES ASSUME NEW t \in Q PROVE \E q \in P : N(q) = M(t)
      OBVIOUS
    <3>2. PICK p \in 1..(k.part + 1), u \in Nat \ {0} : t = <<p, u>>
      BY <1>4
    <3> HIDE DEF from
    <3> QED
      BY <1>12, <3>2
  <2>2. \A q \in P : \E t \in Q : M(t) = N(q)
    <3>1. SUFFICES ASSUME NEW q \in P PROVE \E t \in Q : M(t) = N(q)
      OBVIOUS
    <3>2. PICK p \in 1..(k.part + 1), u \in Nat \ {0} : q = <<p, u>>
      BY <1>6
    <3> QED
      BY <1>13, <3>2
  <2>3. {M(q) : q \in Q} = {N(q) : q \in P}
    BY <2>1, <2>2
  <2> QED
    BY <1>11, <2>3
<1>15. ASSUME NEW q \in Q, NEW t \in Q, Before(q, t)
       PROVE  M(q) < M(t)
  <2>1. PICK p \in 1..(k.part + 1), u \in Nat \ {0} : q = <<p, u>>
    BY <1>4
  <2>2. PICK w \in 1..(k.part + 1), v \in Nat \ {0} : t = <<w, v>>
    BY <1>4
  <2>3. p < w \/ (p = w /\ u < v)
    BY <1>15, <2>1, <2>2 DEF Before
  <2>4. u <= Len(was(p)) \/ p = k.part + 1 \/ (p = k.part /\ u - j \in 1..i)
    <3>1. CASE p \in 1..k.part /\ u > Len(was(p))
      <4>1. PICK a \in 1..(k.part + 1), b \in Nat \ {0} :
                /\ q = <<a, b>>
                /\ a <= k.part => b <= Len(is(a)) /\ IsOf(is(a)[b], s, r)
        BY <1>4
      <4>2. a = p /\ b = u
        BY <2>1, <4>1
      <4> QED
        BY <1>8, <3>1, <4>1, <4>2
    <3> QED
      BY <1>2, <3>1, SMTT(30)
  <2>5. v <= Len(was(w)) \/ w = k.part + 1 \/ (w = k.part /\ v - j \in 1..i)
    <3>1. CASE w \in 1..k.part /\ v > Len(was(w))
      <4>1. PICK a \in 1..(k.part + 1), b \in Nat \ {0} :
                /\ t = <<a, b>>
                /\ a <= k.part => b <= Len(is(a)) /\ IsOf(is(a)[b], s, r)
        BY <1>4
      <4>2. a = w /\ b = v
        BY <2>2, <4>1
      <4> QED
        BY <1>8, <3>1, <4>1, <4>2
    <3> QED
      <4>1. CASE w = k.part + 1
        BY <4>1
      <4>2. CASE w \in 1..k.part /\ ~(v > Len(was(w)))
        <5>1. Len(was(w)) \in Nat
          BY <1>2, <4>2, Zenon
        <5> QED
          BY <4>2, <5>1
      <4> QED
        BY <3>1, <4>1, <4>2, SMTT(30)
  <2> DEFINE a == IF p = k.part /\ u > Len(was(p)) THEN p + 1 ELSE p
             b == IF p = k.part /\ u > Len(was(p)) THEN u - j
                  ELSE IF p = k.part + 1 THEN i + u ELSE u
             x == IF w = k.part /\ v > Len(was(w)) THEN w + 1 ELSE w
             y == IF w = k.part /\ v > Len(was(w)) THEN v - j
                  ELSE IF w = k.part + 1 THEN i + v ELSE v
  <2>6. from(p, u) = <<a, b>> /\ from(w, v) = <<x, y>>
    OBVIOUS
  <2>7. a < x \/ (a = x /\ b < y)
    <3>1. Len(was(k.part)) \in Nat
      BY <1>2, <1>3
    <3> DEFINE n == Len(was(k.part))
    <3>2. /\ (p = k.part /\ u > Len(was(p))) <=> (p = k.part /\ u > n)
          /\ (w = k.part /\ v > Len(was(w))) <=> (w = k.part /\ v > n)
      OBVIOUS
    <3>3. /\ p = k.part /\ u > n => u - j \in 1..i
          /\ w = k.part /\ v > n => v - j \in 1..i
      BY <2>4, <2>5, <3>1, SMTT(30)
    <3> HIDE DEF n
    <3> QED
      BY <2>3, <3>1, <3>2, <3>3, SMTT(30) DEF n
  <2>8. Before(from(p, u), from(w, v))
    <3> HIDE DEF a, b, x, y, from
    <3> QED
      BY <2>6, <2>7 DEF Before
  <2> QED
    <3>1. from(p, u) \in P /\ N(from(p, u)) = M(q)
      BY <1>12, <2>1, ZenonT(30)
    <3>2. from(w, v) \in P /\ N(from(w, v)) = M(t)
      BY <1>12, <2>2, ZenonT(30)
    <3> HIDE DEF from
    <3> QED
      BY <1>11, <2>8, <3>1, <3>2
<1> QED
  BY <1>14, <1>15 DEF InOrder, Q, M

-----------------------------------------------------------------------------
(* A block more, a part more, none yet *)

\* A block is taken: it goes behind all others, in the stream.
LEMMA Taken ==
    ASSUME NEW files, NEW d, NEW k, NEW l, NEW s, NEW r, NEW block \in Blocks,
           k.part \in Nat \ {0}, k.count \in Nat, k.buf \in Seq(Blocks),
           l.part = k.part, l.base = k.base, l.count = k.count + 1,
           l.buf = Append(k.buf, block), block.n = k.count + 1,
           \A p \in 1..k.part : Text(files, d, k, p) \in Seq(Blocks),
           InOrder(files, d, k, s, r)
    PROVE  InOrder(files, d, l, s, r)
<1> DEFINE P == PlacesIn(files, d, k, s, r)
           Q == PlacesIn(files, d, l, s, r)
           n == Len(k.buf) + 1
           last == <<k.part + 1, n>>
           text(p) == Text(files, d, k, p)
           N(q) == NumberAt(files, d, k, q)
           M(q) == NumberAt(files, d, l, q)
<1>1. \A p : Text(files, d, l, p) = text(p)
  BY DEF Text
<1>2. /\ l.buf \in Seq(Blocks) /\ Len(l.buf) = n /\ Len(k.buf) \in Nat
      /\ \A u \in 1..Len(k.buf) : l.buf[u] = k.buf[u]
      /\ l.buf[n] = block
  BY AppendProperties, LenProperties
<1>3. \A p \in 1..l.part : Text(files, d, l, p) \in Seq(Blocks)
  BY <1>1
<1>4. ASSUME NEW q \in P
      PROVE  \E p \in 1..(k.part + 1), u \in Nat \ {0} :
                /\ q = <<p, u>>
                /\ p <= k.part => u <= Len(text(p)) /\ IsOf(text(p)[u], s, r)
                /\ p = k.part + 1 => u <= Len(k.buf)
  BY PlaceIs
<1>5. ASSUME NEW q \in Q
      PROVE  \E p \in 1..(k.part + 1), u \in Nat \ {0} :
                /\ q = <<p, u>>
                /\ p <= k.part => u <= Len(text(p)) /\ IsOf(text(p)[u], s, r)
                /\ p = k.part + 1 => u <= n
  <2>1. \E p \in 1..(l.part + 1), u \in Nat \ {0} :
                /\ q = <<p, u>>
                /\ p <= l.part => u <= Len(Text(files, d, l, p)) /\ IsOf(Text(files, d, l, p)[u], s, r)
                /\ p = l.part + 1 => u <= Len(l.buf)
    <3>1. Typed(files, d, l)
      BY <1>2, <1>3 DEF Typed
    <3>2. IsPlace(files, d, l, s, r, q)
      BY <3>1, Placed, Zenon
    <3> QED
      BY <3>2, Zenon DEF IsPlace
  <2> QED
    BY <1>1, <1>2, <2>1
<1>6. ASSUME NEW p \in 1..(k.part + 1), NEW u \in Nat \ {0},
             p <= k.part => u <= Len(text(p)) /\ IsOf(text(p)[u], s, r),
             p = k.part + 1 => u <= Len(k.buf)
      PROVE  <<p, u>> \in P
  <2>1. \E w \in 1..(k.part + 1), v \in Nat \ {0} :
                /\ <<p, u>> = <<w, v>>
                /\ w <= k.part => v <= Len(text(w)) /\ IsOf(text(w)[v], s, r)
                /\ w = k.part + 1 => v <= Len(k.buf)
    BY <1>6, Zenon
  <2> QED
    BY <2>1, PlaceIs
<1>7. ASSUME NEW p \in 1..(k.part + 1), NEW u \in Nat \ {0},
             p <= k.part => u <= Len(text(p)) /\ IsOf(text(p)[u], s, r),
             p = k.part + 1 => u <= n
      PROVE  <<p, u>> \in Q
  <2>1. p <= l.part => u <= Len(Text(files, d, l, p)) /\ IsOf(Text(files, d, l, p)[u], s, r)
    BY <1>1, <1>7
  <2>2. p \in 1..(l.part + 1) /\ (p = l.part + 1 => u <= Len(l.buf))
    BY <1>2, <1>7
  <2>3. \E w \in 1..(l.part + 1), v \in Nat \ {0} :
                /\ <<p, u>> = <<w, v>>
                /\ w <= l.part => v <= Len(Text(files, d, l, w)) /\ IsOf(Text(files, d, l, w)[v], s, r)
                /\ w = l.part + 1 => v <= Len(l.buf)
    BY <2>1, <2>2, Zenon
  <2> QED
    BY <1>2, <1>3, <2>3, PlaceIs
<1>8. ASSUME NEW p \in 1..k.part, NEW u PROVE N(<<p, u>>) = M(<<p, u>>)
  <2>1. p <= k.part
    OBVIOUS
  <2> QED
    BY <1>1, <2>1 DEF NumberAt
<1>9. ASSUME NEW u
      PROVE  N(<<k.part + 1, u>>) = k.buf[u].n /\ M(<<k.part + 1, u>>) = l.buf[u].n
  <2>1. ~(k.part + 1 <= k.part)
    OBVIOUS
  <2> QED
    BY <1>1, <2>1 DEF NumberAt
<1>10. {N(q) : q \in P} = 1..k.count /\ \A q, t \in P : Before(q, t) => N(q) < N(t)
  BY DEF InOrder
<1> HIDE DEF P, Q, N, M, text
<1>11. last \in Q /\ M(last) = k.count + 1
  <2>1. n \in Nat \ {0} /\ k.part + 1 \in 1..(k.part + 1) /\ ~(k.part + 1 <= k.part)
    BY <1>2
  <2>2. last \in Q
    BY <1>2, <1>7, <2>1
  <2> QED
    BY <1>2, <1>9, <2>2
<1>12. ASSUME NEW q \in Q
       PROVE  q = last \/ (q \in P /\ N(q) = M(q) /\ Before(q, last))
  <2>1. PICK p \in 1..(k.part + 1), u \in Nat \ {0} :
                /\ q = <<p, u>>
                /\ p <= k.part => u <= Len(text(p)) /\ IsOf(text(p)[u], s, r)
                /\ p = k.part + 1 => u <= n
    BY <1>5
  <2>2. CASE p \in 1..k.part
    <3>1. p <= k.part /\ ~(p = k.part + 1) /\ p < k.part + 1
      BY <2>2
    <3>2. q \in P
      BY <1>6, <2>1, <3>1
    <3>3. N(q) = M(q)
      BY <1>8, <2>1, <2>2
    <3> QED
      BY <2>1, <3>1, <3>2, <3>3 DEF Before
  <2>3. CASE p = k.part + 1 /\ u = n
    BY <2>1, <2>3
  <2>4. CASE p = k.part + 1 /\ u < n
    <3>1. ~(p <= k.part) /\ u \in 1..Len(k.buf) /\ u <= Len(k.buf)
      BY <1>2, <2>4
    <3>2. q \in P
      BY <1>6, <2>1, <3>1
    <3>3. N(q) = M(q)
      BY <1>2, <1>9, <2>1, <2>4, <3>1, SMTT(30)
    <3> QED
      BY <2>1, <2>4, <3>2, <3>3 DEF Before
  <2>5. p \in 1..k.part \/ (p = k.part + 1 /\ (u = n \/ u < n))
    BY <1>2, <2>1, SMTT(30)
  <2> QED
    BY <2>2, <2>3, <2>4, <2>5
<1>13. ASSUME NEW q \in P PROVE q \in Q /\ q # last
  <2>1. PICK p \in 1..(k.part + 1), u \in Nat \ {0} :
                /\ q = <<p, u>>
                /\ p <= k.part => u <= Len(text(p)) /\ IsOf(text(p)[u], s, r)
                /\ p = k.part + 1 => u <= Len(k.buf)
    BY <1>4
  <2>2. p = k.part + 1 => u <= n /\ u # n
    BY <1>2, <2>1
  <2>3. q \in Q
    BY <1>7, <2>1, <2>2
  <2> QED
    BY <2>1, <2>2, <2>3
<1>14. \A q \in P : M(q) = N(q)
  BY <1>12, <1>13
<1>15. {M(q) : q \in Q} = 1..(k.count + 1)
  <2>1. {M(q) : q \in Q} = {N(q) : q \in P} \cup {k.count + 1}
    <3>1. \A q \in Q : M(q) \in {N(t) : t \in P} \cup {k.count + 1}
      BY <1>11, <1>12
    <3>2. \A q \in P : N(q) \in {M(t) : t \in Q}
      BY <1>13, <1>14
    <3>3. k.count + 1 \in {M(t) : t \in Q}
      BY <1>11
    <3> QED
      BY <3>1, <3>2, <3>3
  <2> QED
    BY <1>10, <2>1, SMTT(30)
<1>16. \A q \in P : N(q) \in 1..k.count
  BY <1>10
<1>17. ASSUME NEW q \in Q, NEW t \in Q, Before(q, t) PROVE M(q) < M(t)
  <2>1. CASE q \in P /\ t \in P
    BY <1>10, <1>14, <1>17, <2>1
  <2>2. CASE q \in P /\ t = last
    <3>1. M(q) \in 1..k.count /\ M(t) = k.count + 1
      BY <1>11, <1>14, <1>16, <2>2
    <3> QED
      BY <3>1
  <2>3. ~Before(last, last) /\ \A v \in P : Before(v, last) => ~Before(last, v)
    <3>1. ~Before(last, last)
      BY <1>2 DEF Before
    <3>2. ASSUME NEW v \in P, Before(v, last) PROVE ~Before(last, v)
      <4>1. PICK p \in 1..(k.part + 1), u \in Nat \ {0} : v = <<p, u>>
        BY <1>4
      <4> QED
        BY <1>2, <3>2, <4>1 DEF Before
    <3> QED
      BY <3>1, <3>2
  <2>4. \A v \in P : Before(v, last)
    BY <1>12, <1>13
  <2> QED
    BY <1>12, <1>17, <2>1, <2>2, <2>3, <2>4
<1> QED
  BY <1>15, <1>17 DEF InOrder, Q, M

\* An empty stream goes on in a part that holds nothing of the sink.
LEMMA Turned ==
    ASSUME NEW files, NEW d, NEW k, NEW l, NEW s, NEW r,
           k.part \in Nat \ {0}, k.buf = <<>>, l.buf = <<>>,
           l.part = k.part + 1, l.base = k.base, l.count = k.count,
           \A p \in 1..(k.part + 1) : Text(files, d, k, p) \in Seq(Blocks),
           \A u \in 1..Len(Text(files, d, k, k.part + 1)) :
               ~IsOf(Text(files, d, k, k.part + 1)[u], s, r),
           InOrder(files, d, k, s, r)
    PROVE  InOrder(files, d, l, s, r)
<1> DEFINE P == PlacesIn(files, d, k, s, r)
           Q == PlacesIn(files, d, l, s, r)
           text(p) == Text(files, d, k, p)
<1>1. \A p : Text(files, d, l, p) = text(p)
  BY DEF Text
<1>2. <<>> \in Seq(Blocks) /\ Len(<<>>) = 0
  BY EmptySeq
<1>3. ASSUME NEW q
      PROVE  q \in P <=> \E p \in 1..k.part, u \in Nat \ {0} :
                q = <<p, u>> /\ u <= Len(text(p)) /\ IsOf(text(p)[u], s, r)
  <2>1. q \in P <=>
           \E p \in 1..(k.part + 1), u \in Nat \ {0} :
              /\ q = <<p, u>>
              /\ p <= k.part => u <= Len(text(p)) /\ IsOf(text(p)[u], s, r)
              /\ p = k.part + 1 => u <= Len(k.buf)
    <3>1. /\ k.part \in Nat /\ k.buf \in Seq(Blocks)
          /\ \A p \in 1..k.part : Text(files, d, k, p) \in Seq(Blocks)
      BY <1>2
    <3>2. q \in P <=> IsPlace(files, d, k, s, r, q)
      BY <3>1, Placed, Zenon DEF Typed
    <3> QED
      BY <3>2, Zenon DEF IsPlace
  <2>2. \A u \in Nat \ {0} : ~(u <= Len(k.buf))
    BY <1>2
  <2> HIDE DEF P, text
  <2>3. \A p \in 1..(k.part + 1) : p \in 1..k.part \/ p = k.part + 1
    OBVIOUS
  <2>4. \A p \in 1..k.part : p \in 1..(k.part + 1) /\ p <= k.part /\ p # k.part + 1
    OBVIOUS
  <2> QED
    BY <2>1, <2>2, <2>3, <2>4
<1>4. ASSUME NEW q
      PROVE  q \in Q <=> \E p \in 1..k.part, u \in Nat \ {0} :
                q = <<p, u>> /\ u <= Len(text(p)) /\ IsOf(text(p)[u], s, r)
  <2>0. /\ l.buf \in Seq(Blocks) /\ l.part \in Nat
        /\ \A p \in 1..l.part : Text(files, d, l, p) \in Seq(Blocks)
    BY <1>1, <1>2
  <2>1. q \in Q <=>
           \E p \in 1..(l.part + 1), u \in Nat \ {0} :
              /\ q = <<p, u>>
              /\ p <= l.part => u <= Len(Text(files, d, l, p)) /\ IsOf(Text(files, d, l, p)[u], s, r)
              /\ p = l.part + 1 => u <= Len(l.buf)
    <3>1. q \in Q <=> IsPlace(files, d, l, s, r, q)
      BY <2>0, Placed, Zenon DEF Typed
    <3> QED
      BY <3>1, Zenon DEF IsPlace
  <2>2. \A u \in Nat \ {0} : ~(u <= Len(l.buf))
    BY <1>2
  <2>3. ASSUME NEW u \in Nat \ {0}, u <= Len(text(k.part + 1)), IsOf(text(k.part + 1)[u], s, r)
        PROVE  FALSE
    <3>1. Len(text(k.part + 1)) \in Nat
      BY LenProperties
    <3> QED
      BY <2>3, <3>1
  <2>4. \A p \in 1..(l.part + 1) : p \in 1..k.part \/ p = k.part + 1 \/ p = l.part + 1
    OBVIOUS
  <2>5. \A p \in 1..k.part : p <= l.part /\ p # l.part + 1 /\ p \in 1..(l.part + 1)
    OBVIOUS
  <2>6. k.part + 1 <= l.part
    OBVIOUS
  <2> HIDE DEF Q, text
  <2>7. ASSUME NEW p \in 1..(l.part + 1), NEW u \in Nat \ {0}, q = <<p, u>>,
               p <= l.part => u <= Len(text(p)) /\ IsOf(text(p)[u], s, r),
               p = l.part + 1 => u <= Len(l.buf)
        PROVE  p \in 1..k.part /\ u <= Len(text(p)) /\ IsOf(text(p)[u], s, r)
    BY <2>2, <2>3, <2>4, <2>5, <2>6, <2>7
  <2>8. q \in Q => \E p \in 1..k.part, u \in Nat \ {0} :
                q = <<p, u>> /\ u <= Len(text(p)) /\ IsOf(text(p)[u], s, r)
    <3>1. SUFFICES ASSUME q \in Q
                   PROVE  \E p \in 1..k.part, u \in Nat \ {0} :
                             q = <<p, u>> /\ u <= Len(text(p)) /\ IsOf(text(p)[u], s, r)
      OBVIOUS
    <3>2. PICK p \in 1..(l.part + 1), u \in Nat \ {0} :
              /\ q = <<p, u>>
              /\ p <= l.part => u <= Len(text(p)) /\ IsOf(text(p)[u], s, r)
              /\ p = l.part + 1 => u <= Len(l.buf)
      BY <1>1, <2>1, <3>1
    <3> QED
      BY <2>7, <3>2
  <2>9. ASSUME NEW p \in 1..k.part, NEW u \in Nat \ {0},
               q = <<p, u>>, u <= Len(text(p)), IsOf(text(p)[u], s, r)
        PROVE  q \in Q
    BY <1>1, <2>1, <2>5, <2>9
  <2> QED
    BY <2>8, <2>9
<1>5. P = Q
  BY <1>3, <1>4
<1>6. ASSUME NEW q \in P PROVE NumberAt(files, d, k, q) = NumberAt(files, d, l, q)
  <2>1. PICK p \in 1..k.part, u \in Nat \ {0} : q = <<p, u>>
    BY <1>3
  <2>2. p <= k.part /\ p <= l.part
    OBVIOUS
  <2> QED
    BY <1>1, <2>1, <2>2 DEF NumberAt
<1>7. {NumberAt(files, d, l, q) : q \in Q} = {NumberAt(files, d, k, q) : q \in P}
  <2> HIDE DEF P, Q
  <2> QED
    BY <1>5, <1>6
<1> QED
  BY <1>5, <1>6, <1>7 DEF InOrder

\* No block counted, none there.
LEMMA NoneYet ==
    ASSUME NEW files, NEW d, NEW k, NEW s, NEW r, k.part = 1, k.buf = <<>>, k.count = 0,
           Text(files, d, k, 1) \in Seq(Blocks),
           \A u \in 1..Len(Text(files, d, k, 1)) : ~IsOf(Text(files, d, k, 1)[u], s, r)
    PROVE  InOrder(files, d, k, s, r)
<1>1. <<>> \in Seq(Blocks) /\ Len(<<>>) = 0
  BY EmptySeq
<1>2. ASSUME NEW q \in PlacesIn(files, d, k, s, r) PROVE FALSE
  <2>1. PICK p \in 1..(k.part + 1), u \in Nat \ {0} :
              /\ q = <<p, u>>
              /\ p <= k.part => u <= Len(Text(files, d, k, p)) /\ IsOf(Text(files, d, k, p)[u], s, r)
              /\ p = k.part + 1 => u <= Len(k.buf)
    <3>1. \A p \in 1..k.part : Text(files, d, k, p) \in Seq(Blocks)
      OBVIOUS
    <3>2. k.buf \in Seq(Blocks) /\ k.part \in Nat
      BY <1>1
    <3> QED
      <4>1. IsPlace(files, d, k, s, r, q)
        BY <1>2, <3>1, <3>2, Placed, Zenon DEF Typed
      <4> QED
        BY <4>1, Zenon DEF IsPlace
  <2>2. p = 1 \/ p = k.part + 1
    OBVIOUS
  <2>3. Len(Text(files, d, k, 1)) \in Nat
    BY LenProperties
  <2>4. p # k.part + 1
    BY <1>1, <2>1
  <2> QED
    BY <2>1, <2>2, <2>3, <2>4
<1>3. PlacesIn(files, d, k, s, r) = {}
  BY <1>2
<1> QED
  BY <1>3 DEF InOrder

-----------------------------------------------------------------------------
(* Concatenation *)

\* Indices of a piece of length m that starts behind place o of a whole of length t,
\* itself behind n others.
LEMMA Reaches ==
    ASSUME NEW o \in Nat, NEW m \in Nat, NEW t \in Nat, o + m <= t, NEW u \in 1..m
    PROVE  o + u \in 1..t /\ \A n \in Nat : (n + o) + u = n + (o + u)
  OBVIOUS

LEMMA Lands ==
    ASSUME NEW n \in Nat, NEW o \in Nat, NEW m \in Nat, NEW v \in Int, NEW u \in 1..m,
           v - n = o + u
    PROVE  v \in (n + o + 1)..(n + o + m)
  OBVIOUS

\* The order of the natural numbers.
Less == {p \in Nat \X Nat : p[1] < p[2]}

\* A set that holds 0 and every successor holds every natural number.
LEMMA SetInduction ==
    ASSUME NEW S \in SUBSET Nat, 0 \in S, \A n \in S : n + 1 \in S
    PROVE  Nat \subseteq S
<1>1. IsWellFoundedOn(Less, Nat)
  BY NatLessThanWellFounded DEF OpToRel, Less
<1> DEFINE T == Nat \ S
<1> SUFFICES ASSUME T # {} PROVE FALSE
  OBVIOUS
<1>2. PICK x \in T : \A y \in T : ~(<<y, x>> \in Less)
  <2> T \subseteq Nat
    OBVIOUS
  <2> HIDE DEF T
  <2> QED
    BY <1>1, WFMin
<1>3. x - 1 \in T
  <2>1. x \in Nat /\ x # 0 /\ x - 1 \in Nat
    OBVIOUS
  <2> QED
    BY <2>1
<1>4. <<x - 1, x>> \in Less
  BY <1>3 DEF Less
<1> QED
  BY <1>2, <1>3, <1>4

\* all is made of the first n sequences of e, each from its place o[i] on.
Covers(all, e, n) ==
    \E o \in [1..n -> Nat] :
        /\ \A i \in 1..n : /\ o[i] + Len(e[i]) <= Len(all)
                           /\ \A u \in 1..Len(e[i]) : all[o[i] + u] = e[i][u]
        /\ \A v \in 1..Len(all) : \E i \in 1..n : \E u \in 1..Len(e[i]) : v = o[i] + u

\* One sequence more at the end.
LEMMA CoversMore ==
    ASSUME NEW X, NEW e \in Seq(Seq(X)), NEW n \in Nat, n + 1 <= Len(e),
           NEW all \in Seq(X), Covers(all, e, n)
    PROVE  Covers(all \o e[n + 1], e, n + 1)
<1> DEFINE next == e[n + 1]
           whole == all \o next
<1>1. PICK o \in [1..n -> Nat] :
        /\ \A i \in 1..n : /\ o[i] + Len(e[i]) <= Len(all)
                           /\ \A u \in 1..Len(e[i]) : all[o[i] + u] = e[i][u]
        /\ \A v \in 1..Len(all) : \E i \in 1..n : \E u \in 1..Len(e[i]) : v = o[i] + u
  BY DEF Covers
<1>2. \A i \in 1..(n + 1) : e[i] \in Seq(X) /\ Len(e[i]) \in Nat
  <2>1. Len(e) \in Nat /\ DOMAIN e = 1..Len(e)
    BY LenProperties
  <2>2. \A i \in 1..(n + 1) : i \in 1..Len(e)
    BY <2>1
  <2> QED
    BY <2>2, ElementOfSeq, LenProperties
<1>3. n + 1 \in 1..(n + 1) /\ Len(all) \in Nat
  BY LenProperties
<1>4. /\ Len(whole) = Len(all) + Len(next)
      /\ \A v \in 1..Len(all) : whole[v] = all[v]
      /\ \A u \in 1..Len(next) : whole[Len(all) + u] = next[u]
  <2>1. next \in Seq(X) /\ Len(next) \in Nat
    BY <1>2, <1>3
  <2> HIDE DEF next
  <2>2. /\ Len(whole) = Len(all) + Len(next)
        /\ \A i \in 1..(Len(all) + Len(next)) :
               whole[i] = IF i <= Len(all) THEN all[i] ELSE next[i - Len(all)]
    BY <2>1, ConcatProperties
  <2> HIDE DEF whole
  <2>3. ASSUME NEW v \in 1..Len(all) PROVE whole[v] = all[v]
    <3>1. v \in 1..(Len(all) + Len(next)) /\ v <= Len(all)
      BY <1>3, <2>1
    <3> QED
      BY <2>2, <3>1
  <2>4. ASSUME NEW u \in 1..Len(next) PROVE whole[Len(all) + u] = next[u]
    <3>1. /\ Len(all) + u \in 1..(Len(all) + Len(next)) /\ ~(Len(all) + u <= Len(all))
          /\ (Len(all) + u) - Len(all) = u
      BY <1>3, <2>1
    <3> QED
      BY <2>2, <3>1
  <2> QED
    BY <2>2, <2>3, <2>4
<1> DEFINE w == [i \in 1..(n + 1) |-> IF i = n + 1 THEN Len(all) ELSE o[i]]
<1>5. w \in [1..(n + 1) -> Nat]
  BY <1>3
<1>6. w[n + 1] = Len(all) /\ \A i \in 1..n : w[i] = o[i]
  OBVIOUS
<1> HIDE DEF w, whole
<1>7. ASSUME NEW i \in 1..(n + 1)
      PROVE  /\ w[i] + Len(e[i]) <= Len(whole)
             /\ \A u \in 1..Len(e[i]) : whole[w[i] + u] = e[i][u]
  <2>1. CASE i = n + 1
    <3>1. w[i] = Len(all) /\ e[i] = next
      BY <1>6, <2>1
    <3>2. Len(next) \in Nat
      BY <1>2, <1>3
    <3> HIDE DEF next
    <3> QED
      BY <1>3, <1>4, <3>1, <3>2
  <2>2. CASE i \in 1..n
    <3>1. /\ w[i] \in Nat /\ Len(e[i]) \in Nat /\ w[i] + Len(e[i]) <= Len(all)
          /\ \A u \in 1..Len(e[i]) : all[w[i] + u] = e[i][u]
      BY <1>1, <1>2, <1>6, <2>2
    <3>2. Len(all) <= Len(whole) /\ Len(whole) \in Nat
      BY <1>2, <1>3, <1>4
    <3>3. \A u \in 1..Len(e[i]) : w[i] + u \in 1..Len(all)
      BY <1>3, <3>1, Reaches
    <3> QED
      <4>1. w[i] + Len(e[i]) <= Len(whole)
        BY <1>3, <3>1, <3>2
      <4>2. \A u \in 1..Len(e[i]) : whole[w[i] + u] = e[i][u]
        BY <1>4, <3>1, <3>3
      <4> QED
        BY <4>1, <4>2
  <2> QED
    BY <2>1, <2>2
<1>8. ASSUME NEW v \in 1..Len(whole)
      PROVE  \E i \in 1..(n + 1) : \E u \in 1..Len(e[i]) : v = w[i] + u
  <2>1. CASE v \in 1..Len(all)
    <3>1. PICK i \in 1..n : \E u \in 1..Len(e[i]) : v = o[i] + u
      BY <1>1, <2>1
    <3>2. i \in 1..(n + 1) /\ w[i] = o[i]
      BY <1>6
    <3> QED
      BY <3>1, <3>2
  <2>2. CASE v \notin 1..Len(all)
    <3>1. v - Len(all) \in 1..Len(e[n + 1]) /\ v = w[n + 1] + (v - Len(all))
      BY <1>2, <1>3, <1>4, <1>6, <2>2
    <3> QED
      BY <1>3, <3>1
  <2> QED
    BY <2>1, <2>2
<1> QED
  BY <1>5, <1>7, <1>8 DEF Covers, whole

\* The concatenation holds each of the sequences, and nothing else.
LEMMA Flattened ==
    ASSUME NEW X, NEW e \in Seq(Seq(X)), e # <<>>
    PROVE  FlattenSeq(e) \in Seq(X) /\ Covers(FlattenSeq(e), e, Len(e))
<1> DEFINE n == Len(e)
           Body(f, i) == IF i = 1 THEN e[i] ELSE f[i - 1] \o e[i]
           Solved(k) == \E g \in [1..k -> Seq(X)] : \A i \in 1..k : g[i] = Body(g, i)
           S == {k \in Nat : k <= n => Solved(k)}
<1>1. n \in Nat /\ n # 0 /\ \A i \in 1..n : e[i] \in Seq(X)
  BY LenProperties, EmptySeq, ElementOfSeq
<1>2. 0 \in S
  <2>1. [i \in 1..0 |-> e] \in [1..0 -> Seq(X)]
    OBVIOUS
  <2>2. \A i \in 1..0 : FALSE
    OBVIOUS
  <2>3. Solved(0)
    BY <2>1, <2>2, Zenon
  <2> HIDE DEF Solved
  <2> QED
    BY <2>3
<1>3. ASSUME NEW k \in S PROVE k + 1 \in S
  <2> SUFFICES ASSUME k + 1 <= n
               PROVE  Solved(k + 1)
    <3> HIDE DEF Solved
    <3> QED
      OBVIOUS
  <2>1. k \in Nat /\ k <= n /\ Solved(k)
    <3> HIDE DEF Solved
    <3> QED
      BY <1>1
  <2>2. PICK g \in [1..k -> Seq(X)] : \A i \in 1..k : g[i] = Body(g, i)
    BY <2>1
  <2> DEFINE h == [i \in 1..(k + 1) |-> IF i = k + 1 THEN Body(g, k + 1) ELSE g[i]]
  <2>3. Body(g, k + 1) \in Seq(X)
    <3>1. e[k + 1] \in Seq(X)
      BY <1>1, <2>1
    <3>2. CASE k = 0
      BY <3>1, <3>2
    <3>3. CASE k # 0
      <4>1. k \in 1..k /\ (k + 1) - 1 = k /\ k + 1 # 1
        BY <2>1, <3>3
      <4>2. g[k] \in Seq(X)
        BY <4>1
      <4>3. g[k] \o e[k + 1] \in Seq(X)
        BY <3>1, <4>2, ConcatProperties
      <4> QED
        BY <4>1, <4>3
    <3> QED
      BY <3>2, <3>3
  <2>4. h \in [1..(k + 1) -> Seq(X)]
    <3>1. \A i \in 1..(k + 1) : i = k + 1 \/ i \in 1..k
      BY <2>1
    <3> HIDE DEF Body
    <3> QED
      BY <2>3, <3>1
  <2>5. \A i \in 1..k : h[i] = g[i]
    <3> HIDE DEF Body
    <3> QED
      BY <2>1
  <2>6. h[k + 1] = Body(g, k + 1)
    <3> HIDE DEF Body
    <3> QED
      BY <2>1
  <2> HIDE DEF h
  <2>7. ASSUME NEW i \in 1..(k + 1) PROVE h[i] = Body(h, i)
    <3>1. Body(h, i) = Body(g, i)
      <4>1. CASE i = 1
        BY <4>1
      <4>2. CASE i # 1
        <5>1. i - 1 \in 1..k
          BY <2>1, <4>2
        <5> QED
          BY <2>5, <4>2, <5>1
      <4> QED
        BY <4>1, <4>2
    <3>2. i = k + 1 \/ i \in 1..k
      BY <2>1
    <3> HIDE DEF Body
    <3> QED
      BY <2>2, <2>5, <2>6, <3>1, <3>2
  <2> QED
    BY <2>4, <2>7
<1>4. n \in S
  <2>1. S \in SUBSET Nat
    OBVIOUS
  <2> HIDE DEF S
  <2> QED
    BY <1>1, <1>2, <1>3, <2>1, SetInduction
<1> DEFINE f == CHOOSE g : g = [i \in 1..n |-> Body(g, i)]
<1>5. f = [i \in 1..n |-> Body(f, i)]
  <2>0. Solved(n)
    <3> HIDE DEF Solved, n
    <3> QED
      BY <1>1, <1>4
  <2>1. PICK g \in [1..n -> Seq(X)] : \A i \in 1..n : g[i] = Body(g, i)
    BY <2>0
  <2>2. g = [i \in 1..n |-> Body(g, i)]
    <3> HIDE DEF Body, n
    <3> QED
      BY <2>1
  <2>3. \E q : q = [i \in 1..n |-> Body(q, i)]
    BY <2>2, Zenon
  <2> QED
    BY <2>3, Zenon
<1>6. FlattenSeq(e) = f[n]
  BY <1>1 DEF FlattenSeq
<1> DEFINE R == {k \in Nat : k + 1 <= n => f[k + 1] \in Seq(X) /\ Covers(f[k + 1], e, k + 1)}
<1> HIDE DEF f, S
<1>7. \A i \in 1..n : f[i] = Body(f, i)
  <2> HIDE DEF Body
  <2> QED
    BY <1>5
<1>8. 0 \in R
  <2>1. f[1] = e[1] /\ e[1] \in Seq(X)
    BY <1>1, <1>7
  <2>2. <<>> \in Seq(X) /\ Len(<<>>) = 0 /\ <<>> \o e[1] = e[1]
    BY <2>1, EmptySeq, ConcatEmptySeq
  <2>3. Covers(<<>>, e, 0)
    <3>1. [i \in 1..0 |-> 0] \in [1..0 -> Nat]
      OBVIOUS
    <3>2. 1..0 = {}
      OBVIOUS
    <3>3. 1..Len(<<>>) = {}
      BY <2>2
    <3> QED
      BY <3>1, <3>2, <3>3, Zenon DEF Covers
  <2>4. Covers(<<>> \o e[0 + 1], e, 0 + 1)
    <3>1. 0 \in Nat /\ 0 + 1 <= Len(e)
      BY <1>1
    <3> QED
      BY <2>2, <2>3, <3>1, CoversMore, Zenon
  <2> QED
    BY <2>1, <2>2, <2>4
<1>9. ASSUME NEW k \in R PROVE k + 1 \in R
  <2> SUFFICES ASSUME (k + 1) + 1 <= n
               PROVE  f[(k + 1) + 1] \in Seq(X) /\ Covers(f[(k + 1) + 1], e, (k + 1) + 1)
    OBVIOUS
  <2>1. k \in Nat /\ k + 1 \in Nat /\ k + 1 <= n
    BY <1>1
  <2>2. f[k + 1] \in Seq(X) /\ Covers(f[k + 1], e, k + 1)
    BY <2>1
  <2>3. f[(k + 1) + 1] = f[k + 1] \o e[(k + 1) + 1]
    <3>1. (k + 1) + 1 \in 1..n /\ (k + 1) + 1 # 1 /\ ((k + 1) + 1) - 1 = k + 1
      BY <1>1, <2>1
    <3> QED
      BY <1>7, <3>1
  <2>4. e[(k + 1) + 1] \in Seq(X)
    BY <1>1, <2>1
  <2>5. Covers(f[k + 1] \o e[(k + 1) + 1], e, (k + 1) + 1)
    BY <2>1, <2>2, CoversMore
  <2>6. f[k + 1] \o e[(k + 1) + 1] \in Seq(X)
    BY <2>2, <2>4, ConcatProperties
  <2> QED
    BY <2>3, <2>5, <2>6
<1>10. n - 1 \in R
  <2>1. R \in SUBSET Nat
    OBVIOUS
  <2> HIDE DEF R
  <2>2. Nat \subseteq R
    BY <1>8, <1>9, <2>1, SetInduction
  <2> QED
    BY <1>1, <2>2
<1>11. (n - 1) + 1 = n
  BY <1>1
<1> QED
  BY <1>6, <1>10, <1>11

-----------------------------------------------------------------------------
(* All sinks and files *)

\* A sink that the disk has never refused, with its own blocks in order.
Ordered(files, d, k, s, r) ==
    /\ k \in Sinks /\ k.part # 0 /\ ~k.bad /\ ~k.failed
    /\ \A u \in DOMAIN k.buf : IsOf(k.buf[u], s, r)
    /\ InOrder(files, d, k, s, r)

\* A block in the file f is of an earlier run, or of a sink that has f as a part: two
\* sinks may share a file, and a new part may have been written by an earlier run.
Fits(b, f, d, ks, r) ==
    /\ b.run <= r
    /\ b.run = r => /\ b.sink \in DOMAIN ks
                    /\ \E p \in 1..ks[b.sink].part : f = <<d, ks[b.sink].base, p>>

AtHome(files, d, ks, r) ==
    \A f \in DOMAIN files :
        files[f] \in Seq(Blocks) /\ \A u \in DOMAIN files[f] : Fits(files[f][u], f, d, ks, r)

\* All sinks and files of a process.
Good(files, d, ks, r) ==
    AtHome(files, d, ks, r) /\ \A s \in DOMAIN ks : Ordered(files, d, ks[s], s, r)

\* AtHome, file by file, whether the file exists or not.
LEMMA HeldFits ==
    ASSUME NEW files, NEW d, NEW ks, NEW r, AtHome(files, d, ks, r), NEW f
    PROVE  /\ Held(files, f) \in Seq(Blocks) /\ Len(Held(files, f)) \in Nat
           /\ \A u \in 1..Len(Held(files, f)) : Fits(Held(files, f)[u], f, d, ks, r)
<1>1. CASE f \in DOMAIN files
  <2>1. Held(files, f) = files[f]
    BY <1>1 DEF Held
  <2>2. files[f] \in Seq(Blocks) /\ \A u \in DOMAIN files[f] : Fits(files[f][u], f, d, ks, r)
    BY <1>1 DEF AtHome
  <2>3. DOMAIN files[f] = 1..Len(files[f]) /\ Len(files[f]) \in Nat
    BY <2>2, LenProperties
  <2> QED
    BY <2>1, <2>2, <2>3
<1>2. CASE f \notin DOMAIN files
  <2>1. Held(files, f) = <<>>
    BY <1>2 DEF Held
  <2>2. <<>> \in Seq(Blocks) /\ Len(<<>>) = 0 /\ 1..0 = {}
    BY EmptySeq
  <2> QED
    BY <2>1, <2>2
<1> QED
  BY <1>1, <1>2

LEMMA FitsHeld ==
    ASSUME NEW files, NEW d, NEW ks, NEW r,
           \A f : /\ Held(files, f) \in Seq(Blocks)
                  /\ \A u \in 1..Len(Held(files, f)) : Fits(Held(files, f)[u], f, d, ks, r)
    PROVE  AtHome(files, d, ks, r)
<1> SUFFICES ASSUME NEW f \in DOMAIN files
             PROVE  /\ files[f] \in Seq(Blocks)
                    /\ \A u \in DOMAIN files[f] : Fits(files[f][u], f, d, ks, r)
  BY DEF AtHome
<1>1. Held(files, f) = files[f]
  BY DEF Held
<1>2. files[f] \in Seq(Blocks)
  BY <1>1
<1>3. DOMAIN files[f] = 1..Len(files[f])
  BY <1>2, LenProperties
<1> QED
  BY <1>1, <1>2, <1>3

\* Where blocks of the sink s are found.
LEMMA OwnFiles ==
    ASSUME NEW files, NEW d, NEW ks, NEW r, AtHome(files, d, ks, r), NEW s, NEW f,
           NEW u \in 1..Len(Held(files, f)), IsOf(Held(files, f)[u], s, r)
    PROVE  \E p \in 1..ks[s].part : f = <<d, ks[s].base, p>>
  BY HeldFits DEF Fits, IsOf

\* Files grow by blocks of this run, each from the stream of a sink whose last part
\* the file is: whatever goes on in the files of the others.
LEMMA GoodGrows ==
    ASSUME NEW files, NEW more, NEW d, NEW ks, NEW lt, NEW r \in Nat,
           Good(files, d, ks, r), DOMAIN lt = DOMAIN ks,
           \A f : Extends(Held(files, f), Held(more, f)),
           \A f : \A v \in (Len(Held(files, f)) + 1)..Len(Held(more, f)) :
               /\ Held(more, f)[v].run = r /\ Held(more, f)[v].sink \in DOMAIN ks
               /\ f = <<d, ks[Held(more, f)[v].sink].base, ks[Held(more, f)[v].sink].part>>,
           \A s \in DOMAIN ks :
               /\ Alike(ks[s], lt[s])
               /\ \E i \in Nat, j \in Nat :
                      Shifted(Held(files, <<d, ks[s].base, ks[s].part>>),
                              Held(more, <<d, ks[s].base, ks[s].part>>), ks[s], lt[s], s, r, i, j)
    PROVE  Good(more, d, lt, r)
<1>1. AtHome(files, d, ks, r) /\ \A s \in DOMAIN ks : Ordered(files, d, ks[s], s, r)
  BY DEF Good
<1>2. \A f : /\ Held(files, f) \in Seq(Blocks) /\ Held(more, f) \in Seq(Blocks)
             /\ Len(Held(files, f)) \in Nat /\ Len(Held(more, f)) \in Nat
             /\ Len(Held(files, f)) <= Len(Held(more, f))
             /\ \A u \in 1..Len(Held(files, f)) : Held(more, f)[u] = Held(files, f)[u]
  BY LenProperties DEF Extends
<1>3. \A s \in DOMAIN ks : lt[s].part = ks[s].part /\ lt[s].base = ks[s].base
                           /\ ks[s].part \in Nat \ {0} /\ ks[s].buf \in Seq(Blocks)
                           /\ lt[s].buf \in Seq(Blocks)
  BY <1>1 DEF Alike, Ordered, Sinks
<1>4. AtHome(more, d, lt, r)
  <2>1. ASSUME NEW f, NEW u \in 1..Len(Held(more, f))
        PROVE  Fits(Held(more, f)[u], f, d, lt, r)
    <3>1. CASE u \in 1..Len(Held(files, f))
      <4>1. Fits(Held(more, f)[u], f, d, ks, r)
        BY <1>1, <1>2, <3>1, HeldFits
      <4> QED
        BY <1>3, <4>1 DEF Fits
    <3>2. CASE u \notin 1..Len(Held(files, f))
      <4>1. u \in (Len(Held(files, f)) + 1)..Len(Held(more, f))
        BY <1>2, <3>2
      <4> DEFINE b == Held(more, f)[u]
      <4>2. b.run = r /\ b.sink \in DOMAIN ks /\ f = <<d, ks[b.sink].base, ks[b.sink].part>>
        BY <4>1
      <4> HIDE DEF b
      <4>3. ks[b.sink].part \in 1..ks[b.sink].part
        BY <1>3, <4>2
      <4>4. Fits(b, f, d, lt, r)
        BY <1>3, <4>2, <4>3, SMTT(30) DEF Fits
      <4> QED
        BY <4>4 DEF b
    <3> QED
      BY <3>1, <3>2
  <2> QED
    BY <1>2, <2>1, FitsHeld
<1>5. ASSUME NEW s \in DOMAIN ks PROVE Ordered(more, d, lt[s], s, r)
  <2> DEFINE k == ks[s]
             l == lt[s]
             file == <<d, k.base, k.part>>
  <2>1. PICK i \in Nat, j \in Nat : Shifted(Held(files, file), Held(more, file), k, l, s, r, i, j)
    BY Zenon
  <2>2. /\ k \in Sinks /\ l \in Sinks /\ ~l.bad /\ ~l.failed
        /\ k.part \in Nat \ {0} /\ l.part = k.part /\ l.base = k.base /\ l.count = k.count
        /\ k.buf \in Seq(Blocks) /\ l.buf \in Seq(Blocks)
        /\ InOrder(files, d, k, s, r)
    BY <1>1, <1>3 DEF Ordered, Alike
  <2>3. /\ DOMAIN k.buf = 1..Len(k.buf) /\ Len(k.buf) \in Nat
        /\ DOMAIN l.buf = 1..Len(l.buf) /\ Len(l.buf) \in Nat
    BY <2>2, LenProperties
  <2>4. \A u \in 1..Len(k.buf) : IsOf(k.buf[u], s, r)
    BY <1>1, <2>3 DEF Ordered
  <2>5. \A p : Text(files, d, k, p) = Held(files, <<d, k.base, p>>)
               /\ Text(more, d, k, p) = Held(more, <<d, k.base, p>>)
    BY DEF Text
  <2>6. \A p \in 1..k.part : Extends(Text(files, d, k, p), Text(more, d, k, p))
    BY <2>5
  <2>7. ASSUME NEW p \in 1..k.part,
               NEW u \in (Len(Text(files, d, k, p)) + 1)..Len(Text(more, d, k, p)),
               IsOf(Text(more, d, k, p)[u], s, r)
        PROVE  p = k.part
    <3> DEFINE f == <<d, k.base, p>>
               b == Held(more, f)[u]
    <3>1. u \in (Len(Held(files, f)) + 1)..Len(Held(more, f)) /\ b.sink = s
      BY <2>5, <2>7, Zenon DEF IsOf
    <3>2. f = <<d, ks[b.sink].base, ks[b.sink].part>>
      BY <3>1
    <3> QED
      BY <3>1, <3>2
  <2>8. Shifted(Text(files, d, k, k.part), Text(more, d, k, k.part), k, l, s, r, i, j)
    BY <2>1, <2>5
  <2>9. InOrder(more, d, l, s, r)
    <3>1. Grown(files, more, d, k, s, r)
      BY <2>6, <2>7 DEF Grown
    <3>2. Alike(k, l) /\ \A u \in DOMAIN k.buf : IsOf(k.buf[u], s, r)
      BY <2>3, <2>4
    <3> QED
      BY <2>2, <2>8, <3>1, <3>2, Moves
  <2>10. \A u \in 1..Len(l.buf) : IsOf(l.buf[u], s, r)
    <3>1. \A u \in 1..Len(l.buf) : i + u \in 1..Len(k.buf)
      BY <2>3, <2>8 DEF Shifted
    <3> QED
      BY <2>4, <2>8, <3>1 DEF Shifted
  <2> QED
    BY <2>2, <2>3, <2>9, <2>10 DEF Ordered, l
<1> QED
  BY <1>4, <1>5 DEF Good

-----------------------------------------------------------------------------
(* Spills *)

\* The file that is open.
FileAt(d, k) == <<d, k.base, k.part>>

\* A sequence cut in two, and two put together.
LEMMA Cut ==
    ASSUME NEW q \in Seq(Blocks), NEW i \in 0..Len(q)
    PROVE  /\ SubSeq(q, 1, i) \in Seq(Blocks) /\ Len(SubSeq(q, 1, i)) = i
           /\ \A u \in 1..i : SubSeq(q, 1, i)[u] = q[u]
           /\ LET rest == SubSeq(q, i + 1, Len(q))
              IN  /\ rest \in Seq(Blocks) /\ Len(q) = i + Len(rest)
                  /\ \A u \in 1..Len(rest) : rest[u] = q[i + u]
<1> DEFINE out == SubSeq(q, 1, i)
           rest == SubSeq(q, i + 1, Len(q))
<1>1. Len(q) \in Nat /\ i \in Nat /\ i <= Len(q) /\ \A u \in 1..Len(q) : q[u] \in Blocks
  BY LenProperties, ElementOfSeq
<1>2. /\ out \in Seq(Blocks) /\ (Len(out) = IF 1 <= i THEN i - 1 + 1 ELSE 0)
      /\ \A u \in 1..(i - 1 + 1) : out[u] = q[1 + u - 1]
  <2>1. \A u \in 1..i : q[u] \in Blocks
    BY <1>1
  <2> QED
    BY <1>1, <2>1, SubSeqProperties
<1>3. /\ rest \in Seq(Blocks)
      /\ Len(rest) = IF i + 1 <= Len(q) THEN Len(q) - (i + 1) + 1 ELSE 0
      /\ \A u \in 1..(Len(q) - (i + 1) + 1) : rest[u] = q[(i + 1) + u - 1]
  <2>1. \A u \in (i + 1)..Len(q) : q[u] \in Blocks
    BY <1>1
  <2> QED
    BY <1>1, <2>1, SubSeqProperties
<1> HIDE DEF out, rest
<1>4. Len(out) = i /\ \A u \in 1..i : out[u] = q[u]
  BY <1>1, <1>2
<1>5. Len(q) = i + Len(rest)
  BY <1>1, <1>3
<1>6. ASSUME NEW u \in 1..Len(rest) PROVE rest[u] = q[i + u]
  <2>1. u \in 1..(Len(q) - (i + 1) + 1) /\ (i + 1) + u - 1 = i + u
    BY <1>1, <1>3, <1>5
  <2> QED
    BY <1>3, <2>1
<1> QED
  BY <1>2, <1>3, <1>4, <1>5, <1>6 DEF out, rest

LEMMA Joined ==
    ASSUME NEW a \in Seq(Blocks), NEW b \in Seq(Blocks)
    PROVE  /\ a \o b \in Seq(Blocks) /\ Len(a \o b) = Len(a) + Len(b)
           /\ \A u \in 1..Len(a) : (a \o b)[u] = a[u]
           /\ \A u \in 1..Len(b) : (a \o b)[Len(a) + u] = b[u]
           /\ Extends(a, a \o b)
<1> DEFINE c == a \o b
<1>1. Len(a) \in Nat /\ Len(b) \in Nat
  BY LenProperties
<1>2. /\ c \in Seq(Blocks) /\ Len(c) = Len(a) + Len(b)
      /\ \A u \in 1..(Len(a) + Len(b)) : c[u] = IF u <= Len(a) THEN a[u] ELSE b[u - Len(a)]
  BY ConcatProperties
<1> HIDE DEF c
<1>3. \A u \in 1..Len(a) : c[u] = a[u]
  BY <1>1, <1>2
<1>4. ASSUME NEW u \in 1..Len(b) PROVE c[Len(a) + u] = b[u]
  <2>1. /\ Len(a) + u \in 1..(Len(a) + Len(b)) /\ ~(Len(a) + u <= Len(a))
        /\ (Len(a) + u) - Len(a) = u
    BY <1>1
  <2> QED
    BY <1>2, <2>1
<1>5. Extends(a, c)
  BY <1>1, <1>2, <1>3 DEF Extends
<1> QED
  BY <1>2, <1>3, <1>4, <1>5 DEF c

\* The blocks are put at the end of the file.
Appended(files, more, file, blocks) ==
    /\ Held(more, file) = Held(files, file) \o blocks
    /\ \A f : f # file => Held(more, f) = Held(files, f)

\* One stream spills the first of its blocks.
LEMMA Spilled ==
    ASSUME NEW files, NEW more, NEW d, NEW ks, NEW lt, NEW r \in Nat, NEW s \in DOMAIN ks,
           Good(files, d, ks, r), DOMAIN lt = DOMAIN ks,
           \A u \in DOMAIN ks : u # s => lt[u] = ks[u],
           Alike(ks[s], lt[s]), NEW i \in 0..Len(ks[s].buf),
           lt[s].buf = SubSeq(ks[s].buf, i + 1, Len(ks[s].buf)),
           Appended(files, more, FileAt(d, ks[s]), SubSeq(ks[s].buf, 1, i))
    PROVE  Good(more, d, lt, r)
<1> DEFINE q == ks[s].buf
           out == SubSeq(q, 1, i)
           file == FileAt(d, ks[s])
           n == Len(Held(files, file))
<1>1. /\ AtHome(files, d, ks, r)
      /\ \A u \in DOMAIN ks : /\ ks[u] \in Sinks /\ ~ks[u].bad /\ ~ks[u].failed
                              /\ \A v \in DOMAIN ks[u].buf : IsOf(ks[u].buf[v], u, r)
  BY DEF Good, Ordered
<1>2. q \in Seq(Blocks) /\ DOMAIN q = 1..Len(q) /\ Len(q) \in Nat /\ i \in Nat /\ i <= Len(q)
  <2>1. q \in Seq(Blocks)
    BY <1>1 DEF Sinks
  <2> QED
    BY <2>1, LenProperties
<1>3. /\ out \in Seq(Blocks) /\ Len(out) = i
      /\ \A u \in 1..i : out[u] = q[u]
  BY <1>2, Cut
<1>4. /\ lt[s].buf \in Seq(Blocks) /\ Len(q) = i + Len(lt[s].buf)
      /\ \A u \in 1..Len(lt[s].buf) : lt[s].buf[u] = q[i + u]
  BY <1>2, Cut
<1>5. \A f : Held(files, f) \in Seq(Blocks) /\ Len(Held(files, f)) \in Nat
  BY <1>1, HeldFits
<1>6. \A f : f # file => Held(more, f) = Held(files, f)
  BY DEF Appended
<1>7. /\ Held(more, file) \in Seq(Blocks) /\ Len(Held(more, file)) = n + i
      /\ \A u \in 1..n : Held(more, file)[u] = Held(files, file)[u]
      /\ \A u \in 1..i : Held(more, file)[n + u] = q[u]
  <2>1. Held(more, file) = Held(files, file) \o out
    BY DEF Appended
  <2>2. Held(files, file) \in Seq(Blocks)
    BY <1>5
  <2> HIDE DEF out, file, q
  <2> QED
    <3> DEFINE a == Held(files, file)
    <3>1. a \in Seq(Blocks)
      BY <2>2
    <3> HIDE DEF a
    <3>2. /\ a \o out \in Seq(Blocks) /\ Len(a \o out) = Len(a) + Len(out)
          /\ \A u \in 1..Len(a) : (a \o out)[u] = a[u]
          /\ \A u \in 1..Len(out) : (a \o out)[Len(a) + u] = out[u]
      BY <1>3, <3>1, Joined
    <3>3. Held(more, file) = a \o out /\ Held(files, file) = a /\ n = Len(a)
      BY <2>1 DEF a
    <3> HIDE DEF n
    <3>4. \A u \in 1..i : Held(more, file)[n + u] = q[u]
      BY <1>3, <3>2, <3>3, Zenon
    <3> QED
      BY <1>3, <3>2, <3>3, <3>4, Zenon
<1>8. n \in Nat
  BY <1>5
<1> HIDE DEF out, q, n
<1>9. ASSUME NEW v \in (n + 1)..(n + i) PROVE IsOf(Held(more, file)[v], s, r)
  <2>1. v - n \in 1..i /\ n + (v - n) = v
    BY <1>2, <1>8
  <2>2. v - n \in DOMAIN q
    BY <1>2, <2>1
  <2> QED
    BY <1>1, <1>7, <2>1, <2>2 DEF q
<1>10. ASSUME NEW f PROVE Extends(Held(files, f), Held(more, f))
  <2>1. CASE f = file
    BY <1>2, <1>5, <1>7, <1>8, <2>1 DEF Extends, n
  <2>2. CASE f # file
    BY <1>5, <1>6, <2>2 DEF Extends
  <2> QED
    BY <2>1, <2>2
<1>11. ASSUME NEW f, NEW v \in (Len(Held(files, f)) + 1)..Len(Held(more, f))
       PROVE  /\ Held(more, f)[v].run = r /\ Held(more, f)[v].sink \in DOMAIN ks
              /\ f = <<d, ks[Held(more, f)[v].sink].base, ks[Held(more, f)[v].sink].part>>
  <2>1. f = file
    BY <1>5, <1>6, <1>11
  <2>2. v \in (n + 1)..(n + i)
    BY <1>7, <1>11, <2>1 DEF n
  <2>3. Held(more, f)[v].run = r /\ Held(more, f)[v].sink = s
    BY <1>9, <2>1, <2>2 DEF IsOf
  <2> QED
    BY <2>1, <2>3 DEF FileAt
<1>12. ASSUME NEW u \in DOMAIN ks
       PROVE  /\ Alike(ks[u], lt[u])
              /\ \E j \in Nat, w \in Nat :
                     Shifted(Held(files, <<d, ks[u].base, ks[u].part>>),
                             Held(more, <<d, ks[u].base, ks[u].part>>), ks[u], lt[u], u, r, j, w)
  <2> DEFINE g == <<d, ks[u].base, ks[u].part>>
  <2>1. CASE u = s
    <3>1. g = file
      BY <2>1 DEF FileAt
    <3>4. Shifted(Held(files, file), Held(more, file), ks[s], lt[s], s, r, i, n)
      BY <1>2, <1>4, <1>7, <1>8 DEF Shifted, n, q
    <3> QED
      BY <1>2, <1>8, <2>1, <3>1, <3>4
  <2>2. CASE u # s
    <3>1. lt[u] = ks[u] /\ ks[u] \in Sinks /\ ~ks[u].bad /\ ~ks[u].failed
      BY <1>1, <2>2
    <3>2. ks[u].buf \in Seq(Blocks) /\ Len(ks[u].buf) \in Nat
      <4>1. ks[u].buf \in Seq(Blocks)
        BY <3>1 DEF Sinks
      <4> QED
        BY <4>1, LenProperties
    <3>3. Extends(Held(files, g), Held(more, g)) /\ Len(Held(files, g)) \in Nat
      BY <1>5, <1>10
    <3>4. ASSUME NEW v \in (Len(Held(files, g)) + 1)..Len(Held(more, g)), IsOf(Held(more, g)[v], u, r)
          PROVE  FALSE
      <4>1. g = file
        BY <1>5, <1>6, <3>4, SMTT(30)
      <4>2. v \in (n + 1)..(n + i)
        BY <1>7, <3>4, <4>1 DEF n
      <4> QED
        BY <1>9, <2>2, <3>4, <4>1, <4>2 DEF IsOf
    <3> DEFINE m == Len(Held(files, g))
    <3>5. /\ Len(ks[u].buf) = 0 + Len(ks[u].buf)
          /\ \A v \in 1..Len(ks[u].buf) : ks[u].buf[v] = ks[u].buf[0 + v]
          /\ m <= m /\ m + 0 <= Len(Held(more, g))
      BY <3>2, <3>3 DEF Extends
    <3>6. 1..0 = {} /\ 0 \in Nat /\ m \in Nat
      BY <3>3
    <3>7. Shifted(Held(files, g), Held(more, g), ks[u], ks[u], u, r, 0, m)
      <4> HIDE DEF g
      <4> QED
        BY <3>4, <3>5, <3>6 DEF Shifted
    <3>8. Alike(ks[u], ks[u])
      BY <3>1 DEF Alike
    <3> QED
      BY <3>1, <3>6, <3>7, <3>8
  <2> QED
    BY <2>1, <2>2
<1> QED
  BY <1>10, <1>11, <1>12, GoodGrows

-----------------------------------------------------------------------------
(* Single sinks *)

\* One sink takes a block.
LEMMA Took ==
    ASSUME NEW files, NEW d, NEW ks, NEW lt, NEW r \in Nat, NEW s \in DOMAIN ks,
           Good(files, d, ks, r), DOMAIN lt = DOMAIN ks,
           \A u \in DOMAIN ks : u # s => lt[u] = ks[u],
           NEW block \in Blocks, IsOf(block, s, r), block.n = ks[s].count + 1,
           lt[s] \in Sinks, lt[s].part = ks[s].part, lt[s].base = ks[s].base,
           lt[s].count = ks[s].count + 1, ~lt[s].bad, ~lt[s].failed,
           lt[s].buf = Append(ks[s].buf, block)
    PROVE  Good(files, d, lt, r)
<1>1. AtHome(files, d, ks, r) /\ \A u \in DOMAIN ks : Ordered(files, d, ks[u], u, r)
  BY DEF Good
<1>2. \A u \in DOMAIN ks : lt[u].part = ks[u].part /\ lt[u].base = ks[u].base
  OBVIOUS
<1>3. AtHome(files, d, lt, r)
  BY <1>1, <1>2 DEF AtHome, Fits
<1>4. Ordered(files, d, lt[s], s, r)
  <2> DEFINE k == ks[s]
             l == lt[s]
             q == k.buf
  <2>1. /\ k \in Sinks /\ k.part # 0 /\ (\A u \in DOMAIN q : IsOf(q[u], s, r))
        /\ InOrder(files, d, k, s, r)
    BY <1>1 DEF Ordered
  <2>2. k.part \in Nat \ {0} /\ k.count \in Nat /\ q \in Seq(Blocks)
    BY <2>1 DEF Sinks
  <2>3. \A p \in 1..k.part : Text(files, d, k, p) \in Seq(Blocks)
    BY <1>1, HeldFits DEF Text
  <2>4. /\ l \in Sinks /\ ~l.bad /\ ~l.failed /\ l.part = k.part /\ l.base = k.base
        /\ l.count = k.count + 1 /\ l.buf = Append(q, block) /\ block.n = k.count + 1
    OBVIOUS
  <2> HIDE DEF k, l
  <2>5. InOrder(files, d, l, s, r)
    BY <2>1, <2>2, <2>3, <2>4, Taken
  <2>6. ASSUME NEW u \in DOMAIN l.buf PROVE IsOf(l.buf[u], s, r)
    <3> HIDE DEF q
    <3>1. /\ Len(l.buf) = Len(q) + 1 /\ l.buf \in Seq(Blocks)
          /\ \A v \in 1..Len(q) : l.buf[v] = q[v]
          /\ l.buf[Len(q) + 1] = block
      BY <2>2, <2>4, AppendProperties
    <3>2. DOMAIN l.buf = 1..Len(l.buf) /\ DOMAIN q = 1..Len(q) /\ Len(q) \in Nat
      BY <2>2, <3>1, LenProperties
    <3>3. u \in 1..Len(q) \/ u = Len(q) + 1
      BY <3>1, <3>2
    <3> QED
      BY <2>1, <3>1, <3>2, <3>3
  <2> QED
    BY <2>1, <2>4, <2>5, <2>6 DEF Ordered, l
<1>5. ASSUME NEW u \in DOMAIN ks PROVE Ordered(files, d, lt[u], u, r)
  BY <1>1, <1>4
<1> QED
  BY <1>3, <1>5 DEF Good

\* One sink with an empty stream goes on in its next part.
LEMMA WentOn ==
    ASSUME NEW files, NEW d, NEW ks, NEW lt, NEW r \in Nat, NEW s \in DOMAIN ks,
           Good(files, d, ks, r), DOMAIN lt = DOMAIN ks,
           \A u \in DOMAIN ks : u # s => lt[u] = ks[u],
           lt[s] \in Sinks, lt[s].part = ks[s].part + 1, lt[s].base = ks[s].base,
           lt[s].count = ks[s].count, ~lt[s].bad, ~lt[s].failed,
           ks[s].buf = <<>>, lt[s].buf = <<>>
    PROVE  Good(files, d, lt, r)
<1>1. AtHome(files, d, ks, r) /\ \A u \in DOMAIN ks : Ordered(files, d, ks[u], u, r)
  BY DEF Good
<1>2. ASSUME NEW u \in DOMAIN ks
      PROVE  lt[u].base = ks[u].base /\ 1..ks[u].part \subseteq 1..lt[u].part
  <2>1. CASE u = s
    <3>1. ks[s].part \in Nat
      BY <1>1 DEF Ordered, Sinks
    <3> QED
      BY <2>1, <3>1
  <2> QED
    BY <2>1
<1>3. AtHome(files, d, lt, r)
  <2>1. ASSUME NEW b, NEW f, Fits(b, f, d, ks, r) PROVE Fits(b, f, d, lt, r)
    BY <1>2, <2>1 DEF Fits
  <2> QED
    BY <1>1, <2>1 DEF AtHome
<1>4. Ordered(files, d, lt[s], s, r)
  <2> DEFINE k == ks[s]
             l == lt[s]
  <2>1. k \in Sinks /\ k.part # 0 /\ InOrder(files, d, k, s, r)
    BY <1>1 DEF Ordered
  <2>2. k.part \in Nat \ {0}
    BY <2>1 DEF Sinks
  <2>3. \A p : Text(files, d, k, p) \in Seq(Blocks)
    BY <1>1, HeldFits DEF Text
  <2>4. /\ l \in Sinks /\ ~l.bad /\ ~l.failed /\ l.part = k.part + 1 /\ l.base = k.base
        /\ l.count = k.count /\ l.buf = <<>> /\ k.buf = <<>>
    OBVIOUS
  <2>5. ASSUME NEW u \in 1..Len(Text(files, d, k, k.part + 1)),
               IsOf(Text(files, d, k, k.part + 1)[u], s, r)
        PROVE  FALSE
    <3> DEFINE f == <<d, k.base, k.part + 1>>
    <3>1. u \in 1..Len(Held(files, f)) /\ IsOf(Held(files, f)[u], s, r)
      BY <2>5 DEF Text
    <3>2. PICK p \in 1..k.part : f = <<d, k.base, p>>
      BY <1>1, <3>1, OwnFiles
    <3>3. p = k.part + 1
      BY <3>2
    <3> QED
      BY <2>2, <3>2, <3>3
  <2> HIDE DEF k, l
  <2>6. InOrder(files, d, l, s, r)
    BY <2>1, <2>2, <2>3, <2>4, <2>5, Turned
  <2>7. DOMAIN l.buf = {}
    BY <2>4, EmptySeq
  <2> QED
    BY <2>2, <2>4, <2>6, <2>7 DEF Ordered, l
<1>5. ASSUME NEW u \in DOMAIN ks PROVE Ordered(files, d, lt[u], u, r)
  BY <1>1, <1>4
<1> QED
  BY <1>3, <1>5 DEF Good

\* A sink that is new, when none of its blocks are in the files.
LEMMA NewOrdered ==
    ASSUME NEW files, NEW d, NEW k \in Sinks, NEW s, NEW r,
           k.part = 1, k.count = 0, k.buf = <<>>, ~k.bad, ~k.failed,
           \A f : /\ Held(files, f) \in Seq(Blocks)
                  /\ \A u \in 1..Len(Held(files, f)) : ~IsOf(Held(files, f)[u], s, r)
    PROVE  Ordered(files, d, k, s, r)
<1>1. InOrder(files, d, k, s, r)
  BY NoneYet DEF Text
<1>2. DOMAIN k.buf = {}
  BY EmptySeq
<1> QED
  BY <1>1, <1>2 DEF Ordered

-----------------------------------------------------------------------------
(* A flush of all *)

\* What each sink sends to the file f.
Sent(d, ks, f) == [s \in DOMAIN ks |-> IF f = FileAt(d, ks[s]) THEN ks[s].buf ELSE <<>>]

\* There is one stream for each sink.
LEMMA SentTyped ==
    ASSUME NEW d, NEW ks \in Seq(Sinks), ks # <<>>, NEW f
    PROVE  /\ Sent(d, ks, f) \in Seq(Seq(Blocks)) /\ Sent(d, ks, f) # <<>>
           /\ Len(Sent(d, ks, f)) = Len(ks) /\ DOMAIN ks = 1..Len(ks) /\ Len(ks) \in Nat
<1>1. DOMAIN ks = 1..Len(ks) /\ Len(ks) \in Nat /\ Len(ks) # 0
  BY LenProperties, EmptySeq
<1>2. \A s \in 1..Len(ks) : (IF f = FileAt(d, ks[s]) THEN ks[s].buf ELSE <<>>) \in Seq(Blocks)
  <2>1. \A s \in 1..Len(ks) : ks[s].buf \in Seq(Blocks)
    <3>1. \A s \in 1..Len(ks) : ks[s] \in Sinks
      BY <1>1, ElementOfSeq
    <3> QED
      BY <3>1 DEF Sinks
  <2> QED
    BY <2>1, EmptySeq
<1>3. Sent(d, ks, f) \in [1..Len(ks) -> Seq(Blocks)]
  BY <1>1, <1>2 DEF Sent
<1> DEFINE e == Sent(d, ks, f)
<1> HIDE DEF e
<1>4. e \in Seq(Seq(Blocks)) /\ DOMAIN e = 1..Len(ks)
  BY <1>1, <1>3, SeqDef DEF e
<1>5. Len(e) = Len(ks)
  BY <1>1, <1>4, LenProperties
<1>6. e # <<>>
  BY <1>1, <1>5, EmptySeq
<1> QED
  BY <1>1, <1>4, <1>5, <1>6 DEF e

\* The streams of the file f are in all, each from its place o[s] on, and nothing else.
Sets(all, d, ks, f, o) ==
    /\ \A s \in 1..Len(ks) : f = FileAt(d, ks[s]) =>
           /\ o[s] + Len(ks[s].buf) <= Len(all)
           /\ \A u \in 1..Len(ks[s].buf) : all[o[s] + u] = ks[s].buf[u]
    /\ \A v \in 1..Len(all) : \E s \in 1..Len(ks) :
           f = FileAt(d, ks[s]) /\ \E u \in 1..Len(ks[s].buf) : v = o[s] + u

\* All streams go into their files, those of one file one after the other.
LEMMA Flushes ==
    ASSUME NEW files, NEW more, NEW d, NEW ks \in Seq(Sinks), ks # <<>>, NEW lt, NEW r \in Nat,
           Good(files, d, ks, r), DOMAIN lt = DOMAIN ks,
           \A s \in DOMAIN ks : Alike(ks[s], lt[s]) /\ lt[s].buf = <<>>,
           \A s \in DOMAIN ks : ks[s].buf = <<>> \/ FileAt(d, ks[s]) \in DOMAIN files,
           more = [f \in DOMAIN files |-> files[f] \o FlattenSeq(Sent(d, ks, f))]
    PROVE  Good(more, d, lt, r)
<1> DEFINE Flat(f) == FlattenSeq(Sent(d, ks, f))
           was(f) == Held(files, f)
           is(f) == Held(more, f)
           m == Len(ks)
<1>1. /\ AtHome(files, d, ks, r) /\ DOMAIN ks = 1..m /\ m \in Nat
      /\ \A s \in DOMAIN ks : /\ ks[s].buf \in Seq(Blocks) /\ Len(ks[s].buf) \in Nat
                              /\ \A v \in 1..Len(ks[s].buf) : IsOf(ks[s].buf[v], s, r)
  <2>1. AtHome(files, d, ks, r) /\ DOMAIN ks = 1..m /\ m \in Nat
    BY LenProperties DEF Good
  <2>2. ASSUME NEW s \in DOMAIN ks
        PROVE  /\ ks[s].buf \in Seq(Blocks) /\ Len(ks[s].buf) \in Nat
               /\ \A v \in 1..Len(ks[s].buf) : IsOf(ks[s].buf[v], s, r)
    <3>1. ks[s].buf \in Seq(Blocks) /\ \A v \in DOMAIN ks[s].buf : IsOf(ks[s].buf[v], s, r)
      BY DEF Good, Ordered, Sinks
    <3> QED
      BY <3>1, LenProperties
  <2> QED
    BY <2>1, <2>2
<1>2. \A f : was(f) \in Seq(Blocks) /\ Len(was(f)) \in Nat
  BY <1>1, HeldFits
<1>3. ASSUME NEW f
      PROVE  /\ Flat(f) \in Seq(Blocks) /\ Len(Flat(f)) \in Nat
             /\ \E o \in [1..m -> Nat] : Sets(Flat(f), d, ks, f, o)
  <2> DEFINE e == Sent(d, ks, f)
  <2>1. e \in Seq(Seq(Blocks)) /\ e # <<>> /\ Len(e) = m
    BY SentTyped
  <2>2. \A s \in 1..m : e[s] = IF f = FileAt(d, ks[s]) THEN ks[s].buf ELSE <<>>
    BY <1>1 DEF Sent
  <2> HIDE DEF e
  <2>3. FlattenSeq(e) \in Seq(Blocks) /\ Covers(FlattenSeq(e), e, Len(e))
    BY <2>1, Flattened
  <2>4. Flat(f) = FlattenSeq(e)
    BY DEF e
  <2> HIDE DEF Flat, m
  <2>5. PICK o \in [1..m -> Nat] :
        /\ \A i \in 1..m : /\ o[i] + Len(e[i]) <= Len(Flat(f))
                           /\ \A u \in 1..Len(e[i]) : Flat(f)[o[i] + u] = e[i][u]
        /\ \A v \in 1..Len(Flat(f)) : \E i \in 1..m : \E u \in 1..Len(e[i]) : v = o[i] + u
    <3>1. Covers(Flat(f), e, m)
      BY <2>1, <2>3, <2>4
    <3> QED
      BY <3>1, Zenon DEF Covers
  <2>6. \A i \in 1..m : f = FileAt(d, ks[i]) => e[i] = ks[i].buf
    BY <2>2
  <2>7. \A i \in 1..m : f # FileAt(d, ks[i]) => \A u \in 1..Len(e[i]) : FALSE
    <3>1. Len(<<>>) = 0 /\ \A u \in 1..0 : FALSE
      BY EmptySeq
    <3> QED
      BY <2>2, <3>1
  <2>8. \A i \in 1..m : f = FileAt(d, ks[i]) =>
                         /\ o[i] + Len(ks[i].buf) <= Len(Flat(f))
                         /\ \A u \in 1..Len(ks[i].buf) : Flat(f)[o[i] + u] = ks[i].buf[u]
    <3>1. SUFFICES ASSUME NEW i \in 1..m, f = FileAt(d, ks[i])
                   PROVE  /\ o[i] + Len(ks[i].buf) <= Len(Flat(f))
                          /\ \A u \in 1..Len(ks[i].buf) : Flat(f)[o[i] + u] = ks[i].buf[u]
      BY Zenon
    <3>2. e[i] = ks[i].buf
      BY <2>6, <3>1
    <3>3. /\ o[i] + Len(e[i]) <= Len(Flat(f))
          /\ \A u \in 1..Len(e[i]) : Flat(f)[o[i] + u] = e[i][u]
      BY <2>5, Zenon
    <3> QED
      BY <3>2, <3>3, Zenon
  <2>9. \A v \in 1..Len(Flat(f)) : \E i \in 1..m : f = FileAt(d, ks[i])
                         /\ \E u \in 1..Len(ks[i].buf) : v = o[i] + u
    <3>1. SUFFICES ASSUME NEW v \in 1..Len(Flat(f))
                   PROVE  \E i \in 1..m : f = FileAt(d, ks[i])
                             /\ \E u \in 1..Len(ks[i].buf) : v = o[i] + u
      OBVIOUS
    <3>2. PICK i \in 1..m : \E u \in 1..Len(e[i]) : v = o[i] + u
      BY <2>5
    <3>3. f = FileAt(d, ks[i])
      BY <2>7, <3>2
    <3> QED
      BY <2>6, <3>2, <3>3
  <2>10. Sets(Flat(f), d, ks, f, o)
    BY <2>8, <2>9, Zenon DEF Sets, m
  <2> QED
    BY <2>3, <2>4, <2>10, LenProperties
<1>4. ASSUME NEW f \in DOMAIN files
      PROVE  /\ is(f) = was(f) \o Flat(f)
             /\ is(f) \in Seq(Blocks) /\ Len(is(f)) = Len(was(f)) + Len(Flat(f))
             /\ \A u \in 1..Len(was(f)) : is(f)[u] = was(f)[u]
             /\ \A u \in 1..Len(Flat(f)) : is(f)[Len(was(f)) + u] = Flat(f)[u]
             /\ Extends(was(f), is(f))
  <2>1. is(f) = was(f) \o Flat(f)
    BY DEF Held
  <2>2. was(f) \in Seq(Blocks) /\ Flat(f) \in Seq(Blocks)
    BY <1>2, <1>3
  <2> HIDE DEF is, was, Flat
  <2>3. /\ was(f) \o Flat(f) \in Seq(Blocks)
        /\ Len(was(f) \o Flat(f)) = Len(was(f)) + Len(Flat(f))
        /\ \A u \in 1..Len(was(f)) : (was(f) \o Flat(f))[u] = was(f)[u]
        /\ \A u \in 1..Len(Flat(f)) : (was(f) \o Flat(f))[Len(was(f)) + u] = Flat(f)[u]
        /\ Extends(was(f), was(f) \o Flat(f))
    BY <2>2, Joined
  <2> QED
    BY <2>1, <2>3, Zenon
<1>5. ASSUME NEW f, f \notin DOMAIN files PROVE was(f) = <<>> /\ is(f) = <<>>
  BY <1>5 DEF Held
<1> HIDE DEF Flat, was, is, m
<1>6. ASSUME NEW f PROVE Extends(was(f), is(f))
  <2>1. CASE f \notin DOMAIN files
    <3>1. <<>> \in Seq(Blocks) /\ Len(<<>>) = 0
      BY EmptySeq
    <3>2. Extends(<<>>, <<>>)
      BY <3>1 DEF Extends
    <3> QED
      BY <1>5, <2>1, <3>2, Zenon
  <2> QED
    BY <1>4, <2>1
\* Where a block behind what the file held comes from.
<1>7. ASSUME NEW f, NEW v \in (Len(was(f)) + 1)..Len(is(f))
      PROVE  /\ f \in DOMAIN files /\ v - Len(was(f)) \in 1..Len(Flat(f))
             /\ is(f)[v] = Flat(f)[v - Len(was(f))]
  <2>1. f \in DOMAIN files
    <3>1. Len(<<>>) = 0
      BY EmptySeq
    <3> QED
      BY <1>5, <1>7, <3>1
  <2>2. /\ v - Len(was(f)) \in 1..Len(Flat(f)) /\ Len(was(f)) + (v - Len(was(f))) = v
    BY <1>2, <1>3, <1>4, <1>7, <2>1
  <2> QED
    BY <1>4, <2>1, <2>2
<1>8. ASSUME NEW f, NEW v \in (Len(was(f)) + 1)..Len(is(f))
      PROVE  /\ is(f)[v].run = r /\ is(f)[v].sink \in DOMAIN ks
             /\ f = <<d, ks[is(f)[v].sink].base, ks[is(f)[v].sink].part>>
  <2>0. PICK o \in [1..m -> Nat] : Sets(Flat(f), d, ks, f, o)
    BY <1>3, Zenon
  <2>1. /\ \A s \in 1..m : f = FileAt(d, ks[s]) =>
             /\ o[s] + Len(ks[s].buf) <= Len(Flat(f))
             /\ \A u \in 1..Len(ks[s].buf) : Flat(f)[o[s] + u] = ks[s].buf[u]
      /\ \A w \in 1..Len(Flat(f)) : \E s \in 1..m : f = FileAt(d, ks[s])
             /\ \E u \in 1..Len(ks[s].buf) : w = o[s] + u
    BY <2>0, Zenon DEF Sets, m
  <2>2. v - Len(was(f)) \in 1..Len(Flat(f)) /\ is(f)[v] = Flat(f)[v - Len(was(f))]
    BY <1>7
  <2>3. PICK s \in 1..m : f = FileAt(d, ks[s])
                         /\ \E u \in 1..Len(ks[s].buf) : v - Len(was(f)) = o[s] + u
    BY <2>1, <2>2
  <2>4. PICK u \in 1..Len(ks[s].buf) : v - Len(was(f)) = o[s] + u
    BY <2>3
  <2>5. is(f)[v] = ks[s].buf[u]
    BY <2>1, <2>2, <2>3, <2>4
  <2>6. s \in DOMAIN ks /\ IsOf(ks[s].buf[u], s, r)
    BY <1>1
  <2> QED
    BY <2>3, <2>5, <2>6 DEF FileAt, IsOf
<1>9. ASSUME NEW s \in DOMAIN ks
      PROVE  \E i \in Nat, j \in Nat :
                 Shifted(was(FileAt(d, ks[s])), is(FileAt(d, ks[s])), ks[s], lt[s], s, r, i, j)
  <2> DEFINE f == FileAt(d, ks[s])
             q == ks[s].buf
  <2>1. s \in 1..m /\ q \in Seq(Blocks) /\ Len(q) \in Nat
    BY <1>1
  <2>2. lt[s].buf = <<>> /\ Len(lt[s].buf) = 0
    BY EmptySeq
  <2>3. \A u \in 1..0 : FALSE
    OBVIOUS
  <2>4. CASE f \notin DOMAIN files
    <3>1. q = <<>> /\ Len(q) = 0
      BY <2>4, EmptySeq
    <3>2. Len(was(f)) = 0 /\ Len(is(f)) = 0
      BY <1>5, <2>4, EmptySeq
    <3>3. ~\E v \in 1..0 : TRUE
      OBVIOUS
    <3>4. Shifted(was(f), is(f), ks[s], lt[s], s, r, 0, 0)
      <4> HIDE DEF f
      <4> QED
        BY <2>2, <2>3, <3>1, <3>2 DEF Shifted
    <3> QED
      BY <3>4
  <2>5. CASE f \in DOMAIN files
    <3>0. PICK o \in [1..m -> Nat] : Sets(Flat(f), d, ks, f, o)
      BY <1>3, Zenon
    <3>1. /\ \A t \in 1..m : f = FileAt(d, ks[t]) =>
               /\ o[t] + Len(ks[t].buf) <= Len(Flat(f))
               /\ \A u \in 1..Len(ks[t].buf) : Flat(f)[o[t] + u] = ks[t].buf[u]
        /\ \A w \in 1..Len(Flat(f)) : \E t \in 1..m : f = FileAt(d, ks[t])
               /\ \E u \in 1..Len(ks[t].buf) : w = o[t] + u
      BY <3>0, Zenon DEF Sets, m
    <3> DEFINE n == Len(was(f))
               j == n + o[s]
    <3>2. /\ o[s] \in Nat /\ n \in Nat /\ j \in Nat /\ Len(Flat(f)) \in Nat
          /\ Len(is(f)) = n + Len(Flat(f)) /\ o[s] + Len(q) <= Len(Flat(f))
      BY <1>2, <1>3, <1>4, <2>1, <2>5, <3>1
    <3>3. ASSUME NEW u \in 1..Len(q) PROVE is(f)[j + u] = q[u]
      <4>1. o[s] + u \in 1..Len(Flat(f)) /\ j + u = n + (o[s] + u)
        <5>1. Len(q) \in Nat
          BY <2>1
        <5> HIDE DEF n, q
        <5> QED
          BY <3>2, <5>1, Reaches, SMTT(30)
      <4>2. is(f)[n + (o[s] + u)] = Flat(f)[o[s] + u]
        BY <1>4, <2>5, <4>1
      <4>3. Flat(f)[o[s] + u] = q[u]
        BY <2>1, <3>1
      <4> QED
        BY <4>1, <4>2, <4>3
    <3>4. ASSUME NEW v \in (n + 1)..Len(is(f)), IsOf(is(f)[v], s, r)
          PROVE  v \in (j + 1)..(j + Len(q))
      <4>1. v - n \in 1..Len(Flat(f)) /\ is(f)[v] = Flat(f)[v - n]
        BY <1>7
      <4>2. PICK t \in 1..m : f = FileAt(d, ks[t]) /\ \E u \in 1..Len(ks[t].buf) : v - n = o[t] + u
        BY <3>1, <4>1
      <4>3. PICK u \in 1..Len(ks[t].buf) : v - n = o[t] + u
        BY <4>2
      <4>4. is(f)[v] = ks[t].buf[u]
        BY <3>1, <4>1, <4>2, <4>3
      <4>5. IsOf(ks[t].buf[u], t, r)
        BY <1>1
      <4>6. t = s
        BY <3>4, <4>4, <4>5 DEF IsOf
      <4>7. u \in 1..Len(q) /\ v - n = o[s] + u
        BY <4>3, <4>6
      <4> QED
        <5>1. v \in Int /\ Len(q) \in Nat
          BY <2>1, <3>2, <3>4
        <5> HIDE DEF q, n
        <5> QED
          BY <3>2, <4>7, <5>1, Lands
    <3>5. n <= j /\ j + Len(q) <= Len(is(f)) /\ Len(q) = Len(q) + 0
      BY <2>1, <3>2
    <3>6. Shifted(was(f), is(f), ks[s], lt[s], s, r, Len(q), j)
      <4> HIDE DEF j, f
      <4> QED
        BY <2>2, <2>3, <3>3, <3>4, <3>5 DEF Shifted, q
    <3> QED
      BY <2>1, <3>2, <3>6
  <2> QED
    BY <2>4, <2>5
<1> QED
  BY <1>6, <1>8, <1>9, GoodGrows DEF was, is, FileAt

-----------------------------------------------------------------------------
(* A working disk *)

\* An empty file that is created changes nothing.
LEMMA SameFiles ==
    ASSUME NEW files, NEW more, NEW d, NEW ks, NEW r \in Nat, Good(files, d, ks, r),
           \A f : Held(more, f) = Held(files, f)
    PROVE  Good(more, d, ks, r)
<1>1. AtHome(files, d, ks, r) /\ \A s \in DOMAIN ks : ks[s] \in Sinks /\ ~ks[s].bad /\ ~ks[s].failed
  BY DEF Good, Ordered
<1>2. \A f : Held(files, f) \in Seq(Blocks) /\ Len(Held(files, f)) \in Nat
  BY <1>1, HeldFits
<1>3. \A f : Extends(Held(files, f), Held(more, f))
  BY <1>2 DEF Extends
<1>4. ASSUME NEW f, NEW v \in (Len(Held(files, f)) + 1)..Len(Held(more, f)) PROVE FALSE
  BY <1>2, <1>4
<1>5. ASSUME NEW s \in DOMAIN ks
      PROVE  /\ Alike(ks[s], ks[s])
             /\ \E i \in Nat, j \in Nat :
                    Shifted(Held(files, <<d, ks[s].base, ks[s].part>>),
                            Held(more, <<d, ks[s].base, ks[s].part>>), ks[s], ks[s], s, r, i, j)
  <2> DEFINE was == Held(files, <<d, ks[s].base, ks[s].part>>)
             is == Held(more, <<d, ks[s].base, ks[s].part>>)
  <2>1. was = is /\ Len(was) \in Nat
    BY <1>2
  <2>2. Len(ks[s].buf) \in Nat
    <3>1. ks[s].buf \in Seq(Blocks)
      BY <1>1 DEF Sinks
    <3> QED
      BY <3>1, LenProperties
  <2> HIDE DEF was, is
  <2>3. Shifted(was, is, ks[s], ks[s], s, r, 0, Len(was))
    <3>1. \A u \in 1..0 : FALSE
      OBVIOUS
    <3>2. \A v \in (Len(was) + 1)..Len(was) : FALSE
      BY <2>1
    <3> QED
      BY <2>1, <2>2, <3>1, <3>2 DEF Shifted
  <2> QED
    BY <1>1, <2>1, <2>3 DEF Alike, was, is
<1> QED
  BY <1>3, <1>4, <1>5, GoodGrows

\* A stream goes into its file as a whole.
LEMMA Emptied ==
    ASSUME NEW files, NEW more, NEW d, NEW ks, NEW lt, NEW r \in Nat, NEW s \in DOMAIN ks,
           Good(files, d, ks, r), DOMAIN lt = DOMAIN ks,
           \A u \in DOMAIN ks : u # s => lt[u] = ks[u],
           Alike(ks[s], lt[s]), lt[s].buf = <<>>,
           Appended(files, more, FileAt(d, ks[s]), ks[s].buf)
    PROVE  Good(more, d, lt, r)
<1> DEFINE q == ks[s].buf
<1>1. q \in Seq(Blocks)
  BY DEF Good, Ordered, Sinks
<1>2. Len(q) \in Nat /\ Len(q) \in 0..Len(q)
  BY <1>1, LenProperties
<1>3. SubSeq(q, 1, Len(q)) = q
  <2> HIDE DEF q
  <2>1. /\ SubSeq(q, 1, Len(q)) \in Seq(Blocks) /\ Len(SubSeq(q, 1, Len(q))) = Len(q)
        /\ \A u \in 1..Len(q) : SubSeq(q, 1, Len(q))[u] = q[u]
    BY <1>1, <1>2, Cut
  <2> QED
    BY <1>1, <2>1, SeqEqual
<1>4. SubSeq(q, Len(q) + 1, Len(q)) = <<>>
  <2> HIDE DEF q
  <2> QED
    BY <1>2, SubSeqEmpty
<1>5. Appended(files, more, FileAt(d, ks[s]), SubSeq(ks[s].buf, 1, Len(q)))
  BY <1>3
<1>6. lt[s].buf = SubSeq(ks[s].buf, Len(q) + 1, Len(ks[s].buf))
  BY <1>4
<1> QED
  BY <1>2, <1>5, <1>6, Spilled

\* What writing to a file and opening it do to what is held.
LEMMA HeldWrote ==
    ASSUME NEW files, NEW file \in DOMAIN files, NEW blocks
    PROVE  Appended(files, Wrote(files, file, blocks), file, blocks)
  BY DEF Held, Wrote, Appended

LEMMA HeldOpened ==
    ASSUME NEW file
    PROVE  \A f : Held(Opened(file), f) = Held(disk, f)
  BY DEF Held, Opened

\* A disk that works takes everything.
LEMMA DrainsAll ==
    ASSUME healthy, NEW q \in Seq(Blocks), NEW bad
    PROVE  /\ \A e \in Drain(q, bad) : e.out = q /\ e.left = <<>> /\ e.ok = TRUE
           /\ \A c \in FlushThenClose(q, bad) : c.out = q
<1>1. \A e, w : e \in Drain(w, bad) => e = Drained(w)
  BY DEF Drain
<1>2. ASSUME NEW c \in FlushThenClose(q, bad) PROVE c.out = q
  <2>1. PICK first \in Drain(q, bad) :
            \E again \in Drain(first.left, TRUE) : c = [out |-> first.out \o again.out]
    BY DEF FlushThenClose
  <2>2. first.out = q /\ first.left = <<>>
    BY <1>1, <2>1 DEF Drained
  <2>3. PICK again \in Drain(<<>>, TRUE) : c = [out |-> q \o again.out]
    BY <2>1, <2>2
  <2>4. again.out = <<>>
    BY DEF Drain, Drained
  <2>5. q \o <<>> = q
    BY ConcatEmptySeq
  <2> QED
    BY <2>3, <2>4, <2>5
<1> QED
  BY <1>1, <1>2 DEF Drained

\* A block goes into an open stream, which spills, or rotates as a whole.
LEMMA PutWritten ==
    ASSUME healthy, run \in Nat, sinks \in Seq(Sinks), Good(disk, dir, sinks, run),
           NEW s \in DOMAIN sinks, NEW sink \in Sinks, NEW files, NEW block \in Blocks,
           sink.base = sinks[s].base, sink.part = sinks[s].part, sink.buf = sinks[s].buf,
           sink.count = sinks[s].count + 1, ~sink.bad, ~sink.failed,
           IsOf(block, s, run), block.n = sink.count,
           FileName(s) \in DOMAIN files, \A f : Held(files, f) = Held(disk, f),
           PutAndRotate(s, sink, files, block)
    PROVE  Good(disk', dir, sinks', run)
<1> DEFINE q == sink.buf
           all == Append(q, block)
           file == FileName(s)
<1>1. PICK p \in Put(q, block) :
          LET now == Wrote(files, FileName(s), p.out)
              put == [sink EXCEPT !.buf = p.left, !.written = @ + block.size, !.failed = ~p.ok]
          IN IF p.ok /\ Rotates(put.written)
             THEN \E c \in FlushThenClose(p.left, FALSE) :
                      /\ disk' = Wrote(now, FileName(s), c.out)
                      /\ sinks' = [sinks EXCEPT ![s] =
                             [put EXCEPT !.open = FALSE, !.buf = <<>>, !.part = @ + 1,
                                         !.written = 0]]
             ELSE disk' = now /\ sinks' = [sinks EXCEPT ![s] = put]
  BY DEF PutAndRotate
<1>2. PICK i \in 0..Len(all) :
          p = [out |-> SubSeq(all, 1, i), left |-> SubSeq(all, i + 1, Len(all)), ok |-> TRUE]
  BY Zenon DEF Put
<1>3. p.out = SubSeq(all, 1, i) /\ p.left = SubSeq(all, i + 1, Len(all)) /\ p.ok = TRUE
  BY <1>2
<1> DEFINE w == sink.written + block.size
           full == [sink EXCEPT !.buf = all]
           put == [sink EXCEPT !.buf = p.left, !.written = w, !.failed = FALSE]
           drained == [put EXCEPT !.open = FALSE, !.buf = <<>>]
           turned == [put EXCEPT !.open = FALSE, !.buf = <<>>, !.part = @ + 1, !.written = 0]
           now == Wrote(files, file, p.out)
           ks == [sinks EXCEPT ![s] = full]
           lt == [sinks EXCEPT ![s] = put]
           mt == [sinks EXCEPT ![s] = drained]
<1>4. /\ q \in Seq(Blocks) /\ all \in Seq(Blocks) /\ w \in Nat /\ <<>> \in Seq(Blocks)
      /\ sink.part \in Nat /\ sink.count \in Nat /\ p.left \in Seq(Blocks)
  <2>1. q \in Seq(Blocks) /\ w \in Nat /\ sink.part \in Nat /\ sink.count \in Nat
    <3>1. /\ q \in Seq(Blocks) /\ sink.written \in Nat /\ sink.part \in Nat
          /\ sink.count \in Nat /\ block.size \in Nat
      BY DEF Sinks, Blocks
    <3> QED
      BY <3>1
  <2>2. all \in Seq(Blocks)
    BY <2>1, AppendProperties
  <2> HIDE DEF all
  <2> QED
    BY <1>3, <2>1, <2>2, EmptySeq, Cut
<1> HIDE DEF w, all
<1>5. /\ full \in Sinks /\ full.base = sink.base /\ full.part = sink.part /\ full.buf = all
      /\ full.count = sink.count /\ ~full.bad /\ ~full.failed
  BY <1>4 DEF Sinks
<1>6. /\ put \in Sinks /\ put.base = sink.base /\ put.part = sink.part /\ put.buf = p.left
      /\ put.count = sink.count /\ ~put.bad /\ ~put.failed /\ put.written = w
  BY <1>4 DEF Sinks
<1> DEFINE next == put.part + 1
<1>7. next \in Nat /\ turned = [put EXCEPT !.open = FALSE, !.buf = <<>>, !.part = next, !.written = 0]
  BY <1>4, <1>6
<1> HIDE DEF full, put, next, turned
<1>8. /\ drained \in Sinks /\ drained.base = sink.base /\ drained.part = sink.part
      /\ drained.buf = <<>> /\ drained.count = sink.count /\ ~drained.bad /\ ~drained.failed
  BY <1>4, <1>6 DEF Sinks
<1>9. /\ turned \in Sinks /\ turned.base = sink.base /\ turned.part = next
      /\ turned.buf = <<>> /\ turned.count = sink.count /\ ~turned.bad /\ ~turned.failed
  BY <1>4, <1>6, <1>7 DEF Sinks
<1> HIDE DEF drained
<1>10. /\ DOMAIN ks = DOMAIN sinks /\ ks[s] = full /\ \A u \in DOMAIN sinks : u # s => ks[u] = sinks[u]
       /\ DOMAIN lt = DOMAIN sinks /\ lt[s] = put /\ \A u \in DOMAIN sinks : u # s => lt[u] = sinks[u]
       /\ DOMAIN mt = DOMAIN sinks /\ mt[s] = drained /\ \A u \in DOMAIN sinks : u # s => mt[u] = sinks[u]
  OBVIOUS
<1> HIDE DEF ks, lt, mt
<1>11. Good(files, dir, sinks, run)
  BY SameFiles
<1>12. Good(files, dir, ks, run)
  BY <1>5, <1>10, <1>11, Took, SMTT(30) DEF all
<1>13. /\ FileAt(dir, full) = file /\ FileAt(dir, put) = file
       /\ file \in DOMAIN files
  BY <1>5, <1>6 DEF FileAt, FileName
<1> HIDE DEF file
<1>14. Good(now, dir, lt, run)
  <2>1. Appended(files, now, FileAt(dir, ks[s]), SubSeq(ks[s].buf, 1, i))
    <3>1. Appended(files, now, file, p.out)
      BY <1>13, HeldWrote
    <3>2. FileAt(dir, ks[s]) = file /\ SubSeq(ks[s].buf, 1, i) = p.out
      BY <1>3, <1>5, <1>10, <1>13
    <3> QED
      BY <3>1, <3>2, Zenon
  <2>2. Alike(ks[s], lt[s])
    BY <1>5, <1>6, <1>10 DEF Alike
  <2>3. i \in 0..Len(ks[s].buf) /\ lt[s].buf = SubSeq(ks[s].buf, i + 1, Len(ks[s].buf))
    BY <1>3, <1>5, <1>6, <1>10
  <2>4. s \in DOMAIN ks /\ DOMAIN lt = DOMAIN ks /\ \A u \in DOMAIN ks : u # s => lt[u] = ks[u]
    BY <1>10
  <2> HIDE DEF now
  <2> QED
    BY <1>12, <2>1, <2>2, <2>3, <2>4, Spilled
<1>15. file \in DOMAIN now
  BY <1>13 DEF Wrote
<1>16. CASE disk' = now /\ sinks' = lt
  BY <1>14, <1>16
<1>17. ASSUME NEW c \in FlushThenClose(p.left, FALSE), disk' = Wrote(now, file, c.out),
              sinks' = [sinks EXCEPT ![s] = turned]
       PROVE  Good(disk', dir, sinks', run)
  <2>1. c.out = p.left
    BY <1>4, DrainsAll
  <2> HIDE DEF now
  <2>2. Good(disk', dir, mt, run)
    <3>1. Appended(now, disk', FileAt(dir, lt[s]), lt[s].buf)
      <4>1. Appended(now, disk', file, p.left)
        BY <1>15, <1>17, <2>1, HeldWrote
      <4>2. FileAt(dir, lt[s]) = file /\ lt[s].buf = p.left
        BY <1>6, <1>10, <1>13
      <4> QED
        BY <4>1, <4>2, Zenon
    <3>2. Alike(lt[s], mt[s]) /\ mt[s].buf = <<>>
      BY <1>6, <1>8, <1>10 DEF Alike
    <3>3. s \in DOMAIN lt /\ DOMAIN mt = DOMAIN lt /\ \A u \in DOMAIN lt : u # s => mt[u] = lt[u]
      BY <1>10
    <3> QED
      BY <1>14, <3>1, <3>2, <3>3, Emptied
  <2>3. /\ s \in DOMAIN mt /\ DOMAIN sinks' = DOMAIN mt /\ sinks'[s] = turned
        /\ \A u \in DOMAIN mt : u # s => sinks'[u] = mt[u]
    BY <1>10, <1>17
  <2>4. /\ turned.part = mt[s].part + 1 /\ turned.base = mt[s].base
        /\ turned.count = mt[s].count /\ mt[s].buf = <<>>
    BY <1>6, <1>8, <1>9, <1>10 DEF next
  <2> QED
    BY <1>9, <2>2, <2>3, <2>4, WentOn
<1>18. put = [sink EXCEPT !.buf = p.left, !.written = @ + block.size, !.failed = ~p.ok]
  BY <1>3 DEF put, w
<1> QED
  BY <1>1, <1>3, <1>16, <1>17, <1>18, Zenon DEF turned, lt, file

\* The steps that write keep the blocks in order.
LEMMA WriteGood ==
    ASSUME AllSound, ProcessTyped, healthy, Good(disk, dir, sinks, run),
           NEW s \in DOMAIN sinks, NEW size \in Nat, Write(s, size)
    PROVE  Good(disk', dir, sinks', run)
<1> DEFINE n == sinks[s].count + 1
           sink == [sinks[s] EXCEPT !.count = @ + 1]
           opened == [sink EXCEPT !.open = TRUE, !.bad = FALSE]
           block == [run |-> run, sink |-> s, n |-> sink.count, size |-> size]
<1>1. /\ sinks[s] \in Sinks /\ ~sinks[s].bad /\ ~sinks[s].failed
      /\ sinks[s].open => FileName(s) \in DOMAIN disk
      /\ run \in Nat /\ sinks \in Seq(Sinks)
  <2>1. Ordered(disk, dir, sinks[s], s, run)
    BY DEF Good
  <2>2. SinkSound(sinks[s], s, dir, DOMAIN disk, fresh) /\ sinks \in Seq(Sinks)
    BY DEF AllSound
  <2> QED
    BY <2>1, <2>2 DEF Ordered, SinkSound, FileName, ProcessTyped
<1>2. n \in Nat
  <2>1. sinks[s] \in Sinks
    BY <1>1
  <2> QED
    BY <2>1 DEF Sinks
<1>3. /\ sink \in Sinks /\ sink.count = n
      /\ sink.base = sinks[s].base /\ sink.part = sinks[s].part /\ sink.open = sinks[s].open
      /\ sink.buf = sinks[s].buf /\ ~sink.bad /\ ~sink.failed
  <2>1. sink = [sinks[s] EXCEPT !.count = n]
    OBVIOUS
  <2> HIDE DEF sink, n
  <2> QED
    BY <1>1, <1>2, <2>1 DEF Sinks
<1>4. block \in Blocks /\ block.n = sink.count /\ IsOf(block, s, run)
  <2>1. s \in Nat
    BY <1>1, LenProperties
  <2> HIDE DEF n, sink
  <2> QED
    BY <1>1, <1>2, <1>3, <2>1 DEF Blocks, IsOf
<1>5. \/ ~sink.open /\ PutAndRotate(s, opened, Opened(FileName(s)), block)
      \/ sink.open /\ PutAndRotate(s, sink, disk, block)
  BY <1>3 DEF Write
<1>6. CASE ~sink.open /\ PutAndRotate(s, opened, Opened(FileName(s)), block)
  <2>1. /\ opened \in Sinks /\ opened.base = sinks[s].base /\ opened.part = sinks[s].part
        /\ opened.buf = sinks[s].buf /\ opened.count = sink.count
        /\ ~opened.bad /\ ~opened.failed
    <3> HIDE DEF sink
    <3> QED
      BY <1>3 DEF Sinks
  <2>2. FileName(s) \in DOMAIN Opened(FileName(s))
    BY DEF Opened
  <2>3. \A f : Held(Opened(FileName(s)), f) = Held(disk, f)
    BY HeldOpened
  <2>4. opened.count = sinks[s].count + 1 /\ block.n = opened.count
    BY <1>3, <1>4, <2>1
  <2> HIDE DEF opened, block, sink, n
  <2> QED
    BY <1>1, <1>4, <1>6, <2>1, <2>2, <2>3, <2>4, PutWritten
<1>7. CASE sink.open /\ PutAndRotate(s, sink, disk, block)
  <2>1. sink.count = sinks[s].count + 1 /\ FileName(s) \in DOMAIN disk
    BY <1>1, <1>3, <1>7
  <2> HIDE DEF opened, block, sink, n
  <2> QED
    BY <1>1, <1>3, <1>4, <1>7, <2>1, PutWritten
<1> QED
  BY <1>5, <1>6, <1>7

LEMMA FlushGood ==
    ASSUME AllSound, ProcessTyped, healthy, sinks # <<>>, Good(disk, dir, sinks, run),
           FlushSinks
    PROVE  Good(disk', dir, sinks', run)
<1>1. PICK d : /\ \A s \in Flushed : d[s] \in Drain(sinks[s].buf, sinks[s].bad \/ sinks[s].failed)
               /\ sinks' = [s \in DOMAIN sinks |->
                     IF s \in Flushed
                     THEN [sinks[s] EXCEPT !.buf = d[s].left, !.bad = @ \/ ~d[s].ok]
                     ELSE sinks[s]]
               /\ disk' = [file \in DOMAIN disk |-> disk[file] \o
                     FlattenSeq([s \in DOMAIN sinks |->
                         IF s \in Flushed /\ file = FileName(s) THEN d[s].out ELSE <<>>])]
  BY Zenon DEF FlushSinks
<1>2. \A s \in DOMAIN sinks : /\ sinks[s] \in Sinks /\ sinks[s].buf \in Seq(Blocks)
                              /\ ~sinks[s].bad /\ ~sinks[s].failed
                              /\ sinks[s].open => FileName(s) \in DOMAIN disk
                              /\ ~sinks[s].open => sinks[s].buf = <<>>
  BY DEF Good, Ordered, Sinks, AllSound, SinkSound, FileName
<1>3. ASSUME NEW s \in Flushed
      PROVE  d[s].out = sinks[s].buf /\ d[s].left = <<>> /\ d[s].ok = TRUE
  BY <1>1, <1>2, DrainsAll DEF Flushed
<1>4. ASSUME NEW s \in DOMAIN sinks \ Flushed PROVE sinks[s].buf = <<>>
  BY <1>2 DEF Flushed
<1>5. ASSUME NEW file \in DOMAIN disk
      PROVE  [s \in DOMAIN sinks |->
                 IF s \in Flushed /\ file = FileName(s) THEN d[s].out ELSE <<>>]
             = Sent(dir, sinks, file)
  <2>1. ASSUME NEW s \in DOMAIN sinks
        PROVE  (IF s \in Flushed /\ file = FileName(s) THEN d[s].out ELSE <<>>)
               = (IF file = FileAt(dir, sinks[s]) THEN sinks[s].buf ELSE <<>>)
    BY <1>3, <1>4 DEF FileName, FileAt
  <2> QED
    BY <2>1, Zenon DEF Sent
<1>6. disk' = [file \in DOMAIN disk |-> disk[file] \o FlattenSeq(Sent(dir, sinks, file))]
  BY <1>1, <1>5, Zenon
<1>7. ASSUME NEW s \in DOMAIN sinks
      PROVE  Alike(sinks[s], sinks'[s]) /\ sinks'[s].buf = <<>>
  <2>1. CASE s \in Flushed
    <3> DEFINE bad == sinks[s].bad \/ ~d[s].ok
    <3>1. bad = FALSE /\ <<>> \in Seq(Blocks)
      BY <1>2, <1>3, <2>1, EmptySeq
    <3>2. sinks'[s] = [sinks[s] EXCEPT !.buf = d[s].left, !.bad = bad]
      BY <1>1, <2>1, Zenon
    <3>3. sinks'[s] = [sinks[s] EXCEPT !.buf = <<>>, !.bad = FALSE]
      BY <1>3, <2>1, <3>1, <3>2, Zenon
    <3> HIDE DEF bad
    <3> QED
      BY <1>2, <3>1, <3>3 DEF Alike, Sinks
  <2>2. CASE s \notin Flushed
    <3>1. sinks'[s] = sinks[s]
      BY <1>1, <2>2
    <3> QED
      BY <1>2, <1>4, <2>2, <3>1 DEF Alike
  <2> QED
    BY <2>1, <2>2
<1>8. \A s \in DOMAIN sinks : sinks[s].buf = <<>> \/ FileAt(dir, sinks[s]) \in DOMAIN disk
  BY <1>2 DEF FileAt, FileName
<1>9. DOMAIN sinks' = DOMAIN sinks
  BY <1>1
<1>10. sinks \in Seq(Sinks) /\ run \in Nat
  BY DEF AllSound, ProcessTyped
<1> QED
  BY <1>6, <1>7, <1>8, <1>9, <1>10, Flushes

LEMMA CloseGood ==
    ASSUME AllSound, ProcessTyped, healthy, Good(disk, dir, sinks, run),
           NEW s \in DOMAIN sinks, CloseSink(s)
    PROVE  Good(disk', dir, sinks', run)
<1> DEFINE closed == [sinks[s] EXCEPT !.open = FALSE, !.buf = <<>>]
<1>1. /\ sinks[s] \in Sinks /\ ~sinks[s].bad /\ ~sinks[s].failed
      /\ sinks[s].open => FileName(s) \in DOMAIN disk
      /\ sinks[s].buf \in Seq(Blocks) /\ run \in Nat
  BY DEF Good, Ordered, Sinks, AllSound, SinkSound, FileName, ProcessTyped
<1>2. PICK c \in FlushThenClose(sinks[s].buf, sinks[s].bad \/ sinks[s].failed) :
          /\ disk' = Wrote(disk, FileName(s), c.out)
          /\ sinks' = [sinks EXCEPT ![s].open = FALSE, ![s].buf = <<>>]
  BY DEF CloseSink
<1>3. c.out = sinks[s].buf
  <2>1. \A bad : \A e \in FlushThenClose(sinks[s].buf, bad) : e.out = sinks[s].buf
    BY <1>1, DrainsAll
  <2> QED
    BY <2>1, Zenon
<1>4. FileName(s) = FileAt(dir, sinks[s]) /\ FileName(s) \in DOMAIN disk
  BY <1>1 DEF CloseSink, FileName, FileAt
<1>5. Appended(disk, disk', FileAt(dir, sinks[s]), sinks[s].buf)
  BY <1>2, <1>3, <1>4, HeldWrote
<1>6. sinks' = [sinks EXCEPT ![s] = closed]
  BY <1>2
<1>7. Alike(sinks[s], closed) /\ closed.buf = <<>>
  BY <1>1, EmptySeq DEF Alike, Sinks
<1> HIDE DEF closed
<1>8. /\ DOMAIN sinks' = DOMAIN sinks /\ sinks'[s] = closed
      /\ \A u \in DOMAIN sinks : u # s => sinks'[u] = sinks[u]
  BY <1>6
<1> QED
  BY <1>1, <1>5, <1>7, <1>8, Emptied

\* What the files hold is of no later run.
Past(files, r) ==
    \A f \in DOMAIN files :
        files[f] \in Seq(Blocks) /\ \A u \in DOMAIN files[f] : files[f][u].run <= r

LEMMA GoodPast ==
    ASSUME NEW files, NEW d, NEW ks, NEW r, Good(files, d, ks, r)
    PROVE  Past(files, r)
  BY DEF Good, AtHome, Fits, Past

\* The first sink of a new run.
LEMMA StartGood ==
    ASSUME NEW files, NEW r \in Nat, Past(files, r), NEW d, NEW k \in Sinks,
           k.part = 1, k.count = 0, k.buf = <<>>, ~k.bad, ~k.failed
    PROVE  Good(files, d, <<k>>, r + 1)
<1>1. ASSUME NEW f
      PROVE  /\ Held(files, f) \in Seq(Blocks)
             /\ \A u \in 1..Len(Held(files, f)) : Held(files, f)[u].run \in Nat /\ Held(files, f)[u].run <= r
  <2>1. CASE f \in DOMAIN files
    <3>1. Held(files, f) = files[f] /\ files[f] \in Seq(Blocks)
      BY <2>1 DEF Held, Past
    <3>2. \A u \in 1..Len(files[f]) : files[f][u] \in Blocks /\ files[f][u].run <= r
      BY <2>1, <3>1, LenProperties, ElementOfSeq DEF Past
    <3> QED
      BY <3>1, <3>2 DEF Blocks
  <2>2. CASE f \notin DOMAIN files
    <3>1. Held(files, f) = <<>> /\ Len(<<>>) = 0 /\ <<>> \in Seq(Blocks)
      BY <2>2, EmptySeq DEF Held
    <3>2. \A u \in 1..0 : FALSE
      OBVIOUS
    <3> QED
      BY <3>1, <3>2
  <2> QED
    BY <2>1, <2>2
<1>2. ASSUME NEW f, NEW u \in 1..Len(Held(files, f))
      PROVE  Held(files, f)[u].run <= r + 1 /\ Held(files, f)[u].run # r + 1
  BY <1>1
<1>3. AtHome(files, d, <<k>>, r + 1)
  BY <1>1, <1>2, FitsHeld DEF Fits
<1>4. Ordered(files, d, k, 1, r + 1)
  BY <1>1, <1>2, NewOrdered DEF IsOf
<1>5. DOMAIN <<k>> = {1} /\ <<k>>[1] = k
  OBVIOUS
<1> QED
  BY <1>3, <1>4, <1>5 DEF Good

\* Another sink: its blocks would be of a sink that was there before.
LEMMA AddGood ==
    ASSUME NEW files, NEW d, NEW ks \in Seq(Sinks), NEW r, Good(files, d, ks, r),
           NEW k \in Sinks, k.part = 1, k.count = 0, k.buf = <<>>, ~k.bad, ~k.failed
    PROVE  Good(files, d, Append(ks, k), r)
<1> DEFINE lt == Append(ks, k)
           n == Len(ks) + 1
<1>1. /\ \A i \in 1..Len(ks) : lt[i] = ks[i]
      /\ lt[n] = k /\ Len(lt) = n /\ lt \in Seq(Sinks)
  BY AppendProperties
<1>2. /\ Len(ks) \in Nat /\ DOMAIN ks = 1..Len(ks) /\ DOMAIN lt = 1..n
  BY <1>1, LenProperties
<1>3. n \notin DOMAIN ks /\ DOMAIN lt = DOMAIN ks \cup {n}
  BY <1>2
<1>4. \A i \in DOMAIN ks : i \in DOMAIN lt /\ lt[i] = ks[i]
  BY <1>1, <1>2, <1>3
<1> HIDE DEF lt, n
<1>5. AtHome(files, d, ks, r) /\ \A i \in DOMAIN ks : Ordered(files, d, ks[i], i, r)
  BY DEF Good
<1>6. AtHome(files, d, lt, r)
  <2> SUFFICES ASSUME NEW f \in DOMAIN files
               PROVE  /\ files[f] \in Seq(Blocks)
                      /\ \A u \in DOMAIN files[f] : Fits(files[f][u], f, d, lt, r)
    BY DEF AtHome
  <2>1. files[f] \in Seq(Blocks) /\ \A u \in DOMAIN files[f] : Fits(files[f][u], f, d, ks, r)
    BY <1>5 DEF AtHome
  <2>2. ASSUME NEW b, Fits(b, f, d, ks, r) PROVE Fits(b, f, d, lt, r)
    BY <1>4, <2>2 DEF Fits
  <2> QED
    BY <2>1, <2>2
<1>7. Ordered(files, d, k, n, r)
  <2>1. \A f : /\ Held(files, f) \in Seq(Blocks)
               /\ \A u \in 1..Len(Held(files, f)) : ~IsOf(Held(files, f)[u], n, r)
    BY <1>3, <1>5, HeldFits, SMTT(30) DEF Fits, IsOf
  <2> QED
    BY <2>1, NewOrdered
<1>8. \A i \in DOMAIN lt : Ordered(files, d, lt[i], i, r)
  BY <1>1, <1>3, <1>4, <1>5, <1>7
<1> QED
  BY <1>6, <1>8 DEF Good, lt

LEMMA NewSinkIs ==
    ASSUME NEW base \in Names \cup {"events"}
    PROVE  LET k == NewSink(base)
           IN  /\ k \in Sinks /\ k.part = 1 /\ k.count = 0 /\ k.buf = <<>>
               /\ ~k.bad /\ ~k.failed /\ ~k.open
  BY EmptySeq DEF NewSink, Sinks

-----------------------------------------------------------------------------
(* The invariant of the order *)

\* A process that has stopped in order has closed its sinks.
ClosedWhenStopped == up = "stopped" => \A s \in DOMAIN sinks : ~sinks[s].open
\* Unless the disk has failed, all is in order, and files hold no later run.
Reliable ==
    ~troubled => healthy /\ Past(disk, run) /\ (up # "down" => Good(disk, dir, sinks, run))
\* Beside Inv: a process without a directory, or killed, has no sinks.
WInv ==
    /\ second # 0 /\ (dir = 0 \/ up = "down" => sinks = <<>>)
    /\ ClosedWhenStopped /\ Reliable

\* A step of the process that keeps the blocks in order keeps the invariant.
LEMMA GoodKeeps ==
    ASSUME Inv, WInv, UNCHANGED <<second, healthy, troubled>>, dir' = dir, dir # 0,
           run' = run, up # "down", up' \notin {"down", "stopped"},
           healthy /\ Good(disk, dir, sinks, run) => Good(disk', dir, sinks', run)
    PROVE  WInv'
<1>1. ASSUME ~troubled PROVE Good(disk', dir', sinks', run') /\ healthy'
  BY <1>1 DEF WInv, Reliable
<1>2. Reliable'
  BY <1>1, GoodPast DEF Reliable
<1> QED
  BY <1>2 DEF WInv, ClosedWhenStopped

\* So does one that touches neither a sink nor a file.
LEMMA IdleKeeps ==
    ASSUME WInv, UNCHANGED <<second, run, dir, sinks, disk, healthy, troubled>>,
           up' = up \/ (up # "down" /\ up' \notin {"down", "stopped"})
    PROVE  WInv'
  BY DEF WInv, ClosedWhenStopped, Reliable

\* The actions, one by one.
LEMMA EventOrdered ==
    ASSUME Inv, WInv, UNCHANGED <<second, healthy, troubled>>, dir' = dir,
           run' = run, up # "down", up' \notin {"down", "stopped"}, sinks # <<>>, Event
    PROVE  WInv'
<1>1. 1 \in DOMAIN sinks
  BY LenProperties, EmptySeq DEF Inv, AllSound
<1>2. healthy /\ Good(disk, dir, sinks, run) => Good(disk', dir, sinks', run)
  BY <1>1, WriteGood DEF Inv, Event
<1> QED
  BY <1>2, GoodKeeps DEF WInv

LEMMA WriteBlockOrdered ==
    ASSUME Inv, WInv, NEW name, NEW lines \in Nat, NEW more \in Nat,
           WriteBlock(name, lines, more)
    PROVE  WInv'
<1>1. PICK s \in DOMAIN sinks : Write(s, 2 + lines + (IF setting.full THEN more ELSE 0))
  BY DEF WriteBlock
<1>2. 2 + lines + (IF setting.full THEN more ELSE 0) \in Nat
  OBVIOUS
<1>3. /\ UNCHANGED <<up, run, dir, second, healthy, troubled>> /\ up = "up"
      /\ sinks # <<>>
  BY <1>1, EmptySeq DEF WriteBlock, process, outside
<1>4. healthy /\ Good(disk, dir, sinks, run) => Good(disk', dir, sinks', run)
  BY <1>1, <1>2, WriteGood DEF Inv
<1> QED
  BY <1>3, <1>4, GoodKeeps DEF WInv

LEMMA FlushOrdered ==
    ASSUME Inv, WInv, UNCHANGED <<second, healthy, troubled>>, dir' = dir,
           run' = run, up # "down", up' \notin {"down", "stopped"}, sinks # <<>>, FlushSinks
    PROVE  WInv'
<1>1. healthy /\ Good(disk, dir, sinks, run) => Good(disk', dir, sinks', run)
  BY FlushGood DEF Inv
<1> QED
  BY <1>1, GoodKeeps DEF WInv

LEMMA StartOrdered ==
    ASSUME Inv, WInv, Start
    PROVE  WInv'
<1>1. UNCHANGED <<second, healthy, troubled, disk>> /\ run' = run + 1 /\ run \in Nat
      /\ up' \in {"boot", "up"}
  BY DEF Start, outside, Inv, ProcessTyped
<1>2. dir' = 0 => sinks' = <<>>
  BY DEF Start, WInv
<1>3. ASSUME ~troubled
      PROVE  Good(disk', dir', sinks', run')
  <2>1. healthy /\ Past(disk, run)
    BY <1>3 DEF WInv, Reliable
  <2>2. sinks' = <<NewSink("events")>>
    BY <2>1 DEF Start, MakeDirsMayFail
  <2> QED
    BY <1>1, <2>1, <2>2, NewSinkIs, StartGood
<1>4. Reliable'
  BY <1>1, <1>3, GoodPast DEF Reliable, WInv
<1> QED
  BY <1>1, <1>2, <1>4 DEF WInv, ClosedWhenStopped

LEMMA AddTopicOrdered ==
    ASSUME Inv, WInv, AddTopic
    PROVE  WInv'
<1>1. /\ UNCHANGED <<up, run, dir, second, healthy, troubled>>
      /\ up = "boot" /\ sinks # <<>>
  BY DEF AddTopic, outside, Inv, HasEvents
<1>2. CASE /\ Known(Head(todo)) /\ sinks' = Append(sinks, NewSink(Head(todo).name))
           /\ UNCHANGED <<fresh, disk>>
  <2>1. healthy /\ Good(disk, dir, sinks, run) => Good(disk', dir, sinks', run)
    BY <1>2, NewSinkIs, AddGood DEF Known, Inv, AllSound
  <2> QED
    BY <1>1, <2>1, GoodKeeps DEF WInv
<1>3. CASE Event
  BY <1>1, <1>3, EventOrdered
<1> QED
  BY <1>2, <1>3 DEF AddTopic

LEMMA CallbacksOrdered ==
    ASSUME Inv, WInv, Callbacks
    PROVE  WInv'
<1>1. CASE OnRosout
  <2>1. UNCHANGED <<up, run, dir, second, healthy, troubled>> /\ sinks # <<>> /\ up = "up"
    BY <1>1 DEF Inv, HasEvents, OnRosout, process, outside
  <2> QED
    BY <1>1, <2>1, EventOrdered DEF OnRosout
<1>2. CASE ~OnRosout
  BY <1>2, WriteBlockOrdered DEF Callbacks, OnDevpvt, OnDevimu, OnHcSentence, OnNmea,
     OnBestpos, OnHeading, OnOdometry, OnVelocity
<1> QED
  BY <1>1, <1>2

LEMMA StopOrdered ==
    ASSUME Inv, WInv, Stop
    PROVE  WInv'
<1>1. /\ UNCHANGED <<run, dir, second, healthy, troubled>> /\ up = "up"
      /\ up' = IF dir = 0 THEN "stopped" ELSE "stopping"
  BY DEF Stop, outside
<1>2. CASE UNCHANGED <<sinks, fresh, disk>>
  <2>1. dir = 0 => DOMAIN sinks = {}
    BY EmptySeq DEF WInv
  <2> QED
    BY <1>1, <1>2, <2>1 DEF WInv, ClosedWhenStopped, Reliable
<1>3. CASE dir # 0 /\ Event
  BY <1>1, <1>3, EventOrdered DEF Inv, HasEvents
<1> QED
  BY <1>2, <1>3 DEF Stop

LEMMA NextOrdered ==
    ASSUME Inv, WInv, [Next]_vars
    PROVE  WInv'
<1>1. CASE Start
  BY <1>1, StartOrdered
<1>2. CASE FirstEvent
  <2>1. UNCHANGED <<up, run, dir, second, healthy, troubled>> /\ sinks # <<>> /\ up = "boot"
    BY <1>2 DEF Inv, HasEvents, FirstEvent, process, outside
  <2> QED
    BY <1>2, <2>1, EventOrdered DEF FirstEvent
<1>3. CASE AddTopic
  BY <1>3, AddTopicOrdered
<1>4. CASE Ready
  BY <1>4, IdleKeeps DEF Ready, outside
<1>5. CASE Callbacks
  BY <1>5, CallbacksOrdered
<1>6. CASE FlushAll
  <2>1. UNCHANGED <<up, run, dir, second, healthy, troubled>> /\ sinks # <<>> /\ up = "up"
    BY <1>6 DEF Inv, HasEvents, FlushAll, process, outside
  <2> QED
    BY <1>6, <2>1, FlushOrdered DEF FlushAll
<1>7. CASE Stop
  BY <1>7, StopOrdered
<1>8. CASE FlushAtExit
  <2>1. UNCHANGED <<run, dir, second, healthy, troubled>> /\ sinks # <<>>
        /\ up = "stopping" /\ up' = "closing"
    BY <1>8 DEF Inv, HasEvents, FlushAtExit, outside
  <2> QED
    BY <1>8, <2>1, FlushOrdered DEF FlushAtExit
<1>9. CASE CloseAtExit
  <2>1. PICK s \in DOMAIN sinks : CloseSink(s)
    BY <1>9 DEF CloseAtExit
  <2>2. UNCHANGED <<up, run, dir, second, healthy, troubled>> /\ up = "closing"
    BY <1>9, <2>1 DEF CloseAtExit, CloseSink, process, outside
  <2>3. dir # 0
    BY <2>2 DEF Inv, HasEvents, WInv
  <2>4. healthy /\ Good(disk, dir, sinks, run) => Good(disk', dir, sinks', run)
    BY <2>1, CloseGood DEF Inv
  <2> QED
    BY <2>2, <2>3, <2>4, GoodKeeps
<1>10. CASE Stopped
  BY <1>10 DEF Stopped, outside, WInv, ClosedWhenStopped, Reliable
<1>11. CASE Crash
  BY <1>11 DEF Crash, outside, WInv, ClosedWhenStopped, Reliable
<1>12. CASE NextSecond
  <2>1. second' # 0 /\ UNCHANGED <<up, run, dir, sinks, disk, healthy, troubled>>
    BY <1>12 DEF NextSecond, process, Inv, ProcessTyped
  <2> QED
    BY <2>1 DEF WInv, ClosedWhenStopped, Reliable
<1>13. CASE DiskChanges
  BY <1>13 DEF DiskChanges, process, WInv, ClosedWhenStopped, Reliable
<1>14. CASE UNCHANGED vars
  BY <1>14, IdleKeeps DEF vars, process, outside
<1> QED
  BY <1>1, <1>2, <1>3, <1>4, <1>5, <1>6, <1>7, <1>8, <1>9, <1>10, <1>11, <1>12, <1>13, <1>14
     DEF Next

\* The places of the property are those of the invariant.
LEMMA PlacesAre ==
    ASSUME NEW s
    PROVE  /\ Places(s) = PlacesIn(disk, dir, sinks[s], s, run)
           /\ \A q : Number(s, q) = NumberAt(disk, dir, sinks[s], q)
<1>1. \A p : Part(s, p) = Text(disk, dir, sinks[s], p)
  BY DEF Part, FileOf, Text, Held
<1>2. \A b : Mine(s, b) <=> IsOf(b, s, run)
  BY DEF Mine, IsOf
<1> DEFINE mine(p) == {i \in DOMAIN Part(s, p) : Mine(s, Part(s, p)[i])}
           own(p) == {i \in DOMAIN Text(disk, dir, sinks[s], p) :
                         IsOf(Text(disk, dir, sinks[s], p)[i], s, run)}
           part(p) == {p} \X mine(p)
           inPart(p) == InPart(disk, dir, sinks[s], s, run, p)
           parts == UNION {part(p) : p \in 1..sinks[s].part}
<1>3. ASSUME NEW p PROVE part(p) = inPart(p)
  <2>1. mine(p) = own(p)
    BY <1>1, <1>2
  <2>2. inPart(p) = {p} \X own(p)
    BY DEF InPart
  <2> HIDE DEF mine, own, inPart
  <2> QED
    BY <2>1, <2>2
<1>4. parts = InParts(disk, dir, sinks[s], s, run)
  <2>1. InParts(disk, dir, sinks[s], s, run) = UNION {inPart(p) : p \in 1..sinks[s].part}
    BY DEF InParts
  <2> HIDE DEF mine, part, inPart
  <2>2. {part(p) : p \in 1..sinks[s].part} = {inPart(p) : p \in 1..sinks[s].part}
    BY <1>3
  <2> QED
    BY <2>1, <2>2
<1>5. Places(s) = PlacesIn(disk, dir, sinks[s], s, run)
  <2>1. Places(s) = parts \cup ({sinks[s].part + 1} \X DOMAIN sinks[s].buf)
    BY DEF Places
  <2>2. PlacesIn(disk, dir, sinks[s], s, run)
        = InParts(disk, dir, sinks[s], s, run) \cup ({sinks[s].part + 1} \X DOMAIN sinks[s].buf)
    BY DEF PlacesIn, InStream
  <2> HIDE DEF parts
  <2> QED
    BY <1>4, <2>1, <2>2, Zenon
<1>6. \A q : Number(s, q) = NumberAt(disk, dir, sinks[s], q)
  BY <1>1, Zenon DEF Number, NumberAt
<1> QED
  BY <1>5, <1>6

\* The invariant implies the property.
LEMMA OrderedOnce ==
    ASSUME Inv, WInv
    PROVE  WrittenOnceInOrder
<1> SUFFICES ASSUME ~troubled, NEW s \in DOMAIN sinks
             PROVE  /\ {Number(s, q) : q \in Places(s)} = 1..sinks[s].count
                    /\ \A q, r \in Places(s) : Before(q, r) => Number(s, q) < Number(s, r)
                    /\ up = "stopped" => sinks[s].buf = <<>>
  BY DEF WrittenOnceInOrder
<1>1. ~sinks[s].open => sinks[s].buf = <<>>
  BY DEF Inv, AllSound, SinkSound
<1>2. up = "stopped" => sinks[s].buf = <<>>
  BY <1>1 DEF WInv, ClosedWhenStopped
<1>3. up # "down"
  <2>1. DOMAIN <<>> = {}
    BY EmptySeq
  <2> QED
    BY <2>1 DEF WInv
<1>4. InOrder(disk, dir, sinks[s], s, run)
  BY <1>3 DEF WInv, Reliable, Good, Ordered
<1>5. /\ Places(s) = PlacesIn(disk, dir, sinks[s], s, run)
      /\ \A q : Number(s, q) = NumberAt(disk, dir, sinks[s], q)
  BY PlacesAre
<1>6. {Number(s, q) : q \in Places(s)}
      = {NumberAt(disk, dir, sinks[s], q) : q \in PlacesIn(disk, dir, sinks[s], s, run)}
  BY <1>5
<1>7. {Number(s, q) : q \in Places(s)} = 1..sinks[s].count
  BY <1>4, <1>6, Zenon DEF InOrder
<1>8. \A q, r \in Places(s) : Before(q, r) => Number(s, q) < Number(s, r)
  BY <1>4, <1>5, ZenonT(30) DEF InOrder
<1> QED
  BY <1>2, <1>7, <1>8

-----------------------------------------------------------------------------
(* What is on disk, also of a disk that refuses *)

Texts(files) == \A f \in DOMAIN files : files[f] \in Seq(Blocks)
DiskTyped == Texts(disk)

\* Each file of files goes on in more.
GoOn(files, more) ==
    DOMAIN files \subseteq DOMAIN more /\ \A f \in DOMAIN files : Extends(files[f], more[f])

LEMMA ExtendsIs ==
    ASSUME NEW a, NEW b, Extends(a, b)
    PROVE  IsPrefix(a, b)
<1>1. a \in Seq(Blocks) /\ b \in Seq(Blocks) /\ Len(a) \in Nat /\ Len(b) \in Nat /\ Len(a) <= Len(b)
  BY LenProperties DEF Extends
<1>2. \A u \in 1..Len(a) : a[u] \in Blocks /\ b[u] \in Blocks /\ b[u] = a[u]
  BY <1>1, ElementOfSeq DEF Extends
<1> DEFINE c == SubSeq(a, 1, Len(a))
           e == SubSeq(b, 1, Len(a))
<1>3. /\ c \in Seq(Blocks) /\ Len(c) = (IF 1 <= Len(a) THEN Len(a) - 1 + 1 ELSE 0)
      /\ \A u \in 1..(Len(a) - 1 + 1) : c[u] = a[1 + u - 1]
  BY <1>1, <1>2, SubSeqProperties
<1>4. /\ e \in Seq(Blocks) /\ Len(e) = (IF 1 <= Len(a) THEN Len(a) - 1 + 1 ELSE 0)
      /\ \A u \in 1..(Len(a) - 1 + 1) : e[u] = b[1 + u - 1]
  BY <1>1, <1>2, SubSeqProperties
<1> HIDE DEF c, e
<1>5. Len(c) = Len(a) /\ Len(e) = Len(a)
  BY <1>1, <1>3, <1>4
<1>6. \A u \in 1..Len(a) : u \in 1..(Len(a) - 1 + 1) /\ 1 + u - 1 = u
  BY <1>1
<1>7. \A u \in 1..Len(c) : c[u] = e[u]
  BY <1>2, <1>3, <1>4, <1>5, <1>6
<1>8. c = e
  BY <1>3, <1>4, <1>5, <1>7, SeqEqual
<1> QED
  BY <1>1, <1>8 DEF IsPrefix, c, e

LEMMA GoOnTwice ==
    ASSUME NEW a, NEW b, NEW c, GoOn(a, b), GoOn(b, c)
    PROVE  GoOn(a, c)
<1> SUFFICES ASSUME NEW f \in DOMAIN a PROVE Extends(a[f], c[f])
  BY DEF GoOn
<1>1. Extends(a[f], b[f]) /\ Extends(b[f], c[f])
  BY DEF GoOn
<1>2. Len(a[f]) \in Nat /\ Len(b[f]) \in Nat /\ Len(c[f]) \in Nat
  BY <1>1, LenProperties DEF Extends
<1>3. \A u \in 1..Len(a[f]) : u \in 1..Len(b[f])
  BY <1>1, <1>2 DEF Extends
<1> QED
  BY <1>1, <1>2, <1>3 DEF Extends

LEMMA SameGoOn ==
    ASSUME NEW files, Texts(files)
    PROVE  GoOn(files, files)
<1> SUFFICES ASSUME NEW f \in DOMAIN files PROVE Extends(files[f], files[f])
  BY DEF GoOn
<1>1. files[f] \in Seq(Blocks) /\ Len(files[f]) \in Nat
  BY LenProperties DEF Texts
<1> QED
  BY <1>1 DEF Extends

LEMMA WroteGoesOn ==
    ASSUME NEW files, Texts(files), NEW file, NEW blocks \in Seq(Blocks)
    PROVE  Texts(Wrote(files, file, blocks)) /\ GoOn(files, Wrote(files, file, blocks))
<1> DEFINE more == Wrote(files, file, blocks)
<1>1. DOMAIN more = DOMAIN files
  BY DEF Wrote
<1>2. ASSUME NEW f \in DOMAIN files
      PROVE  more[f] \in Seq(Blocks) /\ Extends(files[f], more[f])
  <2>1. files[f] \in Seq(Blocks)
    BY DEF Texts
  <2>2. CASE f = file
    <3>1. more[f] = files[f] \o blocks
      BY <2>2 DEF Wrote
    <3> HIDE DEF more
    <3>2. files[f] \o blocks \in Seq(Blocks) /\ Extends(files[f], files[f] \o blocks)
      BY <2>1, Joined
    <3> QED
      BY <3>1, <3>2
  <2>3. CASE f # file
    <3>1. more[f] = files[f]
      BY <2>3 DEF Wrote
    <3> QED
      BY <2>1, <3>1, SameGoOn DEF GoOn
  <2> QED
    BY <2>2, <2>3
<1> HIDE DEF more
<1>3. Texts(more) /\ GoOn(files, more)
  BY <1>1, <1>2 DEF Texts, GoOn
<1> QED
  BY <1>3 DEF more

LEMMA OpenedGoesOn ==
    ASSUME Texts(disk), NEW file
    PROVE  Texts(Opened(file)) /\ GoOn(disk, Opened(file))
<1>1. GoOn(disk, disk) /\ <<>> \in Seq(Blocks)
  BY SameGoOn, EmptySeq
<1>2. DOMAIN Opened(file) = DOMAIN disk \cup {file}
  BY DEF Opened
<1>3. \A f \in DOMAIN Opened(file) :
          Opened(file)[f] = IF f \in DOMAIN disk THEN disk[f] ELSE <<>>
  BY DEF Opened
<1> QED
  BY <1>1, <1>2, <1>3 DEF Texts, GoOn

\* Only blocks of the stream come out of it.
LEMMA OutOfRefused ==
    ASSUME NEW q \in Seq(Blocks), NEW bad, NEW p \in Refused(q, bad)
    PROVE  p.out \in Seq(Blocks)
<1>1. PICK i \in IF bad THEN {0} ELSE 0..(Len(q) - 1) :
          p = [out |-> SubSeq(q, 1, i), left |-> q, ok |-> FALSE]
  BY DEF Refused
<1>2. i \in 0..Len(q)
  BY <1>1, LenProperties
<1> QED
  BY <1>1, <1>2, Cut

LEMMA OutOfDrain ==
    ASSUME NEW q \in Seq(Blocks), NEW bad, NEW p \in Drain(q, bad)
    PROVE  p.out \in Seq(Blocks)
  BY OutOfRefused DEF Drain, Drained

LEMMA OutOfPut ==
    ASSUME NEW q \in Seq(Blocks), NEW block \in Blocks, NEW p \in Put(q, block)
    PROVE  p.out \in Seq(Blocks)
<1> DEFINE all == Append(q, block)
<1>1. all \in Seq(Blocks)
  BY AppendProperties
<1>2. CASE p \in Refused(all, FALSE)
  <2> HIDE DEF all
  <2> QED
    BY <1>1, <1>2, OutOfRefused
<1>3. CASE p \notin Refused(all, FALSE)
  <2>1. PICK i \in 0..Len(all) :
            p = [out |-> SubSeq(all, 1, i), left |-> SubSeq(all, i + 1, Len(all)), ok |-> TRUE]
    BY <1>3, Zenon DEF Put
  <2>2. p.out = SubSeq(all, 1, i)
    BY <2>1
  <2> HIDE DEF all
  <2> QED
    BY <1>1, <2>2, Cut
<1> QED
  BY <1>2, <1>3

LEMMA OutOfClose ==
    ASSUME NEW q \in Seq(Blocks), NEW bad, NEW c \in FlushThenClose(q, bad)
    PROVE  c.out \in Seq(Blocks)
<1>1. PICK first \in Drain(q, bad) :
          \E again \in Drain(first.left, TRUE) : c = [out |-> first.out \o again.out]
  BY DEF FlushThenClose
<1>2. PICK again \in Drain(first.left, TRUE) : c = [out |-> first.out \o again.out]
  BY <1>1
<1>3. first.left \in Seq(Blocks) /\ first.out \in Seq(Blocks)
  BY DrainLeaves, OutOfDrain, EmptySeq
<1>4. again.out \in Seq(Blocks)
  BY <1>3, OutOfDrain
<1> QED
  BY <1>2, <1>3, <1>4, ConcatProperties

\* A write into an open stream, with its rotation.
LEMMA PutAndRotateGoesOn ==
    ASSUME NEW s, NEW sink, sink.buf \in Seq(Blocks), NEW files, Texts(files),
           NEW block \in Blocks, PutAndRotate(s, sink, files, block)
    PROVE  Texts(disk') /\ GoOn(files, disk')
<1>1. PICK p \in IF sink.bad THEN Refused(Append(sink.buf, block), TRUE)
                             ELSE Put(sink.buf, block) :
          LET now == Wrote(files, FileName(s), p.out)
          IN \/ disk' = now
             \/ \E c \in FlushThenClose(p.left, FALSE) : disk' = Wrote(now, FileName(s), c.out)
  BY DEF PutAndRotate
<1>2. p.out \in Seq(Blocks) /\ p.left \in Seq(Blocks)
  <2>1. CASE sink.bad
    <3>1. Append(sink.buf, block) \in Seq(Blocks)
      BY AppendProperties
    <3>2. p \in Refused(Append(sink.buf, block), TRUE)
      BY <1>1, <2>1
    <3>3. p.left = Append(sink.buf, block)
      BY <3>2, RefusedKeeps, Zenon
    <3>4. p.out \in Seq(Blocks)
      BY <3>1, <3>2, OutOfRefused, Zenon
    <3> QED
      BY <3>1, <3>3, <3>4, Zenon
  <2>2. CASE ~sink.bad
    <3>1. p \in Put(sink.buf, block)
      BY <1>1, <2>2
    <3>2. p.left \in Seq(Blocks)
      BY <3>1, PutKeeps
    <3>3. p.out \in Seq(Blocks)
      BY <3>1, OutOfPut
    <3> QED
      BY <3>2, <3>3
  <2> QED
    BY <2>1, <2>2
<1> DEFINE now == Wrote(files, FileName(s), p.out)
<1>3. Texts(now) /\ GoOn(files, now)
  BY <1>2, WroteGoesOn
<1>4. disk' = now \/ \E c \in FlushThenClose(p.left, FALSE) : disk' = Wrote(now, FileName(s), c.out)
  BY <1>1
<1> HIDE DEF now
<1>5. CASE disk' = now
  BY <1>3, <1>5
<1>6. CASE \E c \in FlushThenClose(p.left, FALSE) : disk' = Wrote(now, FileName(s), c.out)
  <2>1. PICK c \in FlushThenClose(p.left, FALSE) : disk' = Wrote(now, FileName(s), c.out)
    BY <1>6
  <2>2. c.out \in Seq(Blocks)
    BY <1>2, OutOfClose
  <2>3. Texts(disk') /\ GoOn(now, disk')
    BY <1>3, <2>1, <2>2, WroteGoesOn
  <2> QED
    BY <1>3, <2>3, GoOnTwice
<1> QED
  BY <1>4, <1>5, <1>6

LEMMA WriteGoesOn ==
    ASSUME AllSound, ProcessTyped, Texts(disk), NEW s \in DOMAIN sinks, NEW size \in Nat,
           Write(s, size)
    PROVE  Texts(disk') /\ GoOn(disk, disk')
<1> DEFINE n == sinks[s].count + 1
           sink == [sinks[s] EXCEPT !.count = n]
           opened == [sink EXCEPT !.open = TRUE, !.bad = FALSE]
           block == [run |-> run, sink |-> s, n |-> sink.count, size |-> size]
<1>1. sinks[s] \in Sinks
  BY DEF AllSound, SinkSound
<1>2. n \in Nat /\ s \in Nat
  <2>1. s \in Nat
    BY LenProperties DEF AllSound
  <2>2. n \in Nat
    BY <1>1 DEF Sinks
  <2> QED
    BY <2>1, <2>2
<1> HIDE DEF n
<1>3. sink.buf \in Seq(Blocks) /\ opened.buf \in Seq(Blocks) /\ sink.count = n
  BY <1>1 DEF Sinks
<1>4. block \in Blocks
  <2> HIDE DEF sink
  <2> QED
    BY <1>2, <1>3 DEF Blocks, ProcessTyped
<1>5. \/ disk' = disk
      \/ PutAndRotate(s, opened, Opened(FileName(s)), block)
      \/ PutAndRotate(s, sink, disk, block)
  BY Zenon DEF Write, n
<1> HIDE DEF sink, opened, block
<1>6. CASE disk' = disk
  BY <1>6, SameGoOn
<1>7. CASE PutAndRotate(s, opened, Opened(FileName(s)), block)
  <2>1. Texts(Opened(FileName(s))) /\ GoOn(disk, Opened(FileName(s)))
    BY OpenedGoesOn
  <2>2. Texts(disk') /\ GoOn(Opened(FileName(s)), disk')
    BY <1>3, <1>4, <1>7, <2>1, PutAndRotateGoesOn
  <2> QED
    BY <2>1, <2>2, GoOnTwice
<1>8. CASE PutAndRotate(s, sink, disk, block)
  BY <1>3, <1>4, <1>8, PutAndRotateGoesOn
<1> QED
  BY <1>5, <1>6, <1>7, <1>8

LEMMA FlushGoesOn ==
    ASSUME AllSound, Texts(disk), FlushSinks
    PROVE  Texts(disk') /\ GoOn(disk, disk')
<1>1. PICK d : /\ \A s \in Flushed : d[s] \in Drain(sinks[s].buf, sinks[s].bad \/ sinks[s].failed)
               /\ disk' = [file \in DOMAIN disk |-> disk[file] \o
                     FlattenSeq([s \in DOMAIN sinks |->
                         IF s \in Flushed /\ file = FileName(s) THEN d[s].out ELSE <<>>])]
  BY Zenon DEF FlushSinks
<1> DEFINE sent(file) == [s \in DOMAIN sinks |->
                             IF s \in Flushed /\ file = FileName(s) THEN d[s].out ELSE <<>>]
<1>2. DOMAIN sinks = 1..Len(sinks) /\ Len(sinks) \in Nat
  BY LenProperties DEF AllSound
<1>3. ASSUME NEW file PROVE FlattenSeq(sent(file)) \in Seq(Blocks)
  <2>1. \A s \in DOMAIN sinks :
            (IF s \in Flushed /\ file = FileName(s) THEN d[s].out ELSE <<>>) \in Seq(Blocks)
    <3> SUFFICES ASSUME NEW s \in DOMAIN sinks, s \in Flushed PROVE d[s].out \in Seq(Blocks)
      BY EmptySeq
    <3>1. sinks[s].buf \in Seq(Blocks)
      BY DEF AllSound, SinkSound, Sinks
    <3>2. d[s] \in Drain(sinks[s].buf, sinks[s].bad \/ sinks[s].failed)
      BY <1>1
    <3> QED
      BY <3>1, <3>2, OutOfDrain, Zenon
  <2>2. sent(file) \in [1..Len(sinks) -> Seq(Blocks)]
    BY <1>2, <2>1
  <2>3. sent(file) \in Seq(Seq(Blocks))
    <3> HIDE DEF sent
    <3> QED
      BY <1>2, <2>2, SeqDef
  <2>4. CASE sent(file) = <<>>
    <3>1. FlattenSeq(<<>>) = <<>>
      BY EmptySeq, Zenon DEF FlattenSeq
    <3> HIDE DEF sent
    <3> QED
      BY <2>4, <3>1, EmptySeq
  <2>5. CASE sent(file) # <<>>
    <3> HIDE DEF sent
    <3> QED
      BY <2>3, <2>5, Flattened
  <2> QED
    BY <2>4, <2>5
<1>4. DOMAIN disk' = DOMAIN disk /\ \A f \in DOMAIN disk : disk'[f] = disk[f] \o FlattenSeq(sent(f))
  BY <1>1
<1> HIDE DEF sent
<1>5. ASSUME NEW f \in DOMAIN disk
      PROVE  disk'[f] \in Seq(Blocks) /\ Extends(disk[f], disk'[f])
  <2>1. disk[f] \in Seq(Blocks) /\ FlattenSeq(sent(f)) \in Seq(Blocks)
    BY <1>3 DEF Texts
  <2>2. disk'[f] = disk[f] \o FlattenSeq(sent(f))
    BY <1>4
  <2>3. ASSUME NEW blocks \in Seq(Blocks), disk'[f] = disk[f] \o blocks
        PROVE  disk'[f] \in Seq(Blocks) /\ Extends(disk[f], disk'[f])
    BY <2>1, <2>3, Joined
  <2> QED
    BY <2>1, <2>2, <2>3, Zenon
<1> QED
  BY <1>4, <1>5 DEF Texts, GoOn

LEMMA CloseGoesOn ==
    ASSUME AllSound, Texts(disk), NEW s \in DOMAIN sinks, CloseSink(s)
    PROVE  Texts(disk') /\ GoOn(disk, disk')
<1>1. PICK c \in FlushThenClose(sinks[s].buf, sinks[s].bad \/ sinks[s].failed) :
          disk' = Wrote(disk, FileName(s), c.out)
  BY DEF CloseSink
<1>2. sinks[s].buf \in Seq(Blocks)
  BY DEF AllSound, SinkSound, Sinks
<1>3. c.out \in Seq(Blocks)
  BY <1>2, OutOfClose
<1> QED
  BY <1>1, <1>3, WroteGoesOn

LEMMA EventGoesOn ==
    ASSUME Inv, sinks # <<>>, Texts(disk), Event
    PROVE  Texts(disk') /\ GoOn(disk, disk')
<1>1. 1 \in DOMAIN sinks
  BY LenProperties, EmptySeq DEF Inv, AllSound
<1> QED
  BY <1>1, WriteGoesOn DEF Inv, Event

LEMMA NextGoesOn ==
    ASSUME Inv, Texts(disk), [Next]_vars
    PROVE  Texts(disk') /\ GoOn(disk, disk')
<1>1. CASE disk' = disk
  BY <1>1, SameGoOn
<1>2. CASE Event /\ sinks # <<>>
  BY <1>2, EventGoesOn
<1>3. CASE FlushSinks
  BY <1>3, FlushGoesOn DEF Inv
<1>4. CASE CloseAtExit
  BY <1>4, CloseGoesOn DEF Inv, CloseAtExit
<1>5. CASE Callbacks
  <2>1. CASE OnRosout
    BY <1>2, <2>1 DEF OnRosout, Inv, HasEvents
  <2>2. CASE ~OnRosout
    <3>1. ASSUME NEW name, NEW lines \in Nat, NEW more \in Nat, WriteBlock(name, lines, more)
          PROVE  Texts(disk') /\ GoOn(disk, disk')
      <4>1. PICK s \in DOMAIN sinks : Write(s, 2 + lines + (IF setting.full THEN more ELSE 0))
        BY <3>1 DEF WriteBlock
      <4>2. 2 + lines + (IF setting.full THEN more ELSE 0) \in Nat
        OBVIOUS
      <4> QED
        BY <4>1, <4>2, WriteGoesOn DEF Inv
    <3> QED
      BY <1>5, <2>2, <3>1 DEF Callbacks, OnDevpvt, OnDevimu, OnHcSentence, OnNmea,
         OnBestpos, OnHeading, OnOdometry, OnVelocity
  <2> QED
    BY <2>1, <2>2
<1>6. \/ disk' = disk \/ FlushSinks \/ CloseAtExit \/ Callbacks \/ (Event /\ sinks # <<>>)
  <2>1. CASE FirstEvent
    BY <2>1 DEF FirstEvent, Inv, HasEvents
  <2>2. CASE AddTopic
    BY <2>2 DEF AddTopic, Inv, HasEvents
  <2>3. CASE Stop
    BY <2>3 DEF Stop, Inv, HasEvents
  <2>4. CASE FlushAll \/ FlushAtExit
    BY <2>4 DEF FlushAll, FlushAtExit
  <2>5. CASE Start \/ Ready \/ Stopped \/ Crash
    BY <2>5 DEF Start, Ready, Stopped, Crash
  <2>6. CASE NextSecond \/ DiskChanges \/ UNCHANGED vars
    BY <2>6 DEF NextSecond, DiskChanges, vars
  <2> QED
    BY <2>1, <2>2, <2>3, <2>4, <2>5, <2>6 DEF Next
<1> QED
  BY <1>1, <1>2, <1>3, <1>4, <1>5, <1>6

-----------------------------------------------------------------------------
(* Theorems *)

\* The sinks are well formed: each is below the size of a part or has failed, an open
\* one has its file, a closed one holds nothing.
THEOREM TypeCorrect == Spec => []TypeOK
<1>1. Inv => TypeOK
  BY DEF Inv, ProcessTyped, AllSound, SinkSound, TypeOK, FileName
<1> QED
  BY <1>1, Invariance, PTL

\* A kill takes no block older than the last flush from a sink whose stream has not
\* been refused.
THEOREM KillsTakeFreshBlocks == Spec => []HeldIsFresh
<1>1. Inv => HeldIsFresh
  BY DEF Inv, AllSound, SinkSound, HeldIsFresh
<1> QED
  BY <1>1, Invariance, PTL

\* While the disk has never failed, each sink's blocks of the current run are in its
\* parts and its stream once and in order, across spills, flushes and rotations, also
\* in files that an earlier run has left; once stopped, nothing is left in a stream.
THEOREM BlocksAreWrittenOnce == Spec => []WrittenOnceInOrder
<1>1. Init => WInv
  <2> SUFFICES ASSUME Init PROVE WInv
    OBVIOUS
  <2>1. DOMAIN <<>> = {}
    BY EmptySeq
  <2> QED
    BY <2>1 DEF Init, WInv, ClosedWhenStopped, Reliable, Past
<1>2. Spec => []WInv
  BY <1>1, Invariance, NextOrdered, PTL DEF Spec
<1> QED
  BY <1>2, Invariance, OrderedOnce, PTL

\* What is on disk stays there, at its place, whichever run has written it: across a
\* restart that opens the file again, rotations, closes, kills and refusals of the disk.
THEOREM FilesKeepTheirBlocks == Spec => FilesOnlyGrow
<1>1. Init => DiskTyped
  <2>1. DOMAIN <<>> = {}
    BY EmptySeq
  <2> QED
    BY <2>1 DEF Init, Texts, DiskTyped
<1>2. Inv /\ DiskTyped /\ [Next]_vars => DiskTyped'
  BY NextGoesOn DEF DiskTyped
<1>3. Inv /\ DiskTyped /\ [Next]_vars
      => [\A file \in DOMAIN disk :
              file \in DOMAIN disk' /\ IsPrefix(disk[file], disk'[file])]_vars
  BY NextGoesOn, ExtendsIs DEF GoOn, DiskTyped
<1> QED
  BY <1>1, <1>2, <1>3, Invariance, PTL DEF Spec, FilesOnlyGrow

=============================================================================
