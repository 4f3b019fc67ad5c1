# Verification of the CHCNAV CGI ROS 2 driver

The repository is a ROS 2 package (`src/src/chcnav`) that reads a CHCNAV CGI
INS/GNSS receiver, decodes its protocols, and feeds a formula-student
localisation stack.  This directory holds TLA+ models of it, the TLC
configurations that check them, and proofs checked by TLAPS.

Paths below are relative to `src/src/chcnav/src/` unless they start with `src/`.

## The system

```
             device (serial, TCP, UDP, CAN, file)
                |  read             ^ write
        hc__device_connector  <-----+------------------ /write topic (RTCM)
                |                   |
   hc__msg_parser_node: main thread scans   executor thread writes
                |
    /chcnav/nmea_sentence  /chcnav/hc_sentence  /chcnav/bestpos  /chcnav/heading
          |                     |
   ntrip_server_node     hc_cgi_protocol_process_node
   (swas SDK, RTCM)             |
                        /chcnav/devpvt, /chcnav/devimu
                                |
                     chcnav_fsd_bridge -> /chcnav/odometry, /chcnav/velocity
   chcnav_data_logger subscribes to devpvt, odometry, velocity; writes text logs
```

| Component | State | Operations | What is hard |
|---|---|---|---|
| Byte-stream parser (`hc_msg_parser/`) | state, counter, token, read buffer, error code | one handler per state, scan, refill | resynchronisation after any garbage, capacity, two NovAtel length conventions |
| Parser node (`hc_msg_parser.hpp`) | parser, token, device connector | constructor, main read loop, write callback, publish | main thread and executor thread share the connector without a lock |
| TCP connector (`tcp_common.hpp`) | socket, listening socket, status | connect, accept, judge, read, write, disconnect, client and server | a peer that goes away and comes back, two threads |
| UDP, serial, file, CAN connectors (`device_connector/`) | descriptor, status, address | connect, read, write, disconnect, CAN decoders | reconnecting, descriptors lost, two threads, end of file, fields that share bytes |
| Serial library (`serial_common/serial/`) | port, settings, two mutexes | open, close, read, readline, readlines, write, flush, settings | lock order, timeouts, calls of several threads, refused settings |
| CGI process node (`hc_cgi_protocol_process_node/`) | leap seconds | check CRC, decode PVT, decode IMU | the IMU's time depends on an earlier PVT message |
| FSD bridge (`chcnav_fsd_bridge/`) | origin, datum | onDevpvt | when the origin locks, what is published before |
| NTRIP node (`ntrip_server_node/`) | SDK handle, status, current position | calibrate, authenticate, open, GGA upload, exit | SDK threads, timers, reconnect |
| Data logger (`chcnav_data_logger/`) | one text sink per topic | topic callbacks, flush timer, destructor | rotation, write errors, restart into the same files, kill |
| Diagnostics (`temporary_ins_diagnostics.hpp`) | counters | add, input, tick | counters shared by threads |
| Start script (`src/src/chcnav/scripts/`) | lock file, port users | lock, check, launch | check and use of the serial port |


The four nodes of the FSD launch file are processes of their own and are not
respawned.  Subscriptions keep the last messages (1000 sentences, 10 PVTs).

What makes each component correct:

- *parser*: what it hands on is a frame; no frame that starts a scan is missed;
  no byte is lost between scans; errors are cleared; the stream drains.
- *TCP connector*: the status is the truth about the descriptor; no descriptor
  is lost; it reconnects, or takes the next client.
- *process node and bridge*: one clock on both topics; one local frame from its
  fixing on; poses are those of sentences that were sent, in order; every
  message is accounted for.
- *NTRIP node*: while cleanups succeed, no report of an old session opens a new
  one; after the last failure the node ends up connected and authenticated, unless
  its status was ever set over a failure.
- *UDP, CAN, file and serial connectors*: a reader holds one connection; what it
  reads is in order and once; only a named obstacle keeps it disconnected; each
  CAN field is what the manual's layout says.
- *serial library*: the bytes of a call belong together; a read that is short has
  used its time; a line that took what it was told, by a call that met no other on
  its way, has its settings; every call comes back.
- *data logger*: every block of a run is written once and in order, across parts;
  what is on disk, of this run or an earlier one, stays where it is; a kill costs no
  more than what is not flushed; nothing waits for ever.

`PROJECT.json` lists all components, the hazards at their lines, and which
property answers which hazard.

## Modules

| Module | Models | State and actions, and the code |
|---|---|---|
| `FrameGrammar` | the four wire formats | predicates on complete frames; the checksum is the constant `Crc` |
| `FrameSplitter` | what any frame parser promises | abstract specification: cut the stream into pieces, hand on only frames |
| `MsgParser` | `hc_msg_parser.c`, the loop of `node_start` | one action per family of state handlers (`MatchSync`, `FieldDone`, `Body`, `NovatelData`, ...), `Refill` (the read handler) and `Dispatch` (the node: publish or clear the error, scan again); a step is one handler on one byte |
| `MCMsgParser` | streams for TLC | blocks of good and broken bytes |
| `TcpConnector` | `tcp_common.hpp`, and the two threads of `hc_msg_parser.hpp` | `status`, `socketfd`, `listenfd` as in the class, `sock` the kernel's descriptors; a step runs to a system call; `mode` is the launch configuration.  The executor's thread starts when the first `connect()` has returned, as in `node_start` |
| `MCTcpConnector` | launch modes for TLC | |
| `CgiProcess` | `HcCgiProtocolProcessNode.cpp` | `gLeaps` is `g_leaps`; one action per way the callback ends |
| `FsdBridge` | `ChcnavFsdBridge.cpp`, `onDevpvt` | origin, `origin_ready_`, and the origin the projection's radii were computed for; one action per way the callback ends |
| `FsdChain` | receiver, process node and bridge together | EXTENDS `CgiProcess`, INSTANCEs `FsdBridge`; the two subscriptions as bounded queues that drop the oldest message |
| `NtripServer` | `NtripServerLaunchNode.cpp`, `swas_server` | the thread that connects and spins, and the SDK's thread with its callbacks; `sdk` is the session, `old` one that a failed cleanup (`kept`) has left alive beside it |
| `DeviceConnector` | `udp_common`, `can_common`, `file_common`, `serial_common`, and the two threads of `hc_msg_parser.hpp` | `status`, `socketfd` and `addr` as in the classes; `table`, `bound` and `inbox` are the kernel; a step runs to its first system call |
| `CanFrames` | `decode_motorola`, `decode_intel` | per frame, the integers that the code puts together from eight bytes; next to them the layout by bit offset and length of `src/docs/CGI-410.md`, from which `AsLaidOut` reads the same fields |
| `MCDeviceConnector` | launch modes and frames for TLC | |
| `SerialPort` | `unix.cc`, `serial.cc` | one action per stretch of a call between two system calls; `call[t]` is the call of thread `t`, `lock` the two mutexes, `tty` the flags of the line, `sent` and `taken` the driver's input.  `reconfigurePort()` is four steps, `Configure` (`tcgetattr`), `Flags` (the reading of `parity_`), `Activate` (`tcsetattr`) and `Settle` (a custom rate, and `is_open_ = true` of `open()`).  `company` and `settled` are history: who met another on the way to the line, and whether the line was last told by a call that did not, and took it |
| `MCSerialPort` | plans of calls for two threads | |
| `DataLogger` | `ChcnavDataLogger.cpp` | `sinks` are `events_` and the sinks of `topic_loggers_` with their streams, `disk` the files; one action per callback, for the timer, and for each stage of construction and destruction |
| `MCDataLogger` | parameters for TLC | |
| `*Proofs` | theorems about the module they are named after; those about `CgiProcess` are in `FsdChainProofs` | |

`PROJECT.json` maps every definition to the lines it models.

Abstractions: bytes are kept in the parser, because frames are what it is
about; the fields that the process node only copies, and attitude, velocity and
covariances, which the bridge computes from one message, are left out.  A
position is one number.  Counters are counted as if the diagnostics were
enabled.  In `TcpConnector`, sleeps and the transferred bytes are left out, and
a peer that dies without a FIN is not distinguished from a silent one.  The SWAS
SDK is a library without source: `NtripServer` gives it the states that its
header and its caller speak of.  It reports a socket that is up again and again,
as its header says ("Continuous status update", `swas_sdk.h:188`), may lose it and
bring it up anew; any call may be refused, the cleanup too, whose session then
lives on and reports beside the next.  A cleanup that succeeds is taken to end all
reports, and a callback is one step.  A CAN field is an integer without its scale.  In
`SerialPort` a millisecond is a tick, an interrupted system call is one that
returns early, and byte size, stop bits and flow control are left out, which are
set the way parity is; `open()`, `close()` and `setTimeout()`, which take no lock,
are called while nothing else is.  In `DataLogger` a block is its number of lines; the
header comment of a file is left out.

## Runs

| Run | Shows | Bounds, and why they are enough |
|---|---|---|
| `parser_frames` | every property of the parser, and that it implements `FrameSplitter` | three blocks, with each kind of good frame before and after each of 16 breakages, and all strings of 4 header bytes; reads of 1 or 2 bytes split everything everywhere; capacity 48 (code: `HC_PROTOCOL_MAX_LEN`, 1024 in `hc_msg_parser.h:13`, which the build leaves alone) makes overflow happen in every long state |
| `parser_inclusive` | a NovAtel log whose length counts its checksum costs the next frame | |
| `tcp_modes` | the connector's safety and liveness, for a reading client and for every kind of server | 4 unasked events: device up, down, up, and one failing call; 3 descriptors, one more than are ever open |
| `tcp_client_status` | a client that reads *and* writes, and was connected, breaks its own connection when it reconnects | starts from a connected client: before that there is one thread |
| `connectors` | the four other connectors: one connection, order, decoded fields, and that nothing but `Obstacle` keeps the node disconnected | 2 descriptors, so that a leak of one and of all both happen; 2 unasked events: gone and back, or a write and a loss; 2 messages; every identifier with three patterns of bytes, and a second frame of another kind over it |
| `serial_port` | the serial library in the hands of two threads: whole reads and lines, every call comes back, and a settled line has its parity | three plans of two or three calls: reads and lines beside a reader, a flush or a close; every kind of lock, with the port moved or opened again before a read; two settings, before and after a close, while the other thread opens or moves the port or sets the rate.  Three bytes, a delimiter of two among them; one fault: unplugged, refused, not told, or a `close()` that fails; timeouts that are 0, and one whose inter-byte part is shorter; the parities even and mark, which differ in every flag |
| `serial_inter_byte` | a read goes on after the inter-byte timeout | one thread, nothing goes wrong |
| `fsd_bridge` | the local frame | 4 messages of all statuses and qualities: before, at, after the fixing, and one to be rejected; origin configured or not |
| `fsd_chain` | the process node's clock, and sentence to pose through overflowing queues | 4 sentences, queues of 2 and 1: both overflow, and a full queue meets every order of the nodes |
| `data_logger` | what reaches the files and stays there, and when | parts of 10 lines, which every topic's block fills in one or two; 2 blocks a sink; one change of the clock or of the disk; two starts |
| `ntrip` | while cleanups succeed sessions are not mixed up, and the node ends up connected and authenticated | 3 failures: of a session, of the next, and one that races |
| `ntrip_reauth` | a failure between two lines of `connect()` is lost | |

Runs that end in a violation check one property each, which states what a
comment or document of the repository says; `PROJECT.json` "findings" quotes it.

`Recovers` of `DeviceConnector` is a statement about what can go wrong: each
disjunct of `Obstacle` is a state the model reaches, and without it the property
fails.  They are the ways in which the code gives a connection up for good: the
UDP address that `recvfrom` overwrites, sockets that a failed `bind` or a second
thread leaves behind, a reader that waits in a socket the writer has closed, a
serial port that was unplugged (its status stays 1 and it reads nothing), and an
exception that ends the process.

### Further disagreements

Met while modelling, read off the code or seen in a trace, and not runs:

- A frame of exactly `HC_PROTOCOL_MAX_LEN` bytes is discarded
  (`hc_msg_parser.c:165` keeps the token strictly shorter than its array), which
  `hc_msg_parser.h:12` calls the longest length of all data parsed.
- When the parser cuts a log of the second convention (`hc_msg_parser.c:772`), the
  scan loop's second write of the last byte, which `:759` calls idempotent,
  overwrites the last checksum byte in the token.  `PayloadAsReceived` shows that
  it is the checksum only.
- IMU sentences before the first PVT are stamped with 18 built-in leap seconds
  (`HcCgiProtocolProcessNode.cpp:13`, `:231`); `src/readme/README_ZH.md:939` says
  the leap seconds are read dynamically, not hard-coded.
- Status 8 does not make the origin ready (`ChcnavFsdBridge.cpp:169`);
  `src/src/chcnav/config/chcnav_fsd_bridge.yaml:42` says that the first valid fix
  becomes the origin, and `:48` counts 8 among the RTK fixed solutions.
- The logger's rotation flushes and closes without looking at the stream
  (`ChcnavDataLogger.cpp:211`); `:16` says that failures are told in `events.log`
  and on stderr.
- A port's parity is compared the wrong way round (`serial_common.hpp:118-130`):
  "Odd" sets even, and every other name but "None" sets odd.
- `serial.h:453` says that a timeout of 0 is non-blocking; a write whose time is
  over when its first wait begins waits for 2^32 ms less the delay
  (`unix.cc:639`, `timespec_from_ms` takes the negative rest as a `uint32_t`).
- Nobody looks at the result of `tcsetattr` (`unix.cc:414`): the setter returns and
  the getter gives a setting the line may not have.  `LineAsSet` excuses it.
- A TCP server that reads never takes a second client: without one its `read()`
  returns -1 (`tcp_common.hpp:252`), the scan calls it again for ever
  (`hc_msg_parser.c:145`), and `node_start` never gets back to `connect()`.
  `HcMsgParserLaunchNode.cpp:39` ignores SIGPIPE because otherwise "server 无法重连",
  the server could not reconnect.  `WriterReaccepts` is about the server that only
  writes.
- The sigmas of position (frame 806) and attitude (811) are three fields of 16 bits
  in `src/docs/CGI-410.md:467-469` and `:527-544`, and three of 20 bits in the code
  (`can_common.hpp:361`, `:435`, `:622`, `:696`).  `FieldsAsLaidOut` leaves the two
  frames out.
- `swas_server.cpp:83` says that `connect()` waits for the authentication's socket.
  One flag stands for it and for the calibration's: a second report of the latter,
  after the flag was lowered at `:55`, passes the check at `:84`, and
  `swas_sdk_auth` is called without a socket.  `AuthAfterCalibration` claims the
  calibration only.
- `swas_server.cpp:113` says that `connect()` waits for the authentication's result.
  When the cleanup of a session has failed, which nobody looks at
  (`NtripServerLaunchNode.cpp:351`), an answer of that session that comes after
  `:23` is taken for it at `:118`.  The properties of `NtripServer` say "as long as
  the cleanups succeed" (`kept`).
- `setParity()` stores the parity and looks at `is_open_` without a lock
  (`unix.cc:768`).  While `setPort()` is between its reading of `parity_` (`:341`)
  and `is_open_ = true` (`:156`) it is too late for the one and too early for the
  other: it returns, `getParity()` gives the new parity, and the open line has the
  old one.  `serial.h:531` says "Sets the parity for the serial port.", and
  `serial.cc:285-286` takes both locks for the move.  `LineAsSet` excuses a call
  that met another on its way (`company`).
- The flags start from those of the line (`unix.cc:169`), and no branch clears
  CMSPAR, which mark and space set (`:351`, `:354`): odd after mark leaves mark
  parity.  `serial.h:69-71` has mark and space among the parities.  `LineAsSet`
  claims nothing of CMSPAR.
- With both threads, a TCP client also loses `NoLeak` and `Recovers`; no text
  promises them for that mode.

## Fairness

- `MsgParser`: weak fairness of `Next`, the one thread of the scan; the device
  delivers the whole stream.
- `TcpConnector`: weak fairness of each thread; the executor spins and messages
  keep coming on the write topic.  None for the remote side: `Recovers` and
  `WriterReaccepts` assume what they need of it.
- `DeviceConnector`: weak fairness of the main thread and of the executor's
  thread; none for the device, the port or the messages to be written.
- `SerialPort`: weak fairness of every thread, of the clock and of the driver's
  output, which nothing holds back because the node sets no flow control.  None
  for the input: a call must return without a byte.
- `DataLogger`: weak fairness of the constructor, of the timer's callback, which
  the executor runs whenever it is due, and of an exit that has begun.  None for
  the messages, and none for `Stop` and `Crash`.
- `FsdChain`: weak fairness of each node, which spin; none for the receiver.
- `NtripServer`: weak fairness of the node's thread, which includes the arrival
  of sentences (its only retry), and of the current session's answers (`Answer`:
  its socket comes up, also again after a loss, and what was asked is answered);
  none for repeated reports, losses and old sessions.  A timeout of an
  answer that would have come counts as a failure, and failures are bounded:
  `Reconnects` is about what happens after the last one: status, authentication and
  socket all hold in the end.  It excuses a run in which the status was ever set
  over an authentication that had failed (`Overtaken`), which `ntrip_reauth`
  shows to happen and to last, or over the answer of a session whose cleanup failed.

## Proofs

TLAPS proves, for all values of the constants:

| Module | Theorems | Inductive invariant, and why it is needed |
|---|---|---|
| `MsgParserProofs` | `TypeCorrect`, `OnlyWholeFrames`, `ErrorsAreCleared`, `PiecesAreConsecutive`, `ImplementsSplitter`; `NoFrameMissed`, `PayloadsAreReceived`, `BrokenHeadersKeepNext` | adds `TokenShape`, what the token holds in every state: a frame is whole because each handler extends a prefix of one; and `OnPath`, the converse: while the stream has a frame at the start of the scan, the state, the counter and the token are those of that frame's path, one of `CgiPath`, `ShortPath`, `NmeaPath`, `NovatelPath`, so that the scan cannot end anywhere else.  Any stream, capacity, read size and checksum function |
| `TcpConnectorProofs` | `TypeCorrect`, `StatusIsTrue`, `NothingLeaks` | `Places` (where the threads are in each mode), `Linked` (what the descriptor is at each place), `Bounded` (an attempt that runs is one of those allowed).  Hypothesis `OneThreadOrServes`: a client that reads and writes is excluded, and `tcp_client_status` shows that it must be |
| `FsdChainProofs` | `NodeTypeCorrect`, `NodeClocksAgree` of the process node alone; `TypeCorrect`, `ClocksAgree`, `PosesAreTheReceivers`, `NothingUncounted` of the composition | the leap seconds in use are those of the last PVT published; then `ChainInv`: sentences are numbered as they are sent, what waits in a queue is a part of what was sent, in its order and newer than what has been taken (`WaitingSentences`, `WaitingPvts`), and the poses are older still (`PosesFirst`).  Any fixes, sizes, ids and depths of the queues |
| `FsdBridgeProofs` | `TypeCorrect`, `FrameNeverMoves`, `FrameStartsAtOrigin` | adds what the current origin has to do with the poses already published (`Unready`, `Ready`, `Framed`, `OwnOrigin`) |
| `SerialPortProofs` | `TypeCorrect`, `BytesOfACallAreContiguous`, `ShortReadsUsedTheirTime`, `LineHasItsSettings`, `LinesEndWhereTheyShould` | who holds which lock at each place of a call (`Locking`, `Places`, `AloneInTheirTime`), and from it that the last byte a reader has taken is the last byte taken at all (`ReadLast`): nobody else can move on; how far a read is and what its rest of time means (`Progress`, `ResultKnown`); for `LinesEndWhereTheyShould`, what a line reader knows of what it has read so far (`LinesKnown`, `ReadersKnow`); for `LineHasItsSettings`, `OnTheLine`: nobody opens but one, two on their way have each other's company (`Sharing`), and without company what a thread has read of `parity_` (`OptionsMatch`) and told the line (`Told`) is still what is set.  Any threads, plans of calls, scripts of bytes, timeouts and number of faults |
| `DataLoggerProofs` | `TypeCorrect`, `KillsTakeFreshBlocks`, `BlocksAreWrittenOnce`, `FilesKeepTheirBlocks` | `SinkSound`, for each sink: a write adds only a block that is fresh, a flush empties the stream or marks it as refused, and `HasEvents`: whoever writes an event has the sink for it.  For `BlocksAreWrittenOnce`, `WInv`: `Ordered`, for each sink: its blocks in its parts and then in its stream are those counted, once and in order; and `AtHome`: a block on disk is of an earlier run or of a sink that has the file as one of its parts, so that a new run, a new sink or a new part starts without blocks of its own, although its file may hold others', which `FilesKeepTheirBlocks` says are never taken or moved.  The argument is about any files and sinks first (`Moves` for a spill, `Taken`, `Turned`, `NoneYet`), then about all sinks at once: files grow only by what leaves the stream of a sink they belong to (`GoodGrows`), and a flush into shared files is the concatenation of the streams (`Flattened`).  Any topics, part size, runs and refusals |
| `NtripServerProofs` | `TypeCorrect`, `StatusIsOfSession`, `AuthenticatesCalibrated` | adds how far the SDK can be at each line of `connect()` (`Phases`) and what a flag then means (`FlagsMean`), as long as the cleanups succeed (`~kept`): beside a session that lives on, a flag may be that session's |
| `DeviceConnectorProofs` | `TypeCorrect`, `KeepsOneConnection`, `ReadsInOrderOnce`, `FieldsFollowLayout` | `Owns`, whose the messages are: when one thread alone connects (`Solo`: no writer, or a serial port, which is opened once), the only socket that is bound or holds a message is that of the object's descriptor, and the status says whether there is one; of UDP's sockets, with two threads that connect, at most one is bound, because `bind()` refuses a second.  `SoloSteps`, where the threads are then; `Ordered`: what waits is newer than what has been returned.  Neither is inductive without the other.  For `FieldsFollowLayout`, `LayoutInv`: every data frame that waits has its eight bytes (`FramesWait`), and only a decoder sets fields; the rest is `DecodedAsLaidOut`, about the decoders alone: `Slice` shifts in the bits of a field one by one (`Shifts`), which come to whole bytes and halves of bytes (`EightBits`, `FourBits`) and so to the decoder's sums; a sign bit is the field's own (`SignHigh`, `SignLow`, which also says that what the intel decoder shifts in too many is masked); and `Follows` gives each field its offset.  For either format, all eight bytes and every identifier but the two of the sigmas, where the code does not follow the manual; the fourth angle of frame 810 is not in the manual's table.  Any number of descriptors, messages, frames and changes of the world |

Assumptions are the named ASSUMEs of the modules: the types of the constants;
the parser's `CapacityAssumption` is that the token holds a NovAtel header;
`SerialPort`'s `SizesAssumption` excludes a line reader whose size is less than
the length of its delimiter, which would write past its buffer (`serial.cc:191`);
`DeviceConnector`'s `PayloadsAssumption` gives a CAN frame the eight bytes that a
`can_frame` has (`can_common.hpp:108`), which `read()` fills as a whole (`:195`);
`FsdChain`'s `FixesAssumption` gives the receiver's fixes their type.

Model-checked only:

- all liveness (`Drained`, `Recovers` of both connectors, `WriterReaccepts`,
  `LatestArrives`, `Reconnects`, `EventuallyWritten`, `CallsReturn`), which is out
  of the prover's reach.

Every invariant and every action property that a passing run checks has a theorem.
That the two nodes' counters add up (`EverySentenceAccounted`) is proved only, as
a part of `ChainInv` and by `NothingUncounted`.

A few proofs need an induction, and do it by hand: the set of numbers for which the
claim holds contains 0 and every successor (`SetInduction`, from the
well-foundedness of the order).  `Flattened` is about what a concatenation holds;
`Sliced` and `Follows` are about the layout's recursive functions, the value of
a field's first bits and the offsets of a frame's fields (`Recursion` shows that
there is a function with those values at all).

## Not modelled

- *Of modelled components*: the NTRIP node's signal handler and its republished
  corrections; a TCP server's and a serial port's `disconnect()` at the end of the
  process; the NMEA checksum and the NovAtel decoders, functions of one message;
  scale factors and text layout; of the serial library the modem lines, breaks,
  getters, the listing of ports and `win.cc`.
- *Diagnostics recorder*: its counters are part of `CgiProcess` and `FsdBridge`;
  the tick writes their differences to a file that nothing reads back.
- *Start script, log viewer, uniformity tools*: shell and offline scripts without
  state of their own beyond a lock file.
- *Demo nodes*: each prints or records single messages.
- *SWAS SDK*: a binary library, external to `NtripServer`.
