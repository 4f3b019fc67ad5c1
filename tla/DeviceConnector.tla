--------------------------- MODULE DeviceConnector ---------------------------
(***************************************************************************)
(* udp_common, can_common, file_common and serial_common in the hands of   *)
(* the parser node: the main thread connects, starts the executor's thread *)
(* and reads; with enable_write that thread writes what arrives on the     *)
(* write topic.  Whoever finds status # 1 connects again, and they share   *)
(* the object unlocked.                                                    *)
(*                                                                         *)
(* A step runs to its first system call and the assignments that follow    *)
(* it; sleeps are left out.  A descriptor names a socket; a call that is   *)
(* waiting keeps its socket alive after the descriptor has been closed.    *)
(* What the device sends is numbered; a file is what the device has sent.  *)
(* A file's stream and the device behind a serial port count as sockets.   *)
(***************************************************************************)
EXTENDS CanFrames, FiniteSets

CONSTANTS
    Modes,       \* how the node may be launched
    MaxFd,       \* descriptors the process may have open
    Payloads,    \* with or without a writer: [1..n -> sets of [id, data]], what the
                 \* nth CAN frame may be
    MaxEvents,   \* bound: what the world does unasked
    MaxRead      \* bound: messages read from a file that is opened over and over

ASSUME ModesAssumption ==
    Modes \subseteq [type : {"udp", "can", "file", "serial"}, write : BOOLEAN,
                     format : {"motorola", "intel", "none"}]
ASSUME BoundsAssumption == MaxFd \in Nat \ {0} /\ MaxEvents \in Nat /\ MaxRead \in Nat
\* A can_frame has an array of eight bytes, whatever its length says.
ASSUME PayloadsAssumption ==
    /\ DOMAIN Payloads = BOOLEAN
    /\ \A w \in BOOLEAN : \A k \in DOMAIN Payloads[w] :
           Payloads[w][k] \subseteq [id : Nat, data : Bytes8]

VARIABLES
    mode,      \* type, enable_write, data_format
    status,    \* -1 not connected, 1 connected
    socketfd,  \* descriptor (fp of a file), 0 for none
    addr,      \* sock_addr: "any", "loop" or "peer"; can_addr: "any" or "dev"
    table,     \* the kernel: the socket of each descriptor, or 0
    bound,     \* what each socket is bound to, or "no"; "gone": it was unplugged
    inbox,     \* what waits in each socket; of a file, what is still to be read
    held,      \* the socket the main thread waits in, or 0
    pc, back,  \* where each thread is; where its connect() returns to
    up,        \* network, CAN device, file or serial port is there
    taken,     \* another process has the port
    sent,      \* messages the device has sent
    got,       \* numbers of the messages that read() has returned
    last,      \* the data of the last frame decoded, by its name
    fields,    \* what the decoders have set
    events     \* how often the world has changed

object == <<status, socketfd, addr>>
kernel == <<table, bound, inbox>>
threads == <<held, pc, back>>
world == <<up, taken, sent, events>>
received == <<got, last, fields>>
vars == <<mode, object, kernel, threads, world, received>>

Threads == {"main", "exec"}
Fds == 1..MaxFd
Sockets == 1..(MaxFd + 1)
Is(type) == mode.type = type
Stream == Is("file") \/ Is("serial")

Alive(s) == held = s \/ \E fd \in Fds : table[fd] = s
Free == {fd \in Fds : table[fd] = 0}
LowestOf(S) == {x \in S : \A y \in S : x <= y}
SocketOf(fd) == IF fd \in Fds THEN table[fd] ELSE 0
Closed(fd) == IF fd \in Fds THEN [table EXCEPT ![fd] = 0] ELSE table

Unasked == events < MaxEvents /\ events' = events + 1
Goto(t, label) == pc' = [pc EXCEPT ![t] = label]

\* An exception that nobody catches, or a null stream, ends the process.
Ends == pc' = [t \in Threads |-> "dead"]

-----------------------------------------------------------------------------
(* disconnect() *)

\* What is left of the sockets once this step has closed some.
Kept(f, none) == [s \in Sockets |-> IF Alive(s)' THEN f[s] ELSE none]

\* A file forgets its stream; a socket's number is kept.
CloseIt ==
    /\ table' = Closed(socketfd)
    /\ bound' = Kept(bound, "no") /\ inbox' = Kept(inbox, <<>>)
    /\ socketfd' = IF Is("file") THEN 0 ELSE socketfd
    /\ status' = -1

\* A call on the socket has failed.
Lost(t) ==
    /\ pc[t] = "lost"
    /\ UNCHANGED held
    /\ CloseIt
    /\ Goto(t, IF t = "main" THEN "read" ELSE "idle")
    /\ UNCHANGED <<mode, addr, back, world, received>>

-----------------------------------------------------------------------------
(* connect() *)

\* node_start(): the executor's thread runs from here on.
Start ==
    /\ pc["main"] = "start"
    /\ pc' = [main |-> "read", exec |-> "idle"]
    /\ UNCHANGED <<mode, object, kernel, held, back, world, received>>

\* Unless the status is 1, read() and write() connect, sleep and look again.
Reconnect(t) ==
    /\ pc[t] \in {"read", "write"} /\ status # 1
    /\ back' = [back EXCEPT ![t] = pc[t]]
    /\ Goto(t, "connect")
    /\ UNCHANGED <<mode, object, kernel, held, world, received>>

ConnectBegin(t) ==
    /\ pc[t] = "connect"
    /\ UNCHANGED held
    /\ IF status # -1 /\ ~Is("serial") THEN CloseIt ELSE UNCHANGED <<kernel, socketfd, status>>
    /\ Goto(t, "open")
    /\ UNCHANGED <<mode, addr, back, world, received>>

NewSocket(fd, s, content) ==
    /\ socketfd' = fd
    /\ table' = [table EXCEPT ![fd] = s]
    /\ bound' = [bound EXCEPT ![s] = "no"]
    /\ inbox' = [inbox EXCEPT ![s] = content]

\* socket(); without a descriptor left, UDP goes on to bind() all the same.
OpenUdp(t) ==
    /\ Is("udp")
    /\ \/ \E fd \in LowestOf(Free), s \in LowestOf({x \in Sockets : ~Alive(x)}) :
              NewSocket(fd, s, <<>>)
       \/ Free = {} /\ socketfd' = 0 /\ UNCHANGED kernel
    /\ Goto(t, "bind")
    /\ UNCHANGED status
OpenCan(t) ==
    /\ Is("can")
    /\ \/ /\ \E fd \in LowestOf(Free), s \in LowestOf({x \in Sockets : ~Alive(x)}) :
                 NewSocket(fd, s, <<>>)
          /\ Goto(t, "bind")
       \/ Free = {} /\ socketfd' = 0 /\ Goto(t, back[t]) /\ UNCHANGED kernel
    /\ UNCHANGED status

\* access() and fopen(): reading starts at the beginning.
OpenFile(t) ==
    /\ Is("file")
    /\ \/ /\ up
          /\ \E fd \in LowestOf(Free), s \in LowestOf({x \in Sockets : ~Alive(x)}) :
                 NewSocket(fd, s, [n \in 1..sent |-> [n |-> n, kind |-> "data"]])
          /\ status' = 1
       \/ (~up \/ Free = {}) /\ UNCHANGED <<kernel, socketfd, status>>
    /\ Goto(t, back[t])

\* new Serial, setRTS() and setDTR(): each of them throws when it fails.  Every
\* descriptor of the port takes from the same input.
OpenSerial(t) ==
    /\ Is("serial")
    /\ LET plugged == {s \in Sockets : Alive(s) /\ bound[s] = "dev"} IN
       \/ /\ up
          /\ \E fd \in LowestOf(Free),
                s \in IF plugged # {} THEN plugged ELSE LowestOf({x \in Sockets : ~Alive(x)}) :
                 /\ socketfd' = fd
                 /\ table' = [table EXCEPT ![fd] = s]
                 /\ bound' = [bound EXCEPT ![s] = "dev"]
          /\ status' = 1
          /\ Goto(t, back[t])
       \/ (~up \/ Free = {}) /\ Ends /\ UNCHANGED <<table, bound, socketfd, status>>
    /\ UNCHANGED inbox

Open(t) ==
    /\ pc[t] = "open"
    /\ OpenUdp(t) \/ OpenCan(t) \/ OpenFile(t) \/ OpenSerial(t)
    /\ UNCHANGED <<mode, addr, held, back, world, received>>

PortInUse == taken \/ \E s \in Sockets : Alive(s) /\ bound[s] # "no"

\* bind() to sock_addr, which recvfrom() may have set to the peer's address: that
\* one is never this machine's.
\* (Faulty: the status is not taken back when bind() fails.)
BindUdpHopes ==
    LET s == SocketOf(socketfd)
        ok == s # 0 /\ bound[s] = "no" /\ ~PortInUse /\ addr # "peer"
    IN /\ bound' = IF ok THEN [bound EXCEPT ![s] = addr] ELSE bound
       /\ status' = 1
       /\ UNCHANGED addr
\* (Faulty: the status is what bind() returns.)
BindUdpResult ==
    LET s == SocketOf(socketfd)
        ok == s # 0 /\ bound[s] = "no" /\ ~PortInUse /\ addr # "peer"
    IN /\ bound' = IF ok THEN [bound EXCEPT ![s] = addr] ELSE bound
       /\ status' = IF ok THEN 0 ELSE -1
       /\ UNCHANGED addr
BindUdp ==
    LET s == SocketOf(socketfd)
        ok == s # 0 /\ bound[s] = "no" /\ ~PortInUse /\ addr # "peer"
    IN /\ bound' = IF ok THEN [bound EXCEPT ![s] = addr] ELSE bound
       /\ status' = IF ok THEN 1 ELSE -1
       /\ UNCHANGED addr

\* SIOCGIFINDEX finds the device's index if the device is there; with no index
\* ever found, the socket is bound to every CAN device.
BindCan ==
    LET s == SocketOf(socketfd)
        ok == s # 0 /\ (addr' = "any" \/ up)
    IN /\ addr' = IF up THEN "dev" ELSE addr
       /\ bound' = IF ok THEN [bound EXCEPT ![s] = addr'] ELSE bound
       /\ status' = IF ok THEN 1 ELSE -1

Bind(t) ==
    /\ pc[t] = "bind"
    /\ \/ Is("udp") /\ BindUdp
       \/ Is("can") /\ BindCan
    /\ Goto(t, back[t])
    /\ UNCHANGED <<mode, socketfd, table, inbox, held, back, world, received>>

-----------------------------------------------------------------------------
(* read(), by the main thread *)

\* The call on a descriptor: it waits in the socket, or fails at once.
Enter ==
    /\ pc["main"] = "read" /\ status = 1 /\ ~Stream
    /\ held' = SocketOf(socketfd)
    /\ Goto("main", IF SocketOf(socketfd) = 0 THEN "lost" ELSE "recv")
    /\ UNCHANGED <<mode, object, kernel, back, world, received>>

\* What every read() that returns does.
TakeFrom(s) ==
    /\ held' = 0 /\ UNCHANGED table
    /\ inbox' = Kept([inbox EXCEPT ![s] = Tail(@)], <<>>) /\ bound' = Kept(bound, "no")
    /\ UNCHANGED <<mode, status, socketfd, back, world>>

\* recvfrom() also overwrites sock_addr.  After a datagram without data the errno
\* of some earlier call decides whether the connection is given up.
\* (Faulty: the datagram stays in the socket.)
RecvUdpPeeks ==
    /\ Is("udp") /\ pc["main"] = "recv" /\ inbox[held] # <<>>
    /\ LET m == Head(inbox[held]) IN
       /\ addr' = IF m.kind = "own" THEN "loop" ELSE "peer"
       /\ got' = IF m.kind = "data" THEN Append(got, m.n) ELSE got
       /\ Goto("main", "read")
    /\ held' = 0
    /\ UNCHANGED <<mode, status, socketfd, kernel, back, world, last, fields>>
RecvUdp ==
    /\ Is("udp") /\ pc["main"] = "recv" /\ inbox[held] # <<>>
    /\ LET m == Head(inbox[held]) IN
       /\ addr' = IF m.kind = "own" THEN "loop" ELSE "peer"
       /\ got' = IF m.kind = "data" THEN Append(got, m.n) ELSE got
       /\ \/ Goto("main", "read")
          \/ m.kind = "empty" /\ Goto("main", "lost")
    /\ TakeFrom(held)
    /\ UNCHANGED <<last, fields>>

\* Error frames and remote requests are not decoded; an extended identifier, with
\* its flag, equals none of those the decoders know.
RecvCan ==
    /\ Is("can") /\ pc["main"] = "recv" /\ inbox[held] # <<>>
    /\ LET m == Head(inbox[held]) IN
       /\ got' = IF m.kind \in {"data", "extended"} THEN Append(got, m.n) ELSE got
       /\ IF m.kind = "data" /\ m.id \in CanIds
          THEN /\ fields' = [fields EXCEPT ![FrameName(m.id)] =
                                Decoded(mode.format, m.id, m.data)]
               /\ last' = [last EXCEPT ![FrameName(m.id)] = m.data]
          ELSE UNCHANGED <<fields, last>>
    /\ Goto("main", "read")
    /\ TakeFrom(held)
    /\ UNCHANGED addr

\* The device has gone.
RecvFails ==
    /\ Is("can") /\ pc["main"] = "recv" /\ inbox[held] = <<>> /\ ~up
    /\ held' = 0 /\ UNCHANGED table
    /\ inbox' = Kept(inbox, <<>>) /\ bound' = Kept(bound, "no")
    /\ Goto("main", "lost")
    /\ UNCHANGED <<mode, object, back, world, received>>

\* status is 1: on to fread() or Serial::read().
EnterStream ==
    /\ pc["main"] = "read" /\ status = 1 /\ Stream
    /\ Goto("main", "take")
    /\ UNCHANGED <<mode, object, kernel, held, back, world, received>>

\* Some of what is there, and nothing when there is nothing: at the end of a file,
\* or of a serial port (its timeout is 0), unplugged ones included.
ReadStream ==
    /\ pc["main"] = "take" /\ Len(got) < MaxRead
    /\ LET s == SocketOf(socketfd) IN
       \/ /\ s = 0 /\ Ends
          /\ UNCHANGED <<got, inbox>>
       \/ /\ s # 0 /\ Goto("main", "read")
          /\ \E k \in IF inbox[s] = <<>> THEN {0} ELSE 1..Len(inbox[s]) :
                 /\ got' = got \o [i \in 1..k |-> inbox[s][i].n]
                 /\ inbox' = [inbox EXCEPT ![s] = SubSeq(@, k + 1, Len(@))]
    /\ UNCHANGED <<mode, object, table, bound, held, back, world, last, fields>>

-----------------------------------------------------------------------------
(* write(), by the executor's thread *)

\* A message of the write topic.
WriteCalled ==
    /\ mode.write /\ pc["exec"] = "idle"
    /\ Unasked
    /\ Goto("exec", "write")
    /\ UNCHANGED <<mode, object, kernel, held, back, up, taken, sent, received>>

\* sendto() goes to sock_addr: to the port itself until a peer has spoken.
WriteUdp ==
    /\ Is("udp")
    /\ \/ /\ SocketOf(socketfd) # 0 /\ addr # "peer"
          /\ inbox' = [s \in Sockets |->
                 IF Alive(s) /\ bound[s] # "no" THEN Append(inbox[s], [n |-> 0, kind |-> "own"])
                 ELSE inbox[s]]
          /\ Goto("exec", "idle")
       \/ /\ SocketOf(socketfd) # 0 /\ addr = "peer" /\ up
          /\ Goto("exec", "idle")
          /\ UNCHANGED inbox
       \/ /\ SocketOf(socketfd) = 0 \/ (addr = "peer" /\ ~up)
          /\ Goto("exec", "lost")
          /\ UNCHANGED inbox

\* Only a block of the size of a frame is one.
WriteCan ==
    /\ Is("can")
    /\ \/ SocketOf(socketfd) # 0 /\ up /\ Goto("exec", "idle")
       \/ Goto("exec", "lost")
    /\ UNCHANGED inbox

\* fwrite() on a stream that was opened for reading.
WriteFile == Is("file") /\ Goto("exec", "idle") /\ UNCHANGED inbox

\* What the port does not take at once is dropped; an unplugged one throws.
WriteSerial ==
    /\ Is("serial")
    /\ IF bound[SocketOf(socketfd)] = "gone" THEN Ends ELSE Goto("exec", "idle")
    /\ UNCHANGED inbox

Write ==
    /\ pc["exec"] = "write" /\ status = 1
    /\ WriteUdp \/ WriteCan \/ WriteFile \/ WriteSerial
    /\ UNCHANGED <<mode, object, table, bound, held, back, world, received>>

-----------------------------------------------------------------------------
(* The world *)

\* The device sends: a datagram reaches a socket bound to "any", a frame every
\* socket, or none; a file grows, for those who open it later.
Message(kind) ==
    IF Is("can") /\ kind = "data"
    THEN {[n |-> sent + 1, kind |-> kind, id |-> p.id, data |-> p.data] : p \in Payloads[mode.write][sent + 1]}
    ELSE {[n |-> sent + 1, kind |-> kind]}
Kinds == IF Is("udp") THEN {"data", "empty"}
         ELSE IF Is("can") THEN {"data", "extended", "remote", "error"} ELSE {"data"}
Hears(s) == Alive(s) /\ bound[s] \in {"any", "dev"} /\ up

DeviceSends ==
    /\ sent + 1 \in DOMAIN Payloads[mode.write] /\ sent' = sent + 1
    /\ \E kind \in Kinds : \E m \in Message(kind) :
           inbox' = [s \in Sockets |-> IF Hears(s) THEN Append(inbox[s], m) ELSE inbox[s]]
    /\ UNCHANGED <<mode, object, table, bound, threads, up, taken, events, received>>

\* A serial port that comes back is another one.
WorldChanges ==
    /\ Unasked
    /\ \/ /\ up' = ~up /\ UNCHANGED taken
          /\ bound' = IF up /\ Is("serial")
                      THEN [s \in Sockets |-> IF bound[s] = "dev" THEN "gone" ELSE bound[s]]
                      ELSE bound
       \/ /\ Is("udp") /\ (taken \/ ~PortInUse)
          /\ taken' = ~taken
          /\ UNCHANGED <<up, bound>>
    /\ UNCHANGED <<mode, object, table, inbox, threads, sent, received>>

Init ==
    /\ mode \in Modes
    /\ status = -1 /\ socketfd = 0 /\ addr = "any"
    /\ table = [fd \in Fds |-> 0]
    /\ bound = [s \in Sockets |-> "no"] /\ inbox = [s \in Sockets |-> <<>>]
    /\ held = 0
    /\ pc = [main |-> "connect", exec |-> "absent"]
    /\ back = [main |-> "start", exec |-> "write"]
    /\ up \in BOOLEAN /\ taken = FALSE /\ sent = 0 /\ events = 0
    /\ got = <<>>
    /\ fields = [name \in FrameNames |-> <<>>] /\ last = [name \in FrameNames |-> <<>>]

Step(t) == Lost(t) \/ Reconnect(t) \/ ConnectBegin(t) \/ Open(t) \/ Bind(t)
Main ==
    \/ Step("main") \/ Start
    \/ Enter \/ RecvUdp \/ RecvCan \/ RecvFails
    \/ EnterStream \/ ReadStream
Exec == Step("exec") \/ Write

Next == Main \/ Exec \/ WriteCalled \/ DeviceSends \/ WorldChanges
Spec == Init /\ [][Next]_vars

\* Neither thread stops on its way; the world may.
FairSpec == Spec /\ WF_vars(Main) /\ WF_vars(Exec)

-----------------------------------------------------------------------------
(* Properties *)

TypeOK ==
    /\ status \in {-1, 1} /\ socketfd \in 0..MaxFd /\ held \in 0..(MaxFd + 1)
    /\ addr \in {"any", "loop", "peer", "dev"}
    /\ table \in [Fds -> 0..(MaxFd + 1)]
    /\ bound \in [Sockets -> {"no", "any", "loop", "dev", "gone"}]
    /\ pc["main"] \in
           {"connect", "open", "bind", "start", "read", "recv", "take", "lost", "dead"}
    /\ pc["exec"] \in {"absent", "connect", "open", "bind", "idle", "write", "lost", "dead"}
    /\ pc["main"] = "recv" <=> held # 0

\* A reader alone never takes a socket it cannot read for a connection, and leaves
\* no bound socket behind: what leaks are sockets that bind() refused.
OneConnection ==
    ~mode.write =>
        /\ status = 1 =>
               SocketOf(socketfd) # 0 /\ (Is("file") \/ bound[SocketOf(socketfd)] # "no")
        /\ \A fd \in Fds : table[fd] # 0 /\ bound[table[fd]] # "no" => fd = socketfd

\* What read() returns is in the order it was sent, and nothing twice, whatever
\* is lost and however often the two threads connect UDP or a serial port again.  (Two threads may
\* both open a file that was not there, or leave a second CAN socket bound: the one
\* is then read twice, and of the other the main thread may read both sockets.)
InOrderOnce ==
    (mode.write => Is("udp") \/ Is("serial")) =>
        \A i, j \in DOMAIN got : i < j => got[i] < got[j]

\* Each field that the manual lists is what its layout says of the last frame that
\* carries it, in either format, and no other frame has touched it.  Two frames the
\* code reads by another layout than the manual's, which has three fields of 16 bits
\* in them (docs/CGI-410.md:467-469, :527-544): of those nothing is claimed.
ReadOtherwise == {"pos_sigma", "heading_pitch_roll_sigma"}
FieldsAsLaidOut ==
    \A name \in FrameNames \ ReadOtherwise : last[name] # <<>> =>
        AsLaidOut(mode.format, name, fields[name], last[name])

\* What can keep the node from ever being connected again: the port is another
\* process's, the address is by now a peer's, no descriptor is left, the device
\* or the file is not there, a socket that was lost sight of has the port, the
\* reader waits in a socket that the writer has closed, a serial port has once been
\* unplugged, or the process has ended.
Obstacle ==
    \/ Free = {}
    \/ Is("udp") /\ (taken \/ addr = "peer")
    \/ ~Is("udp") /\ ~up
    \/ Is("udp") /\ \E s \in Sockets :
           Alive(s) /\ bound[s] # "no" /\ s # SocketOf(socketfd)
    \/ held # 0 /\ held # SocketOf(socketfd)
    \/ \E s \in Sockets : bound[s] = "gone"
    \/ pc["main"] = "dead"
Recovers == []<>(status = 1 \/ Obstacle)

=============================================================================
