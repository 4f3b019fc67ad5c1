------------------------- MODULE DeviceConnectorProofs -------------------------
(***************************************************************************)
(* For any number of descriptors, messages, frames and changes of the      *)
(* world: the types, that a reader alone keeps one connection, that what   *)
(* read() returns is in order, whatever the two threads do to the object   *)
(* they share, and that the fields of every CAN frame are what the layout  *)
(* says, for any eight bytes.                                              *)
(*                                                                         *)
(* The layout's Slice and Unsigned are recursive functions: an induction   *)
(* over the naturals, on sets, gives each of them its values.              *)
(***************************************************************************)
EXTENDS DeviceConnector, SequenceTheorems, NaturalsInduction, WellFoundedInduction, TLAPS

-----------------------------------------------------------------------------
(* The inductive invariant *)

\* What may wait in a socket.
Framed == UNION {UNION {Payloads[w][k] : k \in DOMAIN Payloads[w]} : w \in BOOLEAN}
Messages ==
    [n : Nat, kind : {"data", "empty", "extended", "remote", "error", "own"}]
    \cup {[n |-> k, kind |-> "data", id |-> p.id, data |-> p.data] : k \in Nat, p \in Framed}

\* Where each thread may be, and where connect() may return to.
MainLabels == {"connect", "open", "bind", "start", "read", "recv", "take", "lost", "dead"}
ExecLabels == {"absent", "connect", "open", "bind", "idle", "write", "lost", "dead"}
ThreadsTyped ==
    /\ pc \in [Threads -> MainLabels \cup ExecLabels]
    /\ pc["main"] \in MainLabels /\ pc["exec"] \in ExecLabels
    /\ back \in [Threads -> {"start", "read", "write"}]
    /\ back["main"] # "write" /\ back["exec"] = "write"
    /\ pc["main"] = "recv" <=> held # 0

Bindings == {"no", "any", "loop", "dev", "gone"}
DataTyped ==
    /\ mode \in Modes
    /\ status \in {-1, 1} /\ socketfd \in 0..MaxFd /\ held \in 0..(MaxFd + 1)
    /\ Stream => held = 0
    /\ addr \in {"any", "loop", "peer", "dev"} /\ (Is("can") => addr \in {"any", "dev"})
    /\ table \in [Fds -> 0..(MaxFd + 1)]
    /\ bound \in [Sockets -> Bindings]
    /\ inbox \in [Sockets -> Seq(Messages)]
    /\ sent \in Nat /\ got \in Seq(Nat)

TypeInv == ThreadsTyped /\ DataTyped

\* A socket that messages reach or wait in.
Carrier(s) == bound[s] # "no" \/ inbox[s] # <<>>

\* No two descriptors name one socket.
Injective ==
    \A f, g \in Fds : table[f] = table[g] /\ table[f] # 0 => f = g

\* One thread alone connects: there is no writer, or the first connect() of a
\* serial port is the last.  Then the status says whether there is a connection,
\* and messages only reach the socket of the object's descriptor.
Solo == ~mode.write \/ Is("serial")
SoloSteps ==
    /\ pc["exec"] \in {"absent", "idle", "write", "dead"}
    /\ pc["exec"] = "write" => Is("serial")
    /\ pc["main"] \in {"connect", "open", "bind"} => status = -1
    /\ pc["main"] \in {"recv", "take"} => status = 1
    /\ Is("serial") =>
         /\ pc["main"] \notin {"bind", "recv", "lost"}
         /\ pc["exec"] \in {"idle", "write"} \/ pc["main"] \in {"start", "read"} => status = 1
    /\ Is("file") =>
         /\ pc["main"] \notin {"bind", "recv", "lost"}
         /\ status = -1 => got = <<>>
SoloOwns ==
    /\ \A s \in Sockets : Carrier(s) => status = 1 /\ s = SocketOf(socketfd)
    /\ status = 1 =>
         SocketOf(socketfd) # 0 /\ (Is("file") \/ bound[SocketOf(socketfd)] # "no")

\* Of the sockets of UDP only one is bound, and it is in use.
UdpOwns ==
    /\ \A s \in Sockets : Carrier(s) => Alive(s)
    /\ \A s1, s2 \in Sockets : Carrier(s1) /\ Carrier(s2) => s1 = s2

\* Messages wait where they arrived.
BoundOnly ==
    ~Is("file") => \A s \in Sockets : inbox[s] # <<>> => bound[s] # "no"

Owns ==
    /\ Injective /\ BoundOnly
    /\ Solo => SoloOwns
    /\ Is("udp") => UdpOwns

\* A message of the device is newer than those before it and those returned.
InOrder(q) ==
    /\ \A i \in 1..Len(q) : q[i].kind = "own" => Is("udp")
    /\ \A i \in 1..Len(q) : q[i].kind # "own" =>
         /\ q[i].n <= sent
         /\ \A j \in 1..Len(got) : got[j] < q[i].n
    /\ \A i, j \in 1..Len(q) :
         i < j /\ q[i].kind # "own" /\ q[j].kind # "own" => q[i].n < q[j].n
Returned ==
    /\ \A i \in 1..Len(got) : got[i] <= sent
    /\ \A i, j \in 1..Len(got) : i < j => got[i] < got[j]
Ordered == Returned /\ \A s \in Sockets : InOrder(inbox[s])

\* Only a stream is read without a wait in the kernel.
TakesStreams == pc["main"] = "take" => Stream

IInv ==
    /\ TypeInv /\ Owns /\ TakesStreams
    /\ Solo => SoloSteps
    /\ Solo \/ Is("udp") => Ordered

-----------------------------------------------------------------------------
(* Types *)

\* The node is launched in one of its ways, and has a descriptor.
LEMMA ModeFacts ==
    ASSUME mode \in Modes
    PROVE  /\ mode.type \in {"udp", "can", "file", "serial"}
           /\ mode.write \in BOOLEAN
           /\ MaxFd \in Nat \ {0}
<1>1. mode \in [type : {"udp", "can", "file", "serial"}, write : BOOLEAN,
                format : {"motorola", "intel", "none"}]
  BY ModesAssumption
<1> QED
  BY <1>1, BoundsAssumption

\* The socket of a descriptor, if it has one, is in use.
LEMMA SocketFacts ==
    ASSUME table \in [Fds -> 0..(MaxFd + 1)], NEW fd \in 0..MaxFd
    PROVE  /\ SocketOf(fd) \in 0..(MaxFd + 1)
           /\ SocketOf(fd) # 0 =>
                /\ fd \in Fds /\ SocketOf(fd) = table[fd]
                /\ SocketOf(fd) \in Sockets /\ Alive(SocketOf(fd))
<1>1. MaxFd \in Nat \ {0}
  BY BoundsAssumption
<1>2. CASE fd \in Fds
  <2>1. SocketOf(fd) = table[fd] /\ table[fd] \in 0..(MaxFd + 1)
    BY <1>2 DEF SocketOf
  <2>2. table[fd] # 0 => table[fd] \in Sockets /\ Alive(table[fd])
    BY <1>1, <1>2, <2>1 DEF Sockets, Alive
  <2> QED
    BY <1>1, <1>2, <2>1, <2>2
<1>3. CASE fd \notin Fds
  BY <1>1, <1>3 DEF SocketOf
<1> QED
  BY <1>2, <1>3

\* What a message is.
LEMMA MessageFacts ==
    ASSUME NEW m \in Messages
    PROVE  m.n \in Nat /\ m.kind \in {"data", "empty", "extended", "remote", "error", "own"}
BY DEF Messages

\* A thread goes on, and the main thread to or from no call that waits.
LEMMA ThreadGoes ==
    ASSUME ThreadsTyped, NEW t \in Threads, NEW label, Goto(t, label),
           t = "main" => label \in MainLabels \ {"recv"} /\ held' = 0,
           t = "exec" => label \in ExecLabels /\ held' = held,
           UNCHANGED back
    PROVE  ThreadsTyped' /\ pc'[t] = label /\ \A u \in Threads \ {t} : pc'[u] = pc[u]
<1>1. CASE t = "main"
  BY <1>1 DEF ThreadsTyped, Goto, Threads, MainLabels, ExecLabels
<1>2. CASE t = "exec"
  BY <1>2 DEF ThreadsTyped, Goto, Threads, MainLabels, ExecLabels
<1> QED
  BY <1>1, <1>2 DEF Threads

\* A stream's reader waits nowhere: the process may end.
LEMMA ProcessEnds ==
    ASSUME ThreadsTyped, Ends, held = 0, UNCHANGED <<held, back>>
    PROVE  ThreadsTyped' /\ \A u \in Threads : pc'[u] = "dead"
BY DEF ThreadsTyped, Ends, Threads, MainLabels, ExecLabels

\* Closing the socket keeps the types.
LEMMA CloseTyped ==
    ASSUME DataTyped, CloseIt
    PROVE  /\ status' = -1 /\ socketfd' \in 0..MaxFd
           /\ table' \in [Fds -> 0..(MaxFd + 1)]
           /\ bound' \in [Sockets -> Bindings]
           /\ inbox' \in [Sockets -> Seq(Messages)]
<1>1. /\ socketfd \in 0..MaxFd /\ table \in [Fds -> 0..(MaxFd + 1)]
      /\ bound \in [Sockets -> Bindings]
      /\ inbox \in [Sockets -> Seq(Messages)] /\ MaxFd \in Nat
  BY BoundsAssumption DEF DataTyped
<1>2. table' \in [Fds -> 0..(MaxFd + 1)]
  BY <1>1 DEF CloseIt, Closed
<1>3. bound' \in [Sockets -> Bindings]
  BY <1>1 DEF CloseIt, Kept, Bindings
<1>4. inbox' \in [Sockets -> Seq(Messages)]
  <2>1. <<>> \in Seq(Messages)
    BY EmptySeq
  <2> QED
    BY <1>1, <2>1 DEF CloseIt, Kept
<1>5. status' = -1 /\ socketfd' \in 0..MaxFd
  BY <1>1 DEF CloseIt
<1> QED
  BY <1>2, <1>3, <1>4, <1>5

\* connect() is called.
LEMMA CallTyped ==
    ASSUME TypeInv, NEW t \in Threads, Lost(t) \/ Reconnect(t) \/ ConnectBegin(t)
    PROVE  TypeInv'
<1>1. t = "main" \/ t = "exec"
  BY DEF Threads
<1>2. CASE Lost(t)
  <2>1. CloseIt /\ UNCHANGED <<held, mode, addr, back, sent, got>> /\ pc[t] = "lost"
        /\ Goto(t, IF t = "main" THEN "read" ELSE "idle")
    BY <1>2 DEF Lost, world, received
  <2>2. ThreadsTyped'
    BY <1>1, <2>1, ThreadGoes DEF TypeInv, MainLabels, ExecLabels, ThreadsTyped
  <2>3. DataTyped'
    BY <2>1, CloseTyped DEF TypeInv, DataTyped, Stream, Is
  <2> QED
    BY <2>2, <2>3 DEF TypeInv
<1>3. CASE Reconnect(t)
  <2>1. UNCHANGED <<status, socketfd, addr, table, bound, inbox, held, mode, sent, got>>
        /\ pc[t] \in {"read", "write"} /\ pc' = [pc EXCEPT ![t] = "connect"]
        /\ back' = [back EXCEPT ![t] = pc[t]]
    BY <1>3 DEF Reconnect, object, kernel, world, received, Goto
  <2>2. ThreadsTyped'
    BY <1>1, <2>1 DEF TypeInv, ThreadsTyped, Threads, MainLabels, ExecLabels
  <2>3. DataTyped'
    BY <2>1 DEF TypeInv, DataTyped, Stream, Is, Bindings
  <2> QED
    BY <2>2, <2>3 DEF TypeInv
<1>4. CASE ConnectBegin(t)
  <2>1. UNCHANGED <<addr, held, mode, back, sent, got>>
        /\ pc[t] = "connect" /\ Goto(t, "open")
    BY <1>4 DEF ConnectBegin, world, received
  <2>5. CloseIt \/ UNCHANGED <<table, bound, inbox, socketfd, status>>
    BY <1>4 DEF ConnectBegin, kernel
  <2>2. ThreadsTyped'
    BY <1>1, <2>1, ThreadGoes DEF TypeInv, MainLabels, ExecLabels, ThreadsTyped
  <2>3. DataTyped'
    <3>1. CASE CloseIt
      BY <2>1, <3>1, CloseTyped DEF TypeInv, DataTyped, Stream, Is
    <3>2. CASE UNCHANGED <<table, bound, inbox, socketfd, status>>
      BY <2>1, <3>2 DEF TypeInv, DataTyped, Stream, Is, Bindings
    <3> QED
      BY <2>5, <3>1, <3>2
  <2> QED
    BY <2>2, <2>3 DEF TypeInv
<1> QED
  BY <1>2, <1>3, <1>4

\* A descriptor that is free, for a socket that is not in use.
LEMMA LowestFacts ==
    ASSUME NEW S, NEW x \in LowestOf(S)
    PROVE  x \in S
BY DEF LowestOf

LEMMA NewTyped ==
    ASSUME DataTyped, NEW fd \in Fds, NEW s \in Sockets, NEW content \in Seq(Messages),
           NewSocket(fd, s, content)
    PROVE  /\ socketfd' \in 0..MaxFd
           /\ table' \in [Fds -> 0..(MaxFd + 1)]
           /\ bound' \in [Sockets -> Bindings]
           /\ inbox' \in [Sockets -> Seq(Messages)]
<1>1. MaxFd \in Nat \ {0}
  BY BoundsAssumption
<1>2. socketfd' \in 0..MaxFd /\ s \in 0..(MaxFd + 1)
  BY <1>1 DEF NewSocket, Fds, Sockets
<1>3. table' \in [Fds -> 0..(MaxFd + 1)]
  BY <1>2 DEF DataTyped, NewSocket
<1>4. bound' \in [Sockets -> Bindings] /\ inbox' \in [Sockets -> Seq(Messages)]
  BY DEF DataTyped, NewSocket, Bindings
<1> QED
  BY <1>2, <1>3, <1>4

\* What a file holds.
LEMMA FileTyped ==
    ASSUME sent \in Nat
    PROVE  [n \in 1..sent |-> [n |-> n, kind |-> "data"]] \in Seq(Messages)
<1>1. \A n \in 1..sent : [n |-> n, kind |-> "data"] \in Messages
  BY DEF Messages
<1> QED
  BY <1>1, IsASeq

\* What a descriptor is opened for: a socket that is not in use.
Opens(fd, s, content) ==
    /\ fd \in Fds /\ table[fd] = 0
    /\ s \in Sockets /\ ~Alive(s)
    /\ content \in Seq(Messages)
    /\ NewSocket(fd, s, content)

\* The ways that connect() opens something or does not.
LEMMA OpenCases ==
    ASSUME TypeInv, NEW t \in Threads, Open(t)
    PROVE  /\ UNCHANGED <<mode, addr, held, back, sent, got>>
           /\ pc[t] = "open"
           /\ \/ /\ Is("udp") \/ Is("can")
                 /\ \E fd, s : Opens(fd, s, <<>>)
                 /\ Goto(t, "bind") /\ UNCHANGED status
              \/ /\ Is("udp") \/ Is("can")
                 /\ UNCHANGED <<table, bound, inbox>> /\ socketfd' = 0 /\ UNCHANGED status
                 /\ (Is("udp") /\ Goto(t, "bind")) \/ (Is("can") /\ Goto(t, back[t]))
              \/ /\ Is("file")
                 /\ \E fd, s : Opens(fd, s, [n \in 1..sent |-> [n |-> n, kind |-> "data"]])
                 /\ Goto(t, back[t]) /\ status' = 1
              \/ /\ Is("file")
                 /\ UNCHANGED <<table, bound, inbox>> /\ UNCHANGED <<socketfd, status>>
                 /\ Goto(t, back[t])
              \/ /\ Is("serial")
                 /\ \E fd \in Fds, s \in Sockets :
                      /\ table[fd] = 0
                      /\ ~Alive(s) \/ bound[s] = "dev"
                      /\ socketfd' = fd
                      /\ table' = [table EXCEPT ![fd] = s]
                      /\ bound' = [bound EXCEPT ![s] = "dev"]
                 /\ UNCHANGED inbox
                 /\ Goto(t, back[t]) /\ status' = 1
              \/ /\ Is("serial")
                 /\ UNCHANGED <<table, bound, inbox>> /\ UNCHANGED <<socketfd, status>>
                 /\ Ends
<1>1. UNCHANGED <<mode, addr, held, back, sent, got>> /\ pc[t] = "open"
  BY DEF Open, world, received
<1>2. \A fd \in LowestOf(Free) : fd \in Fds /\ table[fd] = 0
  BY LowestFacts DEF Free
<1>3. \A s \in LowestOf({x \in Sockets : ~Alive(x)}) : s \in Sockets /\ ~Alive(s)
  BY LowestFacts
<1>4. <<>> \in Seq(Messages) /\ [n \in 1..sent |-> [n |-> n, kind |-> "data"]] \in Seq(Messages)
  BY EmptySeq, FileTyped DEF TypeInv, DataTyped
<1>5. CASE OpenUdp(t)
  <2>1. CASE \E fd \in LowestOf(Free), s \in LowestOf({x \in Sockets : ~Alive(x)}) :
                NewSocket(fd, s, <<>>)
    <3>1. \E fd, s : Opens(fd, s, <<>>)
      BY <2>1, <1>2, <1>3, <1>4 DEF Opens
    <3> QED
      BY <3>1, <1>1, <1>5 DEF OpenUdp
  <2>2. CASE socketfd' = 0 /\ UNCHANGED kernel
    <3>1. UNCHANGED <<table, bound, inbox>>
      BY <2>2 DEF kernel
    <3>2. Is("udp") /\ Goto(t, "bind") /\ UNCHANGED status
      BY <1>5 DEF OpenUdp
    <3> QED
      BY <3>1, <3>2, <2>2, <1>1
  <2> QED
    BY <2>1, <2>2, <1>5 DEF OpenUdp
<1>6. CASE OpenCan(t)
  <2>1. CASE /\ \E fd \in LowestOf(Free), s \in LowestOf({x \in Sockets : ~Alive(x)}) :
                   NewSocket(fd, s, <<>>)
             /\ Goto(t, "bind")
    <3>1. \E fd, s : Opens(fd, s, <<>>)
      BY <2>1, <1>2, <1>3, <1>4 DEF Opens
    <3> QED
      BY <3>1, <2>1, <1>1, <1>6 DEF OpenCan
  <2>2. CASE socketfd' = 0 /\ Goto(t, back[t]) /\ UNCHANGED kernel
    BY <2>2, <1>1, <1>6 DEF OpenCan, kernel
  <2> QED
    BY <2>1, <2>2, <1>6 DEF OpenCan
<1>7. CASE OpenFile(t)
  <2> DEFINE content == [n \in 1..sent |-> [n |-> n, kind |-> "data"]]
  <2>1. CASE /\ \E fd \in LowestOf(Free), s \in LowestOf({x \in Sockets : ~Alive(x)}) :
                   NewSocket(fd, s, content)
             /\ status' = 1
    <3>1. \E fd, s : Opens(fd, s, content)
      BY <2>1, <1>2, <1>3, <1>4 DEF Opens
    <3> QED
      BY <3>1, <2>1, <1>1, <1>7 DEF OpenFile
  <2>2. CASE UNCHANGED <<kernel, socketfd, status>>
    BY <2>2, <1>1, <1>7 DEF OpenFile, kernel
  <2> QED
    BY <2>1, <2>2, <1>7 DEF OpenFile
<1>8. CASE OpenSerial(t)
  <2> DEFINE plugged == {s \in Sockets : Alive(s) /\ bound[s] = "dev"}
             choice == IF plugged # {} THEN plugged ELSE LowestOf({x \in Sockets : ~Alive(x)})
  <2>1. \A s \in choice : s \in Sockets /\ (~Alive(s) \/ bound[s] = "dev")
    BY <1>3
  <2>2. CASE /\ \E fd \in LowestOf(Free), s \in choice :
                   /\ socketfd' = fd
                   /\ table' = [table EXCEPT ![fd] = s]
                   /\ bound' = [bound EXCEPT ![s] = "dev"]
             /\ status' = 1
             /\ Goto(t, back[t])
    <3>1. \E fd \in Fds, s \in Sockets :
            /\ table[fd] = 0
            /\ ~Alive(s) \/ bound[s] = "dev"
            /\ socketfd' = fd
            /\ table' = [table EXCEPT ![fd] = s]
            /\ bound' = [bound EXCEPT ![s] = "dev"]
      BY <2>1, <2>2, <1>2
    <3> QED
      BY <3>1, <2>2, <1>1, <1>8 DEF OpenSerial
  <2>3. CASE Ends /\ UNCHANGED <<table, bound, socketfd, status>>
    BY <2>3, <1>1, <1>8 DEF OpenSerial
  <2> QED
    BY <2>2, <2>3, <1>8 DEF OpenSerial
<1> QED
  BY <1>5, <1>6, <1>7, <1>8 DEF Open

LEMMA OpenTyped ==
    ASSUME TypeInv, NEW t \in Threads, Open(t)
    PROVE  TypeInv'
<1>1. t = "main" \/ t = "exec"
  BY DEF Threads
<1>2. /\ UNCHANGED <<mode, addr, held, back, sent, got>>
      /\ pc[t] = "open"
  BY OpenCases
<1>3. t = "main" => back[t] \in MainLabels \ {"recv"} /\ held' = 0 /\ "bind" \in MainLabels \ {"recv"}
  BY <1>2 DEF TypeInv, ThreadsTyped, MainLabels, Threads
<1>4. t = "exec" => back[t] \in ExecLabels /\ held' = held /\ "bind" \in ExecLabels
  BY <1>2 DEF TypeInv, ThreadsTyped, ExecLabels
<1>5. ThreadsTyped'
  <2>1. Goto(t, "bind") \/ Goto(t, back[t]) \/ (Is("serial") /\ Ends)
    BY OpenCases
  <2>2. CASE Goto(t, "bind")
    BY <2>2, <1>1, <1>2, <1>3, <1>4, ThreadGoes DEF TypeInv
  <2>3. CASE Goto(t, back[t])
    BY <2>3, <1>1, <1>2, <1>3, <1>4, ThreadGoes DEF TypeInv
  <2>4. CASE Is("serial") /\ Ends
    <3>1. held = 0
      BY <2>4 DEF TypeInv, DataTyped, Stream
    <3> QED
      BY <2>4, <3>1, <1>2, ProcessEnds DEF TypeInv
  <2> QED
    BY <2>1, <2>2, <2>3, <2>4
<1>6. /\ socketfd' \in 0..MaxFd /\ status' \in {-1, 1}
      /\ table' \in [Fds -> 0..(MaxFd + 1)]
      /\ bound' \in [Sockets -> Bindings]
      /\ inbox' \in [Sockets -> Seq(Messages)]
  <2>1. /\ socketfd \in 0..MaxFd /\ status \in {-1, 1}
        /\ table \in [Fds -> 0..(MaxFd + 1)]
        /\ bound \in [Sockets -> Bindings]
        /\ inbox \in [Sockets -> Seq(Messages)]
        /\ MaxFd \in Nat
    BY BoundsAssumption DEF TypeInv, DataTyped
  <2>2. status' \in {-1, 1}
    BY <2>1, OpenCases
  <2>3. CASE \E fd, s, content : Opens(fd, s, content)
    BY <2>2, <2>3, NewTyped DEF TypeInv, Opens
  <2>4. CASE UNCHANGED <<table, bound, inbox>> /\ (socketfd' = 0 \/ UNCHANGED socketfd)
    BY <2>1, <2>2, <2>4
  <2>5. CASE /\ \E fd \in Fds, s \in Sockets :
                  /\ socketfd' = fd
                  /\ table' = [table EXCEPT ![fd] = s]
                  /\ bound' = [bound EXCEPT ![s] = "dev"]
             /\ UNCHANGED inbox
    <3>1. PICK fd \in Fds, s \in Sockets :
                  /\ socketfd' = fd
                  /\ table' = [table EXCEPT ![fd] = s]
                  /\ bound' = [bound EXCEPT ![s] = "dev"]
      BY <2>5
    <3>2. fd \in 0..MaxFd /\ s \in 0..(MaxFd + 1)
      BY <2>1 DEF Fds, Sockets
    <3> QED
      BY <3>1, <3>2, <2>1, <2>2, <2>5 DEF Bindings
  <2> QED
    BY <2>3, <2>4, <2>5, OpenCases
<1>7. DataTyped'
  BY <1>2, <1>6 DEF TypeInv, DataTyped, Stream, Is
<1> QED
  BY <1>5, <1>7 DEF TypeInv

\* bind() of a socket, or none.
LEMMA BindCases ==
    ASSUME TypeInv, NEW t \in Threads, Bind(t)
    PROVE  /\ UNCHANGED <<mode, socketfd, table, inbox, held, back, sent, got>>
           /\ pc[t] = "bind" /\ Goto(t, back[t])
           /\ Is("udp") \/ Is("can")
           /\ Is("udp") => UNCHANGED addr
           /\ Is("can") => addr' \in {"any", "dev"}
           /\ \/ /\ SocketOf(socketfd) # 0
                 /\ Is("udp") => ~PortInUse
                 /\ addr' \in {"any", "loop", "dev"}
                 /\ bound' = [bound EXCEPT ![SocketOf(socketfd)] = addr']
                 /\ status' = 1
              \/ UNCHANGED bound /\ status' = -1
<1>1. /\ UNCHANGED <<mode, socketfd, table, inbox, held, back, sent, got>>
      /\ pc[t] = "bind" /\ Goto(t, back[t])
  BY DEF Bind, world, received
<1>2. CASE Is("udp") /\ BindUdp
  <2>1. addr \in {"any", "loop", "peer", "dev"}
    BY DEF TypeInv, DataTyped
  <2>2. ~Is("can")
    BY <1>2 DEF Is
  <2> QED
    BY <1>1, <1>2, <2>1, <2>2 DEF BindUdp
<1>3. CASE Is("can") /\ BindCan
  <2>1. addr \in {"any", "dev"} /\ ~Is("udp")
    BY <1>3 DEF TypeInv, DataTyped, Is
  <2>2. addr' \in {"any", "dev"}
    BY <1>3, <2>1 DEF BindCan
  <2> QED
    BY <1>1, <1>3, <2>1, <2>2 DEF BindCan
<1> QED
  BY <1>2, <1>3 DEF Bind

LEMMA BindTyped ==
    ASSUME TypeInv, NEW t \in Threads, Bind(t)
    PROVE  TypeInv'
<1>1. /\ UNCHANGED <<mode, socketfd, table, inbox, held, back, sent, got>>
      /\ pc[t] = "bind" /\ Goto(t, back[t])
  BY BindCases
<1>2. ThreadsTyped'
  <2>1. t = "main" => back[t] \in MainLabels \ {"recv"} /\ held' = 0
    BY <1>1 DEF TypeInv, ThreadsTyped, MainLabels, Threads
  <2>2. t = "exec" => back[t] \in ExecLabels /\ held' = held
    BY <1>1 DEF TypeInv, ThreadsTyped, ExecLabels
  <2> QED
    BY <1>1, <2>1, <2>2, ThreadGoes DEF TypeInv
<1>3. /\ status' \in {-1, 1}
      /\ addr' \in {"any", "loop", "peer", "dev"} /\ (Is("can") => addr' \in {"any", "dev"})
  <2>1. addr \in {"any", "loop", "peer", "dev"}
    BY DEF TypeInv, DataTyped
  <2> QED
    BY <2>1, BindCases
<1>4. bound' \in [Sockets -> Bindings]
  <2>1. bound \in [Sockets -> Bindings]
    BY DEF TypeInv, DataTyped
  <2>2. \/ UNCHANGED bound
        \/ addr' \in Bindings /\ bound' = [bound EXCEPT ![SocketOf(socketfd)] = addr']
    BY BindCases DEF Bindings
  <2> QED
    BY <2>1, <2>2
<1>5. DataTyped'
  BY <1>1, <1>3, <1>4 DEF TypeInv, DataTyped, Stream, Is
<1> QED
  BY <1>2, <1>5 DEF TypeInv

\* The start, the calls of read() that wait, and those that end a wait with nothing.
LEMMA WaitTyped ==
    ASSUME TypeInv, Start \/ Enter \/ EnterStream \/ RecvFails
    PROVE  TypeInv'
<1>1. CASE Start
  <2>1. UNCHANGED <<mode, status, socketfd, addr, table, bound, inbox, held, back, sent, got>>
        /\ pc["main"] = "start" /\ pc' = [main |-> "read", exec |-> "idle"]
    BY <1>1 DEF Start, object, kernel, world, received
  <2>2. ThreadsTyped'
    <3>1. pc' \in [Threads -> MainLabels \cup ExecLabels]
          /\ pc'["main"] = "read" /\ pc'["exec"] = "idle"
      BY <2>1 DEF Threads, MainLabels, ExecLabels
    <3> QED
      BY <2>1, <3>1 DEF TypeInv, ThreadsTyped, MainLabels, ExecLabels
  <2>3. DataTyped'
    BY <2>1 DEF TypeInv, DataTyped, Stream, Is, Bindings
  <2> QED
    BY <2>2, <2>3 DEF TypeInv
<1>2. CASE Enter
  <2>1. /\ UNCHANGED <<mode, status, socketfd, addr, table, bound, inbox, back, sent, got>>
        /\ pc["main"] = "read" /\ ~Stream /\ held' = SocketOf(socketfd)
        /\ pc' = [pc EXCEPT !["main"] = IF SocketOf(socketfd) = 0 THEN "lost" ELSE "recv"]
    BY <1>2 DEF Enter, object, kernel, world, received, Goto
  <2>2. ThreadsTyped'
    BY <2>1 DEF TypeInv, ThreadsTyped, Threads, MainLabels, ExecLabels
  <2>3. held' \in 0..(MaxFd + 1)
    BY <2>1, SocketFacts DEF TypeInv, DataTyped
  <2>4. DataTyped'
    BY <2>1, <2>3 DEF TypeInv, DataTyped, Stream, Is, Bindings
  <2> QED
    BY <2>2, <2>4 DEF TypeInv
<1>3. CASE EnterStream
  <2>1. /\ UNCHANGED <<mode, status, socketfd, addr, table, bound, inbox, held, back, sent, got>>
        /\ pc["main"] = "read" /\ pc' = [pc EXCEPT !["main"] = "take"]
    BY <1>3 DEF EnterStream, object, kernel, world, received, Goto
  <2>2. ThreadsTyped'
    BY <2>1 DEF TypeInv, ThreadsTyped, Threads, MainLabels, ExecLabels
  <2>3. DataTyped'
    BY <2>1 DEF TypeInv, DataTyped, Stream, Is, Bindings
  <2> QED
    BY <2>2, <2>3 DEF TypeInv
<1>4. CASE RecvFails
  <2>1. /\ UNCHANGED <<mode, status, socketfd, addr, table, back, sent, got>>
        /\ pc["main"] = "recv" /\ held' = 0 /\ pc' = [pc EXCEPT !["main"] = "lost"]
        /\ inbox' = Kept(inbox, <<>>) /\ bound' = Kept(bound, "no")
    BY <1>4 DEF RecvFails, object, world, received, Goto
  <2>2. ThreadsTyped'
    BY <2>1 DEF TypeInv, ThreadsTyped, Threads, MainLabels, ExecLabels
  <2>3. bound' \in [Sockets -> Bindings] /\ inbox' \in [Sockets -> Seq(Messages)]
    BY <2>1, EmptySeq DEF TypeInv, DataTyped, Kept, Bindings
  <2>4. DataTyped'
    BY <2>1, <2>3, BoundsAssumption DEF TypeInv, DataTyped, Stream, Is
  <2> QED
    BY <2>2, <2>4 DEF TypeInv
<1> QED
  BY <1>1, <1>2, <1>3, <1>4

\* A message is taken from the socket that the main thread waits in.
LEMMA RecvCases ==
    ASSUME TypeInv, RecvUdp \/ RecvCan
    PROVE  /\ UNCHANGED <<mode, status, socketfd, table, back, sent>>
           /\ pc["main"] = "recv" /\ held' = 0
           /\ held \in Sockets /\ inbox[held] # <<>>
           /\ inbox' = Kept([inbox EXCEPT ![held] = Tail(@)], <<>>)
           /\ bound' = Kept(bound, "no")
           /\ Head(inbox[held]) \in Messages /\ Tail(inbox[held]) \in Seq(Messages)
           /\ \/ got' = got
              \/ /\ got' = Append(got, Head(inbox[held]).n)
                 /\ Head(inbox[held]).kind # "own"
           /\ Goto("main", "read") \/ (Is("udp") /\ Goto("main", "lost"))
           /\ addr' \in {"any", "loop", "peer", "dev"} /\ (Is("can") => addr' = addr)
<1>1. /\ UNCHANGED <<mode, status, socketfd, table, back, sent>>
      /\ pc["main"] = "recv" /\ held' = 0 /\ inbox[held] # <<>>
      /\ inbox' = Kept([inbox EXCEPT ![held] = Tail(@)], <<>>)
      /\ bound' = Kept(bound, "no")
  BY DEF RecvUdp, RecvCan, TakeFrom, world
<1>2. held \in Sockets
  <2>1. held # 0 /\ held \in 0..(MaxFd + 1) /\ MaxFd \in Nat
    BY <1>1, BoundsAssumption DEF TypeInv, ThreadsTyped, DataTyped
  <2> QED
    BY <2>1 DEF Sockets
<1>3. Head(inbox[held]) \in Messages /\ Tail(inbox[held]) \in Seq(Messages)
  <2>1. inbox[held] \in Seq(Messages)
    BY <1>2 DEF TypeInv, DataTyped
  <2> QED
    BY <2>1, <1>1, HeadTailProperties
<1>4. addr \in {"any", "loop", "peer", "dev"}
  BY DEF TypeInv, DataTyped
<1>5. CASE RecvUdp
  <2>1. Is("udp") /\ ~Is("can")
    BY <1>5 DEF RecvUdp, Is
  <2>2. Goto("main", "read") \/ Goto("main", "lost")
    BY <1>5 DEF RecvUdp
  <2>3. addr' \in {"any", "loop", "peer", "dev"}
    BY <1>5 DEF RecvUdp
  <2>4. \/ got' = got
        \/ got' = Append(got, Head(inbox[held]).n) /\ Head(inbox[held]).kind # "own"
    BY <1>5 DEF RecvUdp
  <2> QED
    BY <1>1, <1>2, <1>3, <2>1, <2>2, <2>3, <2>4
<1>6. CASE RecvCan
  <2>1. Goto("main", "read") /\ addr' = addr
    BY <1>6 DEF RecvCan
  <2>2. \/ got' = got
        \/ got' = Append(got, Head(inbox[held]).n) /\ Head(inbox[held]).kind # "own"
    BY <1>6 DEF RecvCan
  <2> QED
    BY <1>1, <1>2, <1>3, <1>4, <2>1, <2>2
<1> QED
  BY <1>5, <1>6

LEMMA RecvTyped ==
    ASSUME TypeInv, RecvUdp \/ RecvCan
    PROVE  TypeInv'
<1>1. ThreadsTyped'
  <2>1. UNCHANGED back /\ held' = 0 /\ "main" \in Threads
        /\ {"read", "lost"} \subseteq MainLabels \ {"recv"}
    BY RecvCases DEF Threads, MainLabels
  <2>2. Goto("main", "read") \/ Goto("main", "lost")
    BY RecvCases
  <2> QED
    BY <2>1, <2>2, ThreadGoes DEF TypeInv
<1>2. got' \in Seq(Nat)
  <2>1. got \in Seq(Nat) /\ Head(inbox[held]).n \in Nat
    BY RecvCases, MessageFacts DEF TypeInv, DataTyped
  <2>2. got' = got \/ got' = Append(got, Head(inbox[held]).n)
    BY RecvCases
  <2> QED
    BY <2>1, <2>2, AppendProperties
<1>3. bound' \in [Sockets -> Bindings] /\ inbox' \in [Sockets -> Seq(Messages)]
  <2>1. /\ bound \in [Sockets -> Bindings] /\ <<>> \in Seq(Messages)
        /\ [inbox EXCEPT ![held] = Tail(@)] \in [Sockets -> Seq(Messages)]
    BY RecvCases, EmptySeq DEF TypeInv, DataTyped
  <2>2. inbox' = Kept([inbox EXCEPT ![held] = Tail(@)], <<>>) /\ bound' = Kept(bound, "no")
    BY RecvCases
  <2> QED
    BY <2>1, <2>2 DEF Kept, Bindings
<1>4. /\ UNCHANGED <<mode, status, socketfd, table, sent>> /\ held' = 0
      /\ addr' \in {"any", "loop", "peer", "dev"} /\ (Is("can") => addr' = addr)
  BY RecvCases
<1>5. DataTyped'
  BY <1>2, <1>3, <1>4, BoundsAssumption DEF TypeInv, DataTyped, Stream, Is
<1> QED
  BY <1>1, <1>5 DEF TypeInv

\* Some messages of a stream are taken, or its socket has none, or the process ends.
LEMMA StreamCases ==
    ASSUME TypeInv, ReadStream
    PROVE  /\ UNCHANGED <<mode, status, socketfd, addr, table, bound, held, back, sent>>
           /\ pc["main"] = "take"
           /\ \/ Ends /\ held = 0 /\ UNCHANGED <<got, inbox>>
              \/ /\ Goto("main", "read") /\ SocketOf(socketfd) \in Sockets
                 /\ inbox[SocketOf(socketfd)] \in Seq(Messages)
                 /\ \E k \in 0..Len(inbox[SocketOf(socketfd)]) :
                      /\ got' = got \o [i \in 1..k |-> inbox[SocketOf(socketfd)][i].n]
                      /\ inbox' = [inbox EXCEPT ![SocketOf(socketfd)] =
                                        SubSeq(@, k + 1, Len(@))]
<1> DEFINE s == SocketOf(socketfd)
<1>1. UNCHANGED <<mode, status, socketfd, addr, table, bound, held, back, sent>>
      /\ pc["main"] = "take" /\ held = 0
  BY DEF ReadStream, object, world, TypeInv, ThreadsTyped
<1>2. CASE s = 0 /\ Ends /\ UNCHANGED <<got, inbox>>
  BY <1>1, <1>2
<1>3. CASE /\ s # 0 /\ Goto("main", "read")
           /\ \E k \in IF inbox[s] = <<>> THEN {0} ELSE 1..Len(inbox[s]) :
                /\ got' = got \o [i \in 1..k |-> inbox[s][i].n]
                /\ inbox' = [inbox EXCEPT ![s] = SubSeq(@, k + 1, Len(@))]
  <2>1. s \in Sockets /\ inbox[s] \in Seq(Messages)
    BY <1>3, SocketFacts DEF TypeInv, DataTyped
  <2>2. PICK k \in IF inbox[s] = <<>> THEN {0} ELSE 1..Len(inbox[s]) :
                /\ got' = got \o [i \in 1..k |-> inbox[s][i].n]
                /\ inbox' = [inbox EXCEPT ![s] = SubSeq(@, k + 1, Len(@))]
    BY <1>3
  <2>3. k \in 0..Len(inbox[s])
    BY <2>1, <2>2, LenProperties
  <2> QED
    BY <1>1, <1>3, <2>1, <2>2, <2>3
<1> QED
  BY <1>2, <1>3 DEF ReadStream

\* The numbers of the messages at the head of a queue.
LEMMA NumbersTyped ==
    ASSUME NEW q \in Seq(Messages), NEW k \in 0..Len(q)
    PROVE  /\ [i \in 1..k |-> q[i].n] \in Seq(Nat) /\ Len([i \in 1..k |-> q[i].n]) = k
           /\ k \in Nat
           /\ SubSeq(q, k + 1, Len(q)) \in Seq(Messages)
           /\ Len(SubSeq(q, k + 1, Len(q))) = Len(q) - k
           /\ \A i \in 1..(Len(q) - k) : SubSeq(q, k + 1, Len(q))[i] = q[i + k]
<1>1. Len(q) \in Nat /\ k \in Nat
  BY LenProperties
<1>2. \A i \in 1..k : q[i].n \in Nat
  <2> SUFFICES ASSUME NEW i \in 1..k PROVE q[i].n \in Nat
    OBVIOUS
  <2>1. q[i] \in Messages
    BY <1>1, ElementOfSeq
  <2> QED
    BY <2>1, MessageFacts
<1>3. [i \in 1..k |-> q[i].n] \in Seq(Nat)
  BY <1>1, <1>2, IsASeq
<1>4. Len([i \in 1..k |-> q[i].n]) = k
  BY <1>1, <1>3, LenProperties
<1>5. /\ SubSeq(q, k + 1, Len(q)) \in Seq(Messages)
      /\ Len(SubSeq(q, k + 1, Len(q))) = Len(q) - k
      /\ \A i \in 1..(Len(q) - k) : SubSeq(q, k + 1, Len(q))[i] = q[i + k]
  BY <1>1
<1> QED
  BY <1>1, <1>3, <1>4, <1>5

LEMMA StreamTyped ==
    ASSUME TypeInv, ReadStream
    PROVE  TypeInv'
<1> DEFINE s == SocketOf(socketfd)
<1>1. UNCHANGED <<mode, status, socketfd, addr, table, bound, held, back, sent>>
      /\ pc["main"] = "take"
  BY StreamCases
<1>2. CASE Ends /\ held = 0 /\ UNCHANGED <<got, inbox>>
  <2>1. ThreadsTyped'
    BY <1>1, <1>2, ProcessEnds DEF TypeInv
  <2>2. DataTyped'
    BY <1>1, <1>2 DEF TypeInv, DataTyped, Stream, Is, Bindings
  <2> QED
    BY <2>1, <2>2 DEF TypeInv
<1>3. CASE /\ Goto("main", "read") /\ s \in Sockets
           /\ inbox[s] \in Seq(Messages)
           /\ \E k \in 0..Len(inbox[s]) :
                /\ got' = got \o [i \in 1..k |-> inbox[s][i].n]
                /\ inbox' = [inbox EXCEPT ![s] = SubSeq(@, k + 1, Len(@))]
  <2>1. PICK k \in 0..Len(inbox[s]) :
                /\ got' = got \o [i \in 1..k |-> inbox[s][i].n]
                /\ inbox' = [inbox EXCEPT ![s] = SubSeq(@, k + 1, Len(@))]
    BY <1>3
  <2>2. /\ [i \in 1..k |-> inbox[s][i].n] \in Seq(Nat)
        /\ SubSeq(inbox[s], k + 1, Len(inbox[s])) \in Seq(Messages)
    BY <1>3, NumbersTyped
  <2>3. got' \in Seq(Nat)
    BY <2>1, <2>2, ConcatProperties DEF TypeInv, DataTyped
  <2>4. inbox' \in [Sockets -> Seq(Messages)]
    BY <2>1, <2>2 DEF TypeInv, DataTyped
  <2>5. ThreadsTyped'
    <3>1. held = 0
      BY <1>1 DEF TypeInv, ThreadsTyped
    <3> QED
      BY <3>1, <1>1, <1>3, ThreadGoes DEF TypeInv, Threads, MainLabels
  <2>6. DataTyped'
    BY <1>1, <2>3, <2>4 DEF TypeInv, DataTyped, Stream, Is, Bindings
  <2> QED
    BY <2>5, <2>6 DEF TypeInv
<1> QED
  BY <1>2, <1>3, StreamCases

\* A message of the device reaches the sockets that hear it.
LEMMA SendsCases ==
    ASSUME TypeInv, DeviceSends
    PROVE  /\ UNCHANGED <<mode, status, socketfd, addr, table, bound, held, pc, back, got>>
           /\ sent' = sent + 1
           /\ \E m \in Messages :
                /\ m.n = sent + 1 /\ m.kind # "own"
                /\ inbox' = [s \in Sockets |-> IF Hears(s) THEN Append(inbox[s], m) ELSE inbox[s]]
<1>1. /\ UNCHANGED <<mode, status, socketfd, addr, table, bound, held, pc, back, got>>
      /\ sent' = sent + 1 /\ sent + 1 \in DOMAIN Payloads[mode.write]
  BY DEF DeviceSends, object, threads, received
<1>2. PICK kind \in Kinds : \E m \in Message(kind) :
        inbox' = [s \in Sockets |-> IF Hears(s) THEN Append(inbox[s], m) ELSE inbox[s]]
  BY DEF DeviceSends
<1>3. PICK m \in Message(kind) :
        inbox' = [s \in Sockets |-> IF Hears(s) THEN Append(inbox[s], m) ELSE inbox[s]]
  BY <1>2
<1>4. kind \in {"data", "empty", "extended", "remote", "error"}
  BY <1>2 DEF Kinds
<1>5. sent + 1 \in Nat
  BY DEF TypeInv, DataTyped
<1>6. m \in Messages /\ m.n = sent + 1 /\ m.kind # "own"
  <2>1. CASE Is("can") /\ kind = "data"
    <3>1. PICK p \in Payloads[mode.write][sent + 1] :
            m = [n |-> sent + 1, kind |-> kind, id |-> p.id, data |-> p.data]
      BY <1>3, <2>1 DEF Message
    <3>2. p \in Framed
      BY <1>1, <3>1, ModeFacts DEF Framed, TypeInv, DataTyped
    <3> QED
      BY <3>1, <3>2, <1>5, <2>1 DEF Messages
  <2>2. CASE ~(Is("can") /\ kind = "data")
    <3>1. m = [n |-> sent + 1, kind |-> kind]
      BY <1>3, <2>2 DEF Message
    <3> QED
      BY <3>1, <1>4, <1>5 DEF Messages
  <2> QED
    BY <2>1, <2>2
<1> QED
  BY <1>1, <1>3, <1>6

\* A write to the own port reaches the socket that is bound to it; others leave
\* the sockets as they are.
Own == [n |-> 0, kind |-> "own"]
LEMMA WriteCases ==
    ASSUME TypeInv, Write
    PROVE  /\ UNCHANGED <<mode, status, socketfd, addr, table, bound, held, back, sent, got>>
           /\ pc["exec"] = "write" /\ status = 1
           /\ \/ Goto("exec", "idle")
              \/ Goto("exec", "lost") /\ (Is("udp") \/ Is("can"))
              \/ Ends /\ Is("serial")
           /\ \/ UNCHANGED inbox
              \/ /\ Is("udp")
                 /\ inbox' = [s \in Sockets |->
                        IF Alive(s) /\ bound[s] # "no" THEN Append(inbox[s], Own) ELSE inbox[s]]
<1>1. /\ UNCHANGED <<mode, status, socketfd, addr, table, bound, held, back, sent, got>>
      /\ pc["exec"] = "write" /\ status = 1
  BY DEF Write, object, world, received
<1>2. CASE WriteUdp
  <2>1. Is("udp") /\ (Goto("exec", "idle") \/ Goto("exec", "lost"))
    BY <1>2 DEF WriteUdp
  <2>2. \/ UNCHANGED inbox
        \/ inbox' = [s \in Sockets |->
                IF Alive(s) /\ bound[s] # "no" THEN Append(inbox[s], Own) ELSE inbox[s]]
    BY <1>2 DEF WriteUdp, Own
  <2> QED
    BY <1>1, <2>1, <2>2
<1>3. CASE WriteCan
  BY <1>1, <1>3 DEF WriteCan
<1>4. CASE WriteFile
  BY <1>1, <1>4 DEF WriteFile
<1>5. CASE WriteSerial
  <2>1. Is("serial") /\ UNCHANGED inbox /\ (Ends \/ Goto("exec", "idle"))
    BY <1>5 DEF WriteSerial
  <2> QED
    BY <1>1, <2>1
<1> QED
  BY <1>2, <1>3, <1>4, <1>5 DEF Write

\* Appending keeps the type of the queues.
LEMMA AppendTyped ==
    ASSUME inbox \in [Sockets -> Seq(Messages)], NEW m \in Messages, NEW T,
           inbox' = [s \in Sockets |-> IF s \in T THEN Append(inbox[s], m) ELSE inbox[s]]
    PROVE  inbox' \in [Sockets -> Seq(Messages)]
<1>1. ASSUME NEW s \in Sockets PROVE Append(inbox[s], m) \in Seq(Messages) /\ inbox[s] \in Seq(Messages)
  BY AppendProperties
<1> QED
  BY <1>1

LEMMA WriteTyped ==
    ASSUME TypeInv, Write \/ WriteCalled
    PROVE  TypeInv'
<1>1. CASE Write
  <2>1. /\ UNCHANGED <<mode, status, socketfd, addr, table, bound, held, back, sent, got>>
        /\ \/ Goto("exec", "idle")
           \/ Goto("exec", "lost")
           \/ Ends /\ Is("serial")
    BY <1>1, WriteCases
  <2>2. ThreadsTyped'
    <3>1. CASE Goto("exec", "idle")
      BY <2>1, <3>1, ThreadGoes DEF TypeInv, Threads, ExecLabels
    <3>2. CASE Goto("exec", "lost")
      BY <2>1, <3>2, ThreadGoes DEF TypeInv, Threads, ExecLabels
    <3>3. CASE Ends /\ Is("serial")
      <4>1. held = 0
        BY <3>3 DEF TypeInv, DataTyped, Stream
      <4> QED
        BY <2>1, <3>3, <4>1, ProcessEnds DEF TypeInv
    <3> QED
      BY <2>1, <3>1, <3>2, <3>3
  <2>3. inbox' \in [Sockets -> Seq(Messages)]
    <3>1. inbox \in [Sockets -> Seq(Messages)] /\ Own \in Messages
      BY DEF TypeInv, DataTyped, Own, Messages
    <3>2. CASE UNCHANGED inbox
      BY <3>1, <3>2
    <3>3. CASE inbox' = [s \in Sockets |->
                IF Alive(s) /\ bound[s] # "no" THEN Append(inbox[s], Own) ELSE inbox[s]]
      <4> DEFINE T == {s \in Sockets : Alive(s) /\ bound[s] # "no"}
      <4>1. inbox' = [s \in Sockets |-> IF s \in T THEN Append(inbox[s], Own) ELSE inbox[s]]
        BY <3>3
      <4> HIDE DEF T
      <4> QED
        BY <4>1, <3>1, AppendTyped
    <3> QED
      BY <3>2, <3>3, <1>1, WriteCases
  <2>4. DataTyped'
    BY <2>1, <2>3 DEF TypeInv, DataTyped, Stream, Is, Bindings
  <2> QED
    BY <2>2, <2>4 DEF TypeInv
<1>2. CASE WriteCalled
  <2>1. UNCHANGED <<mode, status, socketfd, addr, table, bound, inbox, held, back, sent, got>>
        /\ Goto("exec", "write")
    BY <1>2 DEF WriteCalled, object, kernel, received
  <2>2. ThreadsTyped'
    BY <2>1, ThreadGoes DEF TypeInv, Threads, ExecLabels
  <2>3. DataTyped'
    BY <2>1 DEF TypeInv, DataTyped, Stream, Is, Bindings
  <2> QED
    BY <2>2, <2>3 DEF TypeInv
<1> QED
  BY <1>1, <1>2

\* The world's part: a plug is pulled, a port is taken, or nothing we see changes.
LEMMA WorldCases ==
    ASSUME TypeInv, WorldChanges
    PROVE  /\ UNCHANGED <<mode, status, socketfd, addr, table, inbox, held, pc, back, sent, got>>
           /\ \/ UNCHANGED bound
              \/ /\ Is("serial")
                 /\ bound' = [s \in Sockets |-> IF bound[s] = "dev" THEN "gone" ELSE bound[s]]
<1>1. UNCHANGED <<mode, status, socketfd, addr, table, inbox, held, pc, back, sent, got>>
  BY DEF WorldChanges, object, threads, received
<1>2. \/ bound' = IF up /\ Is("serial")
                  THEN [s \in Sockets |-> IF bound[s] = "dev" THEN "gone" ELSE bound[s]]
                  ELSE bound
      \/ UNCHANGED bound
  BY DEF WorldChanges
<1> QED
  BY <1>1, <1>2

LEMMA WorldTyped ==
    ASSUME TypeInv, DeviceSends \/ WorldChanges
    PROVE  TypeInv'
<1>1. CASE DeviceSends
  <2>1. UNCHANGED <<mode, status, socketfd, addr, table, bound, held, pc, back, got>>
        /\ sent' = sent + 1
    BY <1>1, SendsCases
  <2>2. PICK m \in Messages :
            inbox' = [s \in Sockets |-> IF Hears(s) THEN Append(inbox[s], m) ELSE inbox[s]]
    BY <1>1, SendsCases
  <2>3. inbox' \in [Sockets -> Seq(Messages)]
    <3> DEFINE T == {s \in Sockets : Hears(s)}
    <3>1. inbox' = [s \in Sockets |-> IF s \in T THEN Append(inbox[s], m) ELSE inbox[s]]
      BY <2>2
    <3> HIDE DEF T
    <3> QED
      BY <3>1, AppendTyped DEF TypeInv, DataTyped
  <2>4. ThreadsTyped'
    BY <2>1 DEF TypeInv, ThreadsTyped, Threads, MainLabels, ExecLabels
  <2>5. DataTyped'
    BY <2>1, <2>3 DEF TypeInv, DataTyped, Stream, Is, Bindings
  <2> QED
    BY <2>4, <2>5 DEF TypeInv
<1>2. CASE WorldChanges
  <2>1. UNCHANGED <<mode, status, socketfd, addr, table, inbox, held, pc, back, sent, got>>
    BY <1>2, WorldCases
  <2>2. bound' \in [Sockets -> Bindings]
    <3>1. bound \in [Sockets -> Bindings]
      BY DEF TypeInv, DataTyped
    <3> QED
      BY <3>1, <1>2, WorldCases DEF Bindings
  <2>3. ThreadsTyped'
    BY <2>1 DEF TypeInv, ThreadsTyped, Threads, MainLabels, ExecLabels
  <2>4. DataTyped'
    BY <2>1, <2>2 DEF TypeInv, DataTyped, Stream, Is
  <2> QED
    BY <2>3, <2>4 DEF TypeInv
<1> QED
  BY <1>1, <1>2

-----------------------------------------------------------------------------
(* Who owns the messages *)

\* A step that opens, binds and closes nothing: messages may be taken or reach
\* sockets that are bound, and a thread may begin to wait.
LEMMA OwnsSame ==
    ASSUME TypeInv, Owns,
           UNCHANGED <<mode, status, socketfd, table>>,
           held' = held \/ held = 0,
           \A s \in Sockets : bound'[s] = "no" <=> bound[s] = "no",
           \A s \in Sockets : inbox'[s] # <<>> => inbox[s] # <<>> \/ bound[s] # "no"
    PROVE  Owns'
<1>1. \A s \in Sockets : Carrier(s)' => Carrier(s)
  BY DEF Carrier
<1>2. Injective' /\ BoundOnly'
  BY DEF Owns, Injective, BoundOnly, Is
<1>3. ASSUME Solo' PROVE SoloOwns'
  <2>1. SoloOwns
    BY <1>3 DEF Owns, Solo, Is
  <2>2. SocketOf(socketfd)' = SocketOf(socketfd)
    BY DEF SocketOf
  <2>3. SocketOf(socketfd) # 0 => SocketOf(socketfd) \in Sockets
    BY SocketFacts DEF TypeInv, DataTyped
  <2> QED
    BY <1>1, <2>1, <2>2, <2>3 DEF SoloOwns, Is
<1>4. ASSUME Is("udp")' PROVE UdpOwns'
  <2>1. UdpOwns
    BY <1>4 DEF Owns, Is
  <2>2. \A s \in Sockets : Alive(s) => Alive(s)'
    <3>1. 0 \notin Sockets
      BY BoundsAssumption DEF Sockets
    <3> QED
      BY <3>1 DEF Alive
  <2> QED
    BY <1>1, <2>1, <2>2 DEF UdpOwns
<1> QED
  BY <1>2, <1>3, <1>4 DEF Owns

\* The end of a wait: a socket that nobody uses any more is gone.
LEMMA OwnsWaitEnds ==
    ASSUME TypeInv, Owns, NEW q,
           UNCHANGED <<mode, status, socketfd, table>>, held' = 0,
           inbox' = Kept(q, <<>>), bound' = Kept(bound, "no"),
           \A s \in Sockets : q[s] # <<>> => inbox[s] # <<>>
    PROVE  Owns'
<1>1. \A s \in Sockets :
        /\ bound'[s] = IF Alive(s)' THEN bound[s] ELSE "no"
        /\ inbox'[s] = IF Alive(s)' THEN q[s] ELSE <<>>
  BY DEF Kept
<1>2. \A s \in Sockets : Carrier(s)' => Carrier(s) /\ Alive(s)'
  BY <1>1 DEF Carrier
<1>3. Injective'
  BY DEF Owns, Injective
<1>4. BoundOnly'
  BY <1>1 DEF Owns, BoundOnly, Is
<1>5. ASSUME Solo' PROVE SoloOwns'
  <2>1. SoloOwns
    BY <1>5 DEF Owns, Solo, Is
  <2>2. SocketOf(socketfd)' = SocketOf(socketfd)
    BY DEF SocketOf
  <2>3. SocketOf(socketfd) # 0 =>
          /\ socketfd \in Fds /\ SocketOf(socketfd) = table[socketfd]
          /\ SocketOf(socketfd) \in Sockets
    BY SocketFacts DEF TypeInv, DataTyped
  <2>4. ASSUME SocketOf(socketfd) # 0
        PROVE  bound'[SocketOf(socketfd)] = bound[SocketOf(socketfd)]
    <3> DEFINE x == SocketOf(socketfd)
    <3>1. x \in Sockets /\ \E f \in Fds : table'[f] = x
      BY <2>3, <2>4
    <3> HIDE DEF x
    <3>2. Alive(x)'
      BY <3>1, <2>2 DEF Alive, x
    <3>3. bound'[x] = IF Alive(x)' THEN bound[x] ELSE "no"
      BY <3>1, <2>2 DEF Kept, x
    <3> QED
      BY <3>2, <3>3 DEF x
  <2> QED
    BY <1>2, <2>1, <2>2, <2>3, <2>4 DEF SoloOwns, Is
<1>6. ASSUME Is("udp")' PROVE UdpOwns'
  BY <1>2, <1>6 DEF Owns, Is, UdpOwns
<1> QED
  BY <1>3, <1>4, <1>5, <1>6 DEF Owns

\* disconnect() takes everything from a thread that is alone.
LEMMA OwnsClose ==
    ASSUME TypeInv, Owns, CloseIt, UNCHANGED <<mode, held>>, Solo => held = 0
    PROVE  Owns'
<1>1. \A s \in Sockets :
        /\ bound'[s] = IF Alive(s)' THEN bound[s] ELSE "no"
        /\ inbox'[s] = IF Alive(s)' THEN inbox[s] ELSE <<>>
  BY DEF CloseIt, Kept
<1>2. \A s \in Sockets : Carrier(s)' => Carrier(s) /\ Alive(s)'
  BY <1>1 DEF Carrier
<1>3. /\ table \in [Fds -> 0..(MaxFd + 1)]
      /\ status' = -1
      /\ \A f \in Fds : table'[f] = IF f = socketfd THEN 0 ELSE table[f]
  BY DEF CloseIt, Closed, TypeInv, DataTyped
<1>4. Injective'
  BY <1>3 DEF Owns, Injective
<1>5. BoundOnly'
  BY <1>1 DEF Owns, BoundOnly, Is
<1>6. ASSUME Solo' PROVE SoloOwns'
  <2>1. SoloOwns /\ Injective /\ held' = 0
    BY <1>6 DEF Owns, Solo, Is
  <2>2. ASSUME NEW s \in Sockets PROVE ~Carrier(s)'
    <3>1. SUFFICES ASSUME Carrier(s), Alive(s)' PROVE FALSE
      BY <1>2
    <3>2. s # 0
      BY BoundsAssumption DEF Sockets
    <3>3. s = SocketOf(socketfd)
      BY <2>1, <3>1 DEF SoloOwns
    <3>4. socketfd \in Fds /\ table[socketfd] = s
      BY <3>2, <3>3 DEF SocketOf
    <3>5. PICK f \in Fds : table'[f] = s
      BY <3>1, <3>2, <2>1 DEF Alive
    <3>6. f # socketfd /\ table[f] = s
      BY <1>3, <3>2, <3>5
    <3> QED
      BY <2>1, <3>2, <3>4, <3>5, <3>6 DEF Injective
  <2> QED
    BY <1>3, <2>2 DEF SoloOwns
<1>7. ASSUME Is("udp")' PROVE UdpOwns'
  BY <1>2, <1>7 DEF Owns, Is, UdpOwns
<1> QED
  BY <1>4, <1>5, <1>6, <1>7 DEF Owns

\* A new descriptor's socket is nobody else's; it carries nothing, or the file.
LEMMA OwnsOpens ==
    ASSUME TypeInv, Owns, NEW fd, NEW s, NEW content, Opens(fd, s, content),
           UNCHANGED <<mode, held>>, Solo => status = -1,
           \/ ~Is("file") /\ content = <<>> /\ UNCHANGED status
           \/ Is("file") /\ status' = 1
    PROVE  Owns'
<1>1. /\ fd \in Fds /\ table[fd] = 0 /\ s \in Sockets /\ ~Alive(s) /\ socketfd' = fd
      /\ s # 0
  BY BoundsAssumption DEF Opens, NewSocket, Sockets
<1>2. /\ table \in [Fds -> 0..(MaxFd + 1)]
      /\ \A f \in Fds : table'[f] = IF f = fd THEN s ELSE table[f]
      /\ \A f \in Fds : table[f] # s
  BY <1>1 DEF Opens, NewSocket, TypeInv, DataTyped, Alive
<1>3. /\ \A x \in Sockets : bound'[x] = IF x = s THEN "no" ELSE bound[x]
      /\ \A x \in Sockets : inbox'[x] = IF x = s THEN content ELSE inbox[x]
  BY DEF Opens, NewSocket, TypeInv, DataTyped
<1>4. Injective'
  BY <1>1, <1>2 DEF Owns, Injective
<1>5. BoundOnly'
  BY <1>1, <1>3 DEF Owns, BoundOnly, Is
<1>6. \A x \in Sockets : Carrier(x)' => (x = s /\ Is("file")) \/ Carrier(x)
  BY <1>3 DEF Carrier
<1>7. ASSUME Solo' PROVE SoloOwns'
  <2>1. SoloOwns /\ status = -1
    BY <1>7 DEF Owns, Solo, Is
  <2>2. \A x \in Sockets : Carrier(x)' => x = s /\ Is("file")
    BY <1>6, <2>1 DEF SoloOwns
  <2>3. SocketOf(socketfd)' = s
    BY <1>1, <1>2 DEF SocketOf
  <2>4. CASE Is("file") /\ status' = 1
    BY <1>1, <2>2, <2>3, <2>4 DEF SoloOwns, Is
  <2>5. CASE ~Is("file") /\ UNCHANGED status
    BY <2>1, <2>2, <2>5 DEF SoloOwns
  <2> QED
    BY <2>4, <2>5
<1>8. ASSUME Is("udp")' PROVE UdpOwns'
  <2>1. UdpOwns /\ ~Is("file")
    BY <1>8 DEF Owns, Is
  <2>2. \A x \in Sockets : Carrier(x)' => Carrier(x)
    BY <1>6, <2>1
  <2>3. \A x \in Sockets : Alive(x) => Alive(x)'
    <3>1. 0 \notin Sockets
      BY BoundsAssumption DEF Sockets
    <3> QED
      BY <1>1, <1>2, <3>1 DEF Alive
  <2> QED
    BY <2>1, <2>2, <2>3 DEF UdpOwns
<1> QED
  BY <1>4, <1>5, <1>7, <1>8 DEF Owns

\* The kernel has no descriptor left, or there is nothing to open.
LEMMA OwnsNothingOpened ==
    ASSUME TypeInv, Owns, UNCHANGED <<mode, held, status, table, bound, inbox>>,
           Solo => status = -1
    PROVE  Owns'
<1>1. \A x \in Sockets : (Carrier(x)' <=> Carrier(x)) /\ (Alive(x)' <=> Alive(x))
  BY DEF Carrier, Alive
<1>2. Injective' /\ BoundOnly'
  BY DEF Owns, Injective, BoundOnly, Is
<1>3. Solo' => SoloOwns'
  BY <1>1 DEF Owns, Solo, Is, SoloOwns
<1>4. Is("udp")' => UdpOwns'
  BY <1>1 DEF Owns, Is, UdpOwns
<1> QED
  BY <1>2, <1>3, <1>4 DEF Owns

\* The first connect() of a serial port.
LEMMA OwnsPlugged ==
    ASSUME TypeInv, Owns, Is("serial"), status = -1,
           NEW fd \in Fds, NEW s \in Sockets,
           table[fd] = 0, ~Alive(s) \/ bound[s] = "dev", socketfd' = fd,
           table' = [table EXCEPT ![fd] = s], bound' = [bound EXCEPT ![s] = "dev"],
           UNCHANGED <<mode, held, inbox>>, status' = 1
    PROVE  Owns'
<1>1. Solo /\ SoloOwns /\ s # 0 /\ ~Is("udp") /\ ~Is("file")
  BY BoundsAssumption DEF Owns, Solo, Is, Sockets
<1>2. \A x \in Sockets : ~Carrier(x)
  BY <1>1 DEF SoloOwns
<1>3. ~Alive(s)
  BY <1>2 DEF Carrier
<1>4. /\ \A f \in Fds : table'[f] = IF f = fd THEN s ELSE table[f]
      /\ \A f \in Fds : table[f] # s
      /\ \A x \in Sockets : bound'[x] = IF x = s THEN "dev" ELSE bound[x]
  BY <1>3 DEF TypeInv, DataTyped, Alive
<1>5. Injective'
  BY <1>4 DEF Owns, Injective
<1>6. BoundOnly'
  BY <1>2 DEF BoundOnly, Carrier
<1>7. SocketOf(socketfd)' = s
  BY <1>4 DEF SocketOf
<1>8. \A x \in Sockets : Carrier(x)' => x = s
  BY <1>2, <1>4 DEF Carrier
<1>9. SoloOwns'
  <2>1. bound'[s] # "no"
    BY <1>4
  <2> QED
    BY <1>1, <1>7, <1>8, <2>1 DEF SoloOwns
<1> QED
  BY <1>1, <1>5, <1>6, <1>9 DEF Owns, Is

\* bind() finds no other socket bound.
LEMMA OwnsBind ==
    ASSUME TypeInv, Owns, NEW t \in Threads, Bind(t), Solo => status = -1
    PROVE  Owns'
<1> DEFINE s == SocketOf(socketfd)
<1>1. UNCHANGED <<mode, socketfd, table, inbox, held>> /\ (Is("udp") \/ Is("can"))
  BY BindCases
<1>2. CASE UNCHANGED bound /\ status' = -1
  <2>1. \A x \in Sockets : (Carrier(x)' <=> Carrier(x)) /\ (Alive(x)' <=> Alive(x))
    BY <1>1, <1>2 DEF Carrier, Alive
  <2>2. Injective' /\ BoundOnly'
    BY <1>1, <1>2 DEF Owns, Injective, BoundOnly, Is
  <2>3. Solo' => SoloOwns'
    BY <1>1, <1>2, <2>1 DEF Owns, Solo, Is, SoloOwns
  <2>4. Is("udp")' => UdpOwns'
    BY <1>1, <2>1 DEF Owns, Is, UdpOwns
  <2> QED
    BY <2>2, <2>3, <2>4 DEF Owns
<1>3. CASE /\ s # 0 /\ (Is("udp") => ~PortInUse)
           /\ addr' \in {"any", "loop", "dev"}
           /\ bound' = [bound EXCEPT ![s] = addr'] /\ status' = 1
  <2>1. s \in Sockets /\ Alive(s)
    BY <1>3, SocketFacts DEF TypeInv, DataTyped
  <2>2. \A x \in Sockets : bound'[x] = IF x = s THEN addr' ELSE bound[x]
    BY <1>3, <2>1 DEF TypeInv, DataTyped
  <2>3. addr' # "no"
    BY <1>3
  <2>4. Injective' /\ BoundOnly'
    BY <1>1, <2>2, <2>3 DEF Owns, Injective, BoundOnly, Is
  <2>5. ASSUME \A x \in Sockets : ~Carrier(x)
        PROVE  \A x \in Sockets : Carrier(x)' => x = s
    BY <1>1, <2>2, <2>5 DEF Carrier
  <2>6. ASSUME Solo' PROVE SoloOwns'
    <3>1. \A x \in Sockets : ~Carrier(x)
      BY <1>1, <2>6 DEF Owns, Solo, SoloOwns, Is
    <3>2. SocketOf(socketfd)' = s
      BY <1>1 DEF SocketOf
    <3>3. \A x \in Sockets : Carrier(x)' => x = s
      BY <2>5, <3>1
    <3>4. bound'[s] # "no"
      BY <2>1, <2>2, <2>3
    <3> HIDE DEF s
    <3> QED
      BY <1>3, <3>2, <3>3, <3>4 DEF SoloOwns
  <2>7. ASSUME Is("udp")' PROVE UdpOwns'
    <3>1. UdpOwns /\ ~Is("file") /\ ~PortInUse /\ BoundOnly
      BY <1>1, <1>3, <2>7 DEF Owns, Is
    <3>2. ASSUME NEW x \in Sockets PROVE ~Carrier(x)
      <4>1. SUFFICES ASSUME Carrier(x) PROVE FALSE
        OBVIOUS
      <4>2. Alive(x) /\ bound[x] # "no"
        BY <3>1, <4>1 DEF UdpOwns, BoundOnly, Carrier
      <4> QED
        BY <3>1, <4>2 DEF PortInUse
    <3>3. \A x \in Sockets : Carrier(x)' => x = s
      BY <2>5, <3>2
    <3> HIDE DEF s
    <3>4. ASSUME NEW x \in Sockets, Carrier(x)' PROVE Alive(x)'
      <4>1. x = s
        BY <3>3, <3>4
      <4> QED
        BY <1>1, <2>1, <4>1 DEF Alive
    <3> QED
      BY <3>3, <3>4 DEF UdpOwns
  <2> QED
    BY <2>4, <2>6, <2>7 DEF Owns
<1> QED
  BY <1>2, <1>3, BindCases

-----------------------------------------------------------------------------
(* The order of the messages *)

\* Messages that are lost, with a socket that is closed, are no matter.
LEMMA OrderKept ==
    ASSUME Ordered, UNCHANGED <<mode, sent, got>>,
           \A s \in Sockets : inbox'[s] = inbox[s] \/ inbox'[s] = <<>>
    PROVE  Ordered'
<1>1. Returned'
  BY DEF Ordered, Returned
<1>2. ASSUME NEW s \in Sockets PROVE InOrder(inbox[s])'
  <2>1. CASE inbox'[s] = <<>>
    BY <2>1 DEF InOrder
  <2>2. CASE inbox'[s] = inbox[s]
    BY <2>2 DEF Ordered, InOrder, Is
  <2> QED
    BY <2>1, <2>2
<1> QED
  BY <1>1, <1>2 DEF Ordered

\* In a mode whose order matters, only one socket has messages.
LEMMA OneHolder ==
    ASSUME Owns, Solo \/ Is("udp"), NEW s \in Sockets, NEW x \in Sockets,
           inbox[s] # <<>>, inbox[x] # <<>>
    PROVE  x = s
BY DEF Owns, SoloOwns, UdpOwns, Carrier

\* The first k messages are taken, and returned or dropped.
LEMMA TakenInOrder ==
    ASSUME got \in Seq(Nat), got' \in Seq(Nat), sent \in Nat, UNCHANGED <<mode, sent>>,
           Returned, NEW q \in Seq(Messages), InOrder(q), NEW k \in 0..Len(q),
           NEW r \in Seq(Messages), Len(r) = Len(q) - k,
           \A i \in 1..Len(r) : r[i] = q[i + k],
           \A i \in 1..Len(got') :
             \/ i <= Len(got) /\ got'[i] = got[i]
             \/ /\ i > Len(got) /\ i - Len(got) <= k
                /\ got'[i] = q[i - Len(got)].n /\ q[i - Len(got)].kind # "own"
    PROVE  Returned' /\ InOrder(r)'
<1>1. Len(q) \in Nat /\ Len(r) \in Nat /\ Len(got) \in Nat /\ Len(got') \in Nat /\ k \in Nat
  BY LenProperties
<1>2. /\ \A i \in 1..Len(q) : q[i] \in Messages /\ q[i].n \in Nat
      /\ \A i \in 1..Len(got) : got[i] \in Nat
  BY <1>1, ElementOfSeq, MessageFacts
<1>3. /\ \A i \in 1..Len(q) : q[i].kind = "own" => Is("udp")
      /\ \A i \in 1..Len(q) : q[i].kind # "own" =>
           /\ q[i].n <= sent
           /\ \A j \in 1..Len(got) : got[j] < q[i].n
      /\ \A i, j \in 1..Len(q) :
           i < j /\ q[i].kind # "own" /\ q[j].kind # "own" => q[i].n < q[j].n
  BY DEF InOrder
<1>4. \A i \in 1..Len(got') :
        \/ i \in 1..Len(got) /\ got'[i] = got[i]
        \/ /\ i > Len(got) /\ i - Len(got) \in 1..k /\ i - Len(got) \in 1..Len(q)
           /\ got'[i] = q[i - Len(got)].n /\ q[i - Len(got)].kind # "own"
  BY <1>1, SMTT(30)
<1>5. \A i \in 1..Len(got') : got'[i] <= sent'
  BY <1>1, <1>3, <1>4 DEF Returned
<1>6. ASSUME NEW i \in 1..Len(got'), NEW j \in 1..Len(got'), i < j PROVE got'[i] < got'[j]
  <2>1. CASE i \in 1..Len(got) /\ got'[i] = got[i]
    <3>1. CASE j \in 1..Len(got) /\ got'[j] = got[j]
      BY <1>6, <2>1, <3>1 DEF Returned
    <3>2. CASE j - Len(got) \in 1..Len(q) /\ got'[j] = q[j - Len(got)].n
               /\ q[j - Len(got)].kind # "own"
      BY <1>3, <2>1, <3>2
    <3> QED
      BY <1>4, <3>1, <3>2
  <2>2. CASE i > Len(got) /\ i - Len(got) \in 1..Len(q) /\ got'[i] = q[i - Len(got)].n
             /\ q[i - Len(got)].kind # "own"
    <3>1. j - Len(got) \in 1..Len(q) /\ got'[j] = q[j - Len(got)].n
          /\ q[j - Len(got)].kind # "own"
      <4>1. j \notin 1..Len(got)
        BY <1>1, <1>6, <2>2
      <4> QED
        BY <1>4, <4>1
    <3>2. i - Len(got) < j - Len(got)
      BY <1>1, <1>6
    <3> QED
      BY <1>3, <2>2, <3>1, <3>2
  <2> QED
    BY <1>4, <2>1, <2>2
<1>7. Returned'
  BY <1>5, <1>6 DEF Returned
<1>8. \A i \in 1..Len(r) : i + k \in 1..Len(q) /\ i + k > k /\ r[i] = q[i + k]
  <2>1. ASSUME NEW i \in 1..Len(r) PROVE i + k \in 1..Len(q) /\ i + k > k
    BY <1>1
  <2> QED
    BY <2>1
<1>9. ASSUME NEW i \in 1..Len(r), r[i].kind # "own", NEW j \in 1..Len(got')
      PROVE  got'[j] < r[i].n
  <2>1. i + k \in 1..Len(q) /\ i + k > k /\ r[i] = q[i + k] /\ q[i + k].kind # "own"
    BY <1>8, <1>9
  <2>2. CASE j \in 1..Len(got) /\ got'[j] = got[j]
    BY <1>3, <2>1, <2>2
  <2>3. CASE j - Len(got) \in 1..k /\ j - Len(got) \in 1..Len(q)
             /\ got'[j] = q[j - Len(got)].n /\ q[j - Len(got)].kind # "own"
    <3>1. j - Len(got) < i + k
      BY <1>1, <2>1, <2>3
    <3> QED
      BY <1>3, <2>1, <2>3, <3>1
  <2> QED
    BY <1>4, <2>2, <2>3
<1>10. \A i \in 1..Len(r) : r[i].kind = "own" => Is("udp")'
  BY <1>3, <1>8 DEF Is
<1>11. \A i \in 1..Len(r) : r[i].kind # "own" => r[i].n <= sent'
  BY <1>3, <1>8
<1>12. ASSUME NEW i \in 1..Len(r), NEW j \in 1..Len(r),
              i < j, r[i].kind # "own", r[j].kind # "own"
       PROVE  r[i].n < r[j].n
  <2>1. i + k < j + k
    BY <1>1, <1>12
  <2>2. /\ i + k \in 1..Len(q) /\ r[i] = q[i + k] /\ q[i + k].kind # "own"
        /\ j + k \in 1..Len(q) /\ r[j] = q[j + k] /\ q[j + k].kind # "own"
    BY <1>8, <1>12, Zenon
  <2>3. q[i + k].n < q[j + k].n
    BY <1>3, <2>1, <2>2, Zenon
  <2> QED
    BY <2>2, <2>3, Zenon
<1>13. InOrder(r)'
  BY <1>9, <1>10, <1>11, <1>12 DEF InOrder
<1> QED
  BY <1>7, <1>13

\* A message that is newer than all comes last.
LEMMA AppendInOrder ==
    ASSUME got \in Seq(Nat), sent \in Nat, UNCHANGED <<mode, got>>, sent' \in Nat, sent <= sent',
           Returned, NEW q \in Seq(Messages), InOrder(q), NEW m \in Messages,
           \/ m.kind = "own" /\ Is("udp")
           \/ m.kind # "own" /\ sent < m.n /\ m.n <= sent'
    PROVE  InOrder(Append(q, m))'
<1> DEFINE r == Append(q, m)
<1>1. /\ Len(q) \in Nat /\ Len(got) \in Nat /\ Len(r) = Len(q) + 1
      /\ \A i \in 1..Len(r) : r[i] = IF i = Len(q) + 1 THEN m ELSE q[i]
      /\ m.n \in Nat
  BY LenProperties, AppendProperties, MessageFacts
<1>2. /\ \A i \in 1..Len(q) : q[i] \in Messages /\ q[i].n \in Nat
      /\ \A i \in 1..Len(got) : got[i] \in Nat /\ got[i] <= sent
  BY <1>1, ElementOfSeq, MessageFacts DEF Returned
<1>3. /\ \A i \in 1..Len(q) : q[i].kind = "own" => Is("udp")
      /\ \A i \in 1..Len(q) : q[i].kind # "own" =>
           /\ q[i].n <= sent
           /\ \A j \in 1..Len(got) : got[j] < q[i].n
      /\ \A i, j \in 1..Len(q) :
           i < j /\ q[i].kind # "own" /\ q[j].kind # "own" => q[i].n < q[j].n
  BY DEF InOrder
<1> HIDE DEF r
<1>4. \A i \in 1..Len(r) : (i \in 1..Len(q) /\ r[i] = q[i]) \/ (i = Len(q) + 1 /\ r[i] = m)
  BY <1>1
<1>5. \A i \in 1..Len(r) : r[i].kind = "own" => Is("udp")'
  BY <1>3, <1>4 DEF Is
<1>6. ASSUME NEW i \in 1..Len(r), r[i].kind # "own"
      PROVE  r[i].n <= sent' /\ \A j \in 1..Len(got') : got'[j] < r[i].n
  <2>1. CASE i \in 1..Len(q) /\ r[i] = q[i]
    BY <1>2, <1>3, <1>6, <2>1
  <2>2. CASE r[i] = m
    <3>1. sent < m.n /\ m.n <= sent'
      BY <1>6, <2>2
    <3>2. sent \in Nat /\ m.n \in Nat
      BY <1>1
    <3>3. ASSUME NEW j \in 1..Len(got) PROVE got[j] < m.n
      <4>1. got[j] \in Nat /\ got[j] <= sent
        BY <1>2
      <4> QED
        BY <3>1, <3>2, <4>1
    <3> QED
      BY <2>2, <3>1, <3>3
  <2> QED
    BY <1>4, <2>1, <2>2
<1>7. ASSUME NEW i \in 1..Len(r), NEW j \in 1..Len(r),
             i < j, r[i].kind # "own", r[j].kind # "own"
      PROVE  r[i].n < r[j].n
  <2>1. i \in 1..Len(q) /\ r[i] = q[i] /\ q[i].n \in Nat /\ q[i].n <= sent
    BY <1>1, <1>2, <1>3, <1>4, <1>7, SMTT(30)
  <2>2. CASE j \in 1..Len(q) /\ r[j] = q[j]
    BY <1>3, <1>7, <2>1, <2>2
  <2>3. CASE r[j] = m
    BY <1>1, <1>7, <2>1, <2>3
  <2> QED
    BY <1>4, <2>2, <2>3
<1>8. InOrder(r)'
  BY <1>5, <1>6, <1>7 DEF InOrder
<1> QED
  BY <1>8 DEF r

\* recvfrom() and the CAN socket's read() take the oldest message.
LEMMA RecvOrdered ==
    ASSUME TypeInv, Owns, Ordered, Solo \/ Is("udp"), RecvUdp \/ RecvCan
    PROVE  Ordered'
<1>0. PICK q, r : q = inbox[held] /\ r = Tail(q)
  OBVIOUS
<1>1. /\ UNCHANGED <<mode, sent>>
      /\ held \in Sockets /\ q # <<>>
      /\ inbox' = Kept([inbox EXCEPT ![held] = Tail(@)], <<>>)
      /\ \/ got' = got
         \/ got' = Append(got, Head(q).n) /\ Head(q).kind # "own"
  BY <1>0, RecvCases
<1>2. /\ q \in Seq(Messages) /\ got \in Seq(Nat) /\ sent \in Nat
      /\ inbox \in [Sockets -> Seq(Messages)]
  BY <1>0, <1>1 DEF TypeInv, DataTyped
<1>3. /\ Len(q) \in Nat \ {0} /\ Head(q) = q[1] /\ q[1] \in Messages
      /\ r \in Seq(Messages) /\ Len(r) = Len(q) - 1
      /\ \A i \in 1..Len(r) : r[i] = q[i + 1]
  <2>1. Len(q) \in Nat \ {0}
    BY <1>1, <1>2, LenProperties, EmptySeq
  <2> QED
    BY <1>0, <1>1, <1>2, <2>1, HeadTailProperties, ElementOfSeq
<1>4. got' \in Seq(Nat) /\ Len(got) \in Nat
  <2>1. Head(q).n \in Nat
    BY <1>3, MessageFacts
  <2>2. Append(got, Head(q).n) \in Seq(Nat)
    BY <1>2, <2>1, AppendProperties
  <2>3. got' \in Seq(Nat)
    BY <1>1, <1>2, <2>2
  <2> QED
    BY <1>2, <2>3, LenProperties
<1>5. \A i \in 1..Len(got') :
        \/ i <= Len(got) /\ got'[i] = got[i]
        \/ /\ i > Len(got) /\ i - Len(got) <= 1
           /\ got'[i] = q[i - Len(got)].n /\ q[i - Len(got)].kind # "own"
  <2>1. CASE got' = got
    BY <1>4, <2>1
  <2>2. CASE got' = Append(got, Head(q).n) /\ Head(q).kind # "own"
    <3>1. /\ Len(got') = Len(got) + 1
          /\ \A i \in 1..Len(got) : got'[i] = got[i]
          /\ got'[Len(got) + 1] = q[1].n
      BY <1>2, <1>3, <2>2, AppendProperties
    <3>2. ASSUME NEW i \in 1..Len(got') PROVE i \in 1..Len(got) \/ i = Len(got) + 1
      BY <1>4, <3>1
    <3>3. ASSUME NEW i \in 1..Len(got'), i = Len(got) + 1 PROVE i - Len(got) = 1 /\ i > Len(got)
      BY <1>4, <3>3
    <3>4. ASSUME NEW i \in 1..Len(got), TRUE PROVE i <= Len(got)
      BY <1>4
    <3> QED
      BY <1>3, <2>2, <3>1, <3>2, <3>3, <3>4
  <2> QED
    BY <1>1, <2>1, <2>2
<1>6. Returned /\ InOrder(q)
  BY <1>0, <1>1 DEF Ordered
<1>7. Returned' /\ InOrder(r)'
  <2>1. 1 \in 0..Len(q)
    BY <1>3
  <2> QED
    BY <1>1, <1>2, <1>3, <1>4, <1>5, <1>6, <2>1, TakenInOrder
<1>8. ASSUME NEW s \in Sockets PROVE InOrder(inbox[s])'
  <2>1. inbox'[s] = IF Alive(s)' THEN (IF s = held THEN r ELSE inbox[s]) ELSE <<>>
    BY <1>0, <1>1, <1>2 DEF Kept
  <2>2. CASE inbox'[s] = <<>>
    BY <2>2 DEF InOrder
  <2>3. CASE inbox'[s] = r
    BY <1>7, <2>3 DEF InOrder
  <2>4. CASE s # held /\ inbox'[s] = inbox[s]
    <3>1. inbox[s] = <<>>
      BY <1>0, <1>1, <2>4, OneHolder
    <3> QED
      BY <2>4, <3>1 DEF InOrder
  <2> QED
    BY <2>1, <2>2, <2>3, <2>4
<1> QED
  BY <1>7, <1>8 DEF Ordered

\* fread() and Serial::read() take the oldest messages.
LEMMA StreamOrdered ==
    ASSUME TypeInv, Owns, Ordered, Solo \/ Is("udp"), ReadStream, Stream
    PROVE  Ordered'
<1>1. UNCHANGED <<mode, sent>>
  BY StreamCases
<1>2. CASE UNCHANGED <<got, inbox>>
  BY <1>1, <1>2, OrderKept
<1>3. CASE /\ SocketOf(socketfd) \in Sockets
           /\ inbox[SocketOf(socketfd)] \in Seq(Messages)
           /\ \E k \in 0..Len(inbox[SocketOf(socketfd)]) :
                /\ got' = got \o [i \in 1..k |-> inbox[SocketOf(socketfd)][i].n]
                /\ inbox' = [inbox EXCEPT ![SocketOf(socketfd)] = SubSeq(@, k + 1, Len(@))]
  <2>1. PICK s, q : s = SocketOf(socketfd) /\ q = inbox[s]
    OBVIOUS
  <2>2. PICK k \in 0..Len(q) :
          /\ got' = got \o [i \in 1..k |-> q[i].n]
          /\ inbox' = [inbox EXCEPT ![s] = SubSeq(q, k + 1, Len(q))]
    BY <1>3, <2>1
  <2>3. PICK new, r : new = [i \in 1..k |-> q[i].n] /\ r = SubSeq(q, k + 1, Len(q))
    OBVIOUS
  <2>4. /\ s \in Sockets /\ q \in Seq(Messages) /\ got \in Seq(Nat) /\ sent \in Nat
        /\ inbox \in [Sockets -> Seq(Messages)]
    BY <1>3, <2>1 DEF TypeInv, DataTyped
  <2>5. /\ new \in Seq(Nat) /\ Len(new) = k /\ k \in Nat
        /\ r \in Seq(Messages) /\ Len(r) = Len(q) - k
        /\ \A i \in 1..Len(r) : r[i] = q[i + k]
    BY <2>2, <2>3, <2>4, NumbersTyped
  <2>6. /\ got' \in Seq(Nat) /\ Len(got) \in Nat /\ Len(got') = Len(got) + k
        /\ \A i \in 1..Len(got') : got'[i] = IF i <= Len(got) THEN got[i] ELSE new[i - Len(got)]
    <3>1. got' = got \o new
      BY <2>2, <2>3
    <3>2. got \o new \in Seq(Nat) /\ Len(got \o new) = Len(got) + Len(new)
      BY <2>4, <2>5, ConcatProperties
    <3>3. \A i \in 1..(Len(got) + Len(new)) :
            (got \o new)[i] = IF i <= Len(got) THEN got[i] ELSE new[i - Len(got)]
      BY <2>4, <2>5, ConcatProperties
    <3> QED
      BY <2>4, <2>5, <3>1, <3>2, <3>3, LenProperties
  <2>7. Returned /\ InOrder(q) /\ ~Is("udp")
    BY <2>1, <2>4 DEF Ordered, Stream, Is
  <2>8. \A i \in 1..Len(got') :
          \/ i <= Len(got) /\ got'[i] = got[i]
          \/ /\ i > Len(got) /\ i - Len(got) <= k
             /\ got'[i] = q[i - Len(got)].n /\ q[i - Len(got)].kind # "own"
    <3> SUFFICES ASSUME NEW i \in 1..Len(got'), ~(i <= Len(got))
                 PROVE  /\ i > Len(got) /\ i - Len(got) <= k
                        /\ got'[i] = q[i - Len(got)].n /\ q[i - Len(got)].kind # "own"
      BY <2>6
    <3>1. i > Len(got) /\ i - Len(got) <= k /\ i - Len(got) \in 1..k
      BY <2>5, <2>6
    <3>2. i - Len(got) \in 1..Len(q)
      BY <2>2, <2>4, <3>1, LenProperties
    <3>3. q[i - Len(got)].kind # "own"
      BY <2>7, <3>2 DEF InOrder
    <3>4. got'[i] = q[i - Len(got)].n
      BY <2>3, <2>6, <3>1
    <3> QED
      BY <3>1, <3>3, <3>4
  <2>9. Returned' /\ InOrder(r)'
    BY <1>1, <2>2, <2>4, <2>5, <2>6, <2>7, <2>8, TakenInOrder
  <2>10. ASSUME NEW x \in Sockets PROVE InOrder(inbox[x])'
    <3>1. inbox'[x] = IF x = s THEN r ELSE inbox[x]
      BY <2>2, <2>3, <2>4
    <3>2. CASE inbox'[x] = r
      BY <2>9, <3>2 DEF InOrder
    <3>3. CASE x # s /\ inbox'[x] = inbox[x]
      <4>1. CASE inbox[x] = <<>>
        BY <3>3, <4>1 DEF InOrder
      <4>2. CASE inbox[x] # <<>>
        <5>1. q = <<>>
          BY <2>1, <2>4, <3>3, <4>2, OneHolder
        <5>2. k = 0
          BY <2>2, <5>1
        <5>3. /\ Len(got') = Len(got)
              /\ \A i \in 1..Len(got') : got'[i] = got[i]
          BY <2>6, <5>2
        <5>4. InOrder(inbox[x])
          BY DEF Ordered
        <5> QED
          BY <1>1, <3>3, <5>3, <5>4 DEF InOrder, Is
      <4> QED
        BY <4>1, <4>2
    <3> QED
      BY <3>1, <3>2, <3>3
  <2> QED
    BY <2>9, <2>10 DEF Ordered
<1> QED
  BY <1>2, <1>3, StreamCases

\* What arrives comes last.
LEMMA ArrivalsOrdered ==
    ASSUME TypeInv, Ordered, DeviceSends \/ Write
    PROVE  Ordered'
<1>1. /\ got \in Seq(Nat) /\ sent \in Nat /\ inbox \in [Sockets -> Seq(Messages)]
      /\ Returned /\ \A s \in Sockets : InOrder(inbox[s])
  BY DEF TypeInv, DataTyped, Ordered
<1>2. ASSUME UNCHANGED <<mode, got>>, sent' \in Nat, sent <= sent',
             NEW T, NEW m \in Messages,
             \/ m.kind = "own" /\ Is("udp")
             \/ m.kind # "own" /\ sent < m.n /\ m.n <= sent',
             inbox' = [s \in Sockets |-> IF s \in T THEN Append(inbox[s], m) ELSE inbox[s]]
      PROVE  Ordered'
  <2>1. Returned'
    <3>1. Len(got) \in Nat /\ \A i \in 1..Len(got) : got[i] \in Nat /\ got[i] <= sent
      BY <1>1, LenProperties, ElementOfSeq DEF Returned
    <3>2. \A i \in 1..Len(got) : got[i] <= sent'
      BY <1>1, <1>2, <3>1
    <3> QED
      BY <1>1, <1>2, <3>2 DEF Returned
  <2>2. ASSUME NEW s \in Sockets PROVE InOrder(inbox[s])'
    <3>1. PICK q : q = inbox[s]
      OBVIOUS
    <3>2. q \in Seq(Messages) /\ InOrder(q)
      BY <1>1, <3>1
    <3>3. CASE inbox'[s] = q
      <4>1. /\ Len(q) \in Nat
            /\ \A i \in 1..Len(q) : q[i].n \in Nat
        BY <3>2, LenProperties, ElementOfSeq, MessageFacts
      <4>2. \A i \in 1..Len(q) : q[i].kind # "own" => q[i].n <= sent'
        <5>1. \A i \in 1..Len(q) : q[i].kind # "own" => q[i].n <= sent
          BY <3>2, Zenon DEF InOrder
        <5>2. \A x \in Nat : x <= sent => x <= sent'
          BY <1>1, <1>2
        <5> QED
          BY <4>1, <5>1, <5>2, Zenon
      <4> QED
        <5>1. got' = got /\ inbox'[s] = q /\ (Is("udp")' <=> Is("udp"))
          BY <1>2, <3>3 DEF Is
        <5>2. /\ \A i \in 1..Len(q) : q[i].kind = "own" => Is("udp")
              /\ \A i \in 1..Len(q) : q[i].kind # "own" =>
                   \A j \in 1..Len(got) : got[j] < q[i].n
              /\ \A i, j \in 1..Len(q) :
                   i < j /\ q[i].kind # "own" /\ q[j].kind # "own" => q[i].n < q[j].n
          BY <3>2, Zenon DEF InOrder
        <5> QED
          BY <4>2, <5>1, <5>2, Zenon DEF InOrder
    <3>4. CASE inbox'[s] = Append(q, m)
      <4>1. InOrder(Append(q, m))'
        BY <1>1, <1>2, <3>2, AppendInOrder
      <4> QED
        BY <3>4, <4>1 DEF InOrder
    <3> QED
      BY <1>2, <3>1, <3>3, <3>4
  <2> QED
    BY <2>1, <2>2 DEF Ordered
<1>3. CASE DeviceSends
  <2>1. UNCHANGED <<mode, got>> /\ sent' = sent + 1
    BY <1>3, SendsCases
  <2>2. PICK m \in Messages :
          /\ m.n = sent + 1 /\ m.kind # "own"
          /\ inbox' = [s \in Sockets |-> IF Hears(s) THEN Append(inbox[s], m) ELSE inbox[s]]
    BY <1>3, SendsCases
  <2>3. sent' \in Nat /\ sent <= sent' /\ sent < m.n /\ m.n <= sent'
    BY <1>1, <2>1, <2>2
  <2>4. PICK T : inbox' = [s \in Sockets |-> IF s \in T THEN Append(inbox[s], m) ELSE inbox[s]]
    <3>1. inbox' = [s \in Sockets |-> IF s \in {x \in Sockets : Hears(x)} THEN Append(inbox[s], m) ELSE inbox[s]]
      BY <2>2
    <3> QED
      BY <3>1
  <2> QED
    BY <1>2, <2>1, <2>2, <2>3, <2>4
<1>4. CASE Write
  <2>1. UNCHANGED <<mode, got, sent>>
    BY <1>4, WriteCases
  <2>2. CASE UNCHANGED inbox
    BY <2>1, <2>2, OrderKept
  <2>3. CASE /\ Is("udp")
             /\ inbox' = [s \in Sockets |->
                    IF Alive(s) /\ bound[s] # "no" THEN Append(inbox[s], Own) ELSE inbox[s]]
    <3>1. Own \in Messages /\ Own.kind = "own"
      BY DEF Own, Messages
    <3>2. PICK m \in Messages : m = Own
      BY <3>1
    <3>3. PICK T : inbox' = [s \in Sockets |-> IF s \in T THEN Append(inbox[s], m) ELSE inbox[s]]
      <4>1. inbox' = [s \in Sockets |-> IF s \in {x \in Sockets : Alive(x) /\ bound[x] # "no"}
                                        THEN Append(inbox[s], m) ELSE inbox[s]]
        BY <2>3, <3>2
      <4> QED
        BY <4>1
    <3>4. sent' \in Nat /\ sent <= sent'
      BY <1>1, <2>1
    <3> QED
      BY <1>2, <2>1, <2>3, <3>1, <3>2, <3>3, <3>4
  <2> QED
    BY <1>4, <2>2, <2>3, WriteCases
<1> QED
  BY <1>3, <1>4

\* A file that is opened holds what has been sent, and nothing of it has been read.
LEMMA FileOrdered ==
    ASSUME TypeInv, Ordered, got = <<>>, UNCHANGED <<mode, sent, got>>,
           NEW fd, NEW s,
           Opens(fd, s, [n \in 1..sent |-> [n |-> n, kind |-> "data"]])
    PROVE  Ordered'
<1>1. PICK content : content = [n \in 1..sent |-> [n |-> n, kind |-> "data"]]
  OBVIOUS
<1>2. /\ sent \in Nat /\ inbox \in [Sockets -> Seq(Messages)]
      /\ \A x \in Sockets : inbox'[x] = IF x = s THEN content ELSE inbox[x]
  BY <1>1 DEF Opens, NewSocket, TypeInv, DataTyped
<1>3. /\ Len(content) = sent
      /\ \A i \in 1..sent : content[i].n = i /\ content[i].kind = "data"
  BY <1>1, <1>2
<1>4. InOrder(content)'
  BY <1>2, <1>3 DEF InOrder
<1>5. Returned'
  BY DEF Ordered, Returned
<1>6. ASSUME NEW x \in Sockets PROVE InOrder(inbox[x])'
  <2>1. CASE inbox'[x] = content
    BY <1>4, <2>1 DEF InOrder
  <2>2. CASE inbox'[x] = inbox[x]
    BY <2>2 DEF Ordered, InOrder, Is
  <2> QED
    BY <1>2, <2>1, <2>2
<1> QED
  BY <1>5, <1>6 DEF Ordered

-----------------------------------------------------------------------------
(* A thread alone *)

\* In connect(), and after a call has failed, it is the main thread that is alone.
LEMMA SoloConnects ==
    ASSUME SoloSteps, NEW t \in Threads, pc[t] \in {"connect", "open", "bind", "lost"}
    PROVE  t = "main" /\ (pc[t] # "lost" => status = -1)
BY DEF SoloSteps, Threads

\* Where the threads are after one has gone on.
LEMMA GoesTo ==
    ASSUME ThreadsTyped, NEW t \in Threads, NEW label, Goto(t, label)
    PROVE  /\ t = "main" => pc'["main"] = label /\ pc'["exec"] = pc["exec"]
           /\ t = "exec" => pc'["exec"] = label /\ pc'["main"] = pc["main"]
BY DEF ThreadsTyped, Goto, Threads

LEMMA SoloCalls ==
    ASSUME TypeInv, SoloSteps, NEW t \in Threads,
           Lost(t) \/ Reconnect(t) \/ ConnectBegin(t)
    PROVE  SoloSteps'
<1>1. ThreadsTyped /\ status \in {-1, 1}
  BY DEF TypeInv, DataTyped
<1>2. CASE Lost(t)
  <2>1. t = "main" /\ pc["main"] = "lost"
    BY <1>2, SoloConnects DEF Lost
  <2>2. UNCHANGED <<mode, got>> /\ status' = -1 /\ Goto("main", "read")
    BY <1>2, <2>1 DEF Lost, CloseIt, received
  <2>3. pc'["main"] = "read" /\ pc'["exec"] = pc["exec"]
    BY <1>1, <2>2, GoesTo DEF Threads
  <2> QED
    BY <2>1, <2>2, <2>3 DEF SoloSteps, Is
<1>3. CASE Reconnect(t)
  <2>1. /\ UNCHANGED <<mode, got, status>> /\ status = -1
        /\ pc[t] \in {"read", "write"} /\ Goto(t, "connect")
    BY <1>1, <1>3 DEF Reconnect, object, received
  <2>2. t = "main" /\ pc["main"] = "read"
    BY <1>1, <2>1 DEF SoloSteps, Threads, ThreadsTyped, MainLabels
  <2>3. pc'["main"] = "connect" /\ pc'["exec"] = pc["exec"]
    BY <1>1, <2>1, <2>2, GoesTo
  <2> QED
    BY <2>1, <2>2, <2>3 DEF SoloSteps, Is
<1>4. CASE ConnectBegin(t)
  <2>1. t = "main" /\ pc["main"] = "connect" /\ status = -1
    BY <1>4, SoloConnects DEF ConnectBegin
  <2>2. UNCHANGED <<mode, got, status>> /\ Goto("main", "open")
    BY <1>4, <2>1 DEF ConnectBegin, received
  <2>3. pc'["main"] = "open" /\ pc'["exec"] = pc["exec"]
    BY <1>1, <2>2, GoesTo DEF Threads
  <2> QED
    BY <2>1, <2>2, <2>3 DEF SoloSteps, Is
<1> QED
  BY <1>2, <1>3, <1>4

LEMMA SoloOpens ==
    ASSUME TypeInv, SoloSteps, NEW t \in Threads, Open(t)
    PROVE  SoloSteps'
<1>1. ThreadsTyped /\ UNCHANGED <<mode, got>>
  BY OpenCases DEF TypeInv
<1>2. t = "main" /\ pc["main"] = "open" /\ status = -1 /\ back["main"] \in {"start", "read"}
  <2>1. pc[t] = "open"
    BY OpenCases
  <2> QED
    BY <1>1, <2>1, SoloConnects DEF ThreadsTyped, Threads
<1>3. CASE (Is("udp") \/ Is("can")) /\ status' = status
           /\ (Goto(t, "bind") \/ Goto(t, back[t]))
  <2>1. pc'["exec"] = pc["exec"] /\ pc'["main"] \in {"bind", "start", "read"}
    BY <1>1, <1>2, <1>3, GoesTo DEF Threads
  <2>2. ~Is("file") /\ ~Is("serial")
    BY <1>3 DEF Is
  <2> QED
    BY <1>1, <1>2, <1>3, <2>1, <2>2 DEF SoloSteps, Is
<1>4. CASE (Is("file") \/ Is("serial")) /\ Goto(t, back[t])
           /\ (status' = 1 \/ (Is("file") /\ status' = status))
  <2>1. pc'["exec"] = pc["exec"] /\ pc'["main"] \in {"start", "read"}
    BY <1>1, <1>2, <1>4, GoesTo DEF Threads
  <2>2. CASE status' = 1
    BY <1>1, <1>2, <2>1, <2>2 DEF SoloSteps, Is
  <2>3. CASE Is("file") /\ status' = status
    <3>1. ~Is("serial")
      BY <2>3 DEF Is
    <3> QED
      BY <1>1, <1>2, <2>1, <2>3, <3>1 DEF SoloSteps, Is
  <2> QED
    BY <1>4, <2>2, <2>3
<1>5. CASE Is("serial") /\ Ends
  <2>1. pc'["exec"] = "dead" /\ pc'["main"] = "dead" /\ ~Is("file")
    BY <1>5 DEF Ends, Threads, Is
  <2> QED
    BY <1>1, <2>1 DEF SoloSteps, Is
<1> QED
  BY <1>3, <1>4, <1>5, OpenCases

LEMMA SoloBinds ==
    ASSUME TypeInv, SoloSteps, NEW t \in Threads, Bind(t)
    PROVE  SoloSteps'
<1>1. /\ ThreadsTyped /\ UNCHANGED <<mode, got>> /\ Goto(t, back[t]) /\ pc[t] = "bind"
      /\ Is("udp") \/ Is("can")
  BY BindCases DEF TypeInv
<1>2. t = "main" /\ back["main"] \in {"start", "read"} /\ ~Is("file") /\ ~Is("serial")
  BY <1>1, SoloConnects DEF ThreadsTyped, Threads, Is
<1>3. pc'["exec"] = pc["exec"] /\ pc'["main"] \in {"start", "read"}
  BY <1>1, <1>2, GoesTo
<1> QED
  BY <1>1, <1>2, <1>3 DEF SoloSteps, Is

LEMMA SoloReads ==
    ASSUME TypeInv, SoloSteps,
           Start \/ Enter \/ EnterStream \/ RecvFails \/ RecvUdp \/ RecvCan \/ ReadStream
    PROVE  SoloSteps'
<1>1. ThreadsTyped /\ "main" \in Threads /\ status \in {-1, 1}
  BY DEF TypeInv, DataTyped, Threads
<1>2. CASE Start
  <2>1. UNCHANGED <<mode, got, status>> /\ pc["main"] = "start"
        /\ pc'["main"] = "read" /\ pc'["exec"] = "idle"
    BY <1>2 DEF Start, object, received
  <2> QED
    BY <2>1 DEF SoloSteps, Is
<1>3. CASE Enter
  <2>1. UNCHANGED <<mode, got, status>> /\ status = 1 /\ ~Stream
        /\ (Goto("main", "lost") \/ Goto("main", "recv"))
    BY <1>3 DEF Enter, object, received
  <2>2. pc'["main"] \in {"lost", "recv"} /\ pc'["exec"] = pc["exec"]
    BY <1>1, <2>1, GoesTo
  <2> QED
    BY <2>1, <2>2 DEF SoloSteps, Is, Stream
<1>4. CASE EnterStream
  <2>1. UNCHANGED <<mode, got, status>> /\ status = 1 /\ Goto("main", "take")
    BY <1>4 DEF EnterStream, object, received
  <2>2. pc'["main"] = "take" /\ pc'["exec"] = pc["exec"]
    BY <1>1, <2>1, GoesTo
  <2> QED
    BY <2>1, <2>2 DEF SoloSteps, Is
<1>5. CASE RecvFails \/ RecvUdp \/ RecvCan
  <2>1. UNCHANGED <<mode, status>> /\ ~Is("file") /\ ~Is("serial")
    <3>1. CASE RecvFails
      BY <3>1 DEF RecvFails, object, Is
    <3>2. CASE RecvUdp \/ RecvCan
      <4>1. UNCHANGED <<mode, status>>
        BY <3>2, RecvCases
      <4> QED
        BY <3>2, <4>1 DEF RecvUdp, RecvCan, Is
    <3> QED
      BY <1>5, <3>1, <3>2
  <2>2. Goto("main", "read") \/ Goto("main", "lost")
    <3>1. CASE RecvFails
      BY <3>1 DEF RecvFails
    <3>2. CASE RecvUdp \/ RecvCan
      BY <3>2, RecvCases
    <3> QED
      BY <1>5, <3>1, <3>2
  <2>3. pc'["main"] \in {"read", "lost"} /\ pc'["exec"] = pc["exec"]
    BY <1>1, <2>2, GoesTo
  <2> QED
    BY <2>1, <2>3 DEF SoloSteps, Is
<1>6. CASE ReadStream
  <2>1. UNCHANGED <<mode, status>> /\ pc["main"] = "take"
    BY <1>6, StreamCases
  <2>2. status = 1
    BY <2>1 DEF SoloSteps
  <2>3. Ends \/ Goto("main", "read")
    BY <1>6, StreamCases
  <2>4. CASE Ends
    <3>1. pc'["exec"] = "dead" /\ pc'["main"] = "dead"
      BY <2>4 DEF Ends, Threads
    <3> QED
      BY <2>1, <2>2, <3>1 DEF SoloSteps, Is
  <2>5. CASE Goto("main", "read")
    <3>1. pc'["main"] = "read" /\ pc'["exec"] = pc["exec"]
      BY <1>1, <2>5, GoesTo
    <3> QED
      BY <2>1, <2>2, <3>1 DEF SoloSteps, Is
  <2> QED
    BY <2>3, <2>4, <2>5
<1> QED
  BY <1>2, <1>3, <1>4, <1>5, <1>6

LEMMA SoloWrites ==
    ASSUME TypeInv, Solo, SoloSteps, Write \/ WriteCalled
    PROVE  SoloSteps'
<1>1. ThreadsTyped /\ "exec" \in Threads /\ status \in {-1, 1}
  BY DEF TypeInv, DataTyped, Threads
<1>2. CASE Write
  <2>1. UNCHANGED <<mode, got, status>> /\ pc["exec"] = "write"
    BY <1>2, WriteCases
  <2>2. Is("serial") /\ ~Is("udp") /\ ~Is("can") /\ ~Is("file")
    BY <2>1 DEF SoloSteps, Is
  <2>3. Goto("exec", "idle") \/ Ends
    BY <1>2, <2>2, WriteCases
  <2>4. CASE Goto("exec", "idle")
    <3>1. pc'["exec"] = "idle" /\ pc'["main"] = pc["main"]
      BY <1>1, <2>4, GoesTo
    <3> QED
      BY <2>1, <2>2, <3>1 DEF SoloSteps, Is
  <2>5. CASE Ends
    <3>1. pc'["exec"] = "dead" /\ pc'["main"] = "dead"
      BY <2>5 DEF Ends, Threads
    <3> QED
      BY <2>1, <2>2, <3>1 DEF SoloSteps, Is
  <2> QED
    BY <2>3, <2>4, <2>5
<1>3. CASE WriteCalled
  <2>1. /\ UNCHANGED <<mode, got, status>> /\ pc["exec"] = "idle" /\ mode.write
        /\ Goto("exec", "write")
    BY <1>3 DEF WriteCalled, object, received
  <2>2. Is("serial") /\ ~Is("file")
    BY <2>1 DEF Solo, Is
  <2>3. pc'["exec"] = "write" /\ pc'["main"] = pc["main"]
    BY <1>1, <2>1, GoesTo
  <2> QED
    BY <2>1, <2>2, <2>3 DEF SoloSteps, Is
<1> QED
  BY <1>2, <1>3

-----------------------------------------------------------------------------
(* The steps keep the invariant *)

LEMMA InitInv == Init => IInv
<1> SUFFICES ASSUME Init PROVE IInv
  OBVIOUS
<1>1. MaxFd \in Nat \ {0} /\ 0 \notin Sockets
  BY BoundsAssumption DEF Sockets
<1>2. ThreadsTyped
  BY DEF Init, ThreadsTyped, Threads, MainLabels, ExecLabels
<1>3. DataTyped
  <2>1. <<>> \in Seq(Messages) /\ <<>> \in Seq(Nat)
    BY EmptySeq
  <2> QED
    BY <1>1, <2>1 DEF Init, DataTyped, Bindings
<1>4. \A s \in Sockets : ~Carrier(s) /\ inbox[s] = <<>>
  BY DEF Init, Carrier
<1>5. Owns
  <2>1. Injective
    BY DEF Init, Injective
  <2> QED
    BY <1>4, <2>1 DEF Init, Owns, BoundOnly, SoloOwns, UdpOwns
<1>6. SoloSteps
  BY DEF Init, SoloSteps
<1>7. Ordered
  <2>1. Returned
    BY DEF Init, Returned
  <2>2. ASSUME NEW s \in Sockets PROVE InOrder(inbox[s])
    BY <1>4 DEF InOrder
  <2> QED
    BY <2>1, <2>2 DEF Ordered
<1> QED
  BY <1>2, <1>3, <1>5, <1>6, <1>7 DEF IInv, TypeInv, Init, TakesStreams

\* The main thread goes to fread() or Serial::read() with a stream only.
LEMMA TakesKept ==
    ASSUME TypeInv, TakesStreams, Next
    PROVE  TakesStreams'
<1>1. ThreadsTyped /\ "main" \in Threads /\ "exec" \in Threads
  BY DEF TypeInv, Threads
<1>2. ASSUME UNCHANGED mode,
             \/ UNCHANGED pc \/ Ends
             \/ \E t \in Threads : \E label : label # "take" /\ Goto(t, label)
      PROVE  TakesStreams'
  <2>1. CASE UNCHANGED pc
    BY <1>2, <2>1 DEF TakesStreams, Stream, Is
  <2>2. CASE Ends
    BY <2>2 DEF Ends, Threads, TakesStreams
  <2>3. CASE \E t \in Threads : \E label : label # "take" /\ Goto(t, label)
    <3>1. PICK t \in Threads : \E label : label # "take" /\ Goto(t, label)
      BY <2>3
    <3>2. pc'["main"] = pc["main"] \/ pc'["main"] # "take"
      BY <1>1, <3>1, GoesTo DEF Threads
    <3> QED
      BY <1>2, <3>2 DEF TakesStreams, Stream, Is
  <2> QED
    BY <1>2, <2>1, <2>2, <2>3
<1>3. ASSUME NEW t \in Threads, Step(t) PROVE TakesStreams'
  <2>1. back[t] # "take"
    BY <1>1 DEF ThreadsTyped
  <2>2. CASE Lost(t)
    <3>1. UNCHANGED mode /\ (Goto(t, "read") \/ Goto(t, "idle"))
      BY <2>2 DEF Lost
    <3> QED
      BY <1>2, <3>1
  <2>3. CASE Reconnect(t) \/ ConnectBegin(t)
    <3>1. UNCHANGED mode /\ (Goto(t, "connect") \/ Goto(t, "open"))
      BY <2>3 DEF Reconnect, ConnectBegin
    <3> QED
      BY <1>2, <3>1
  <2>4. CASE Open(t)
    <3>1. UNCHANGED mode /\ (Goto(t, "bind") \/ Goto(t, back[t]) \/ Ends)
      BY <2>4, OpenCases
    <3> QED
      BY <1>2, <2>1, <3>1
  <2>5. CASE Bind(t)
    <3>1. UNCHANGED mode /\ Goto(t, back[t])
      BY <2>5, BindCases
    <3> QED
      BY <1>2, <2>1, <3>1
  <2> QED
    BY <1>3, <2>2, <2>3, <2>4, <2>5 DEF Step
<1>4. CASE Start
  BY <1>4 DEF Start, TakesStreams
<1>5. CASE Enter
  <2>1. UNCHANGED mode /\ (Goto("main", "lost") \/ Goto("main", "recv"))
    BY <1>5 DEF Enter
  <2> QED
    BY <1>1, <1>2, <2>1
<1>6. CASE EnterStream
  BY <1>6 DEF EnterStream, TakesStreams, Stream, Is
<1>7. CASE RecvFails
  <2>1. UNCHANGED mode /\ Goto("main", "lost")
    BY <1>7 DEF RecvFails
  <2> QED
    BY <1>1, <1>2, <2>1
<1>8. CASE RecvUdp \/ RecvCan
  <2>1. UNCHANGED mode /\ (Goto("main", "read") \/ Goto("main", "lost"))
    BY <1>8, RecvCases
  <2> QED
    BY <1>1, <1>2, <2>1
<1>9. CASE ReadStream
  <2>1. UNCHANGED mode /\ (Goto("main", "read") \/ Ends)
    BY <1>9, StreamCases
  <2> QED
    BY <1>1, <1>2, <2>1
<1>10. CASE Write
  <2>1. UNCHANGED mode /\ (Goto("exec", "idle") \/ Goto("exec", "lost") \/ Ends)
    BY <1>10, WriteCases
  <2> QED
    BY <1>1, <1>2, <2>1
<1>11. CASE WriteCalled
  <2>1. UNCHANGED mode /\ Goto("exec", "write")
    BY <1>11 DEF WriteCalled
  <2> QED
    BY <1>1, <1>2, <2>1
<1>12. CASE DeviceSends \/ WorldChanges
  BY <1>2, <1>12 DEF DeviceSends, WorldChanges, threads
<1> QED
  BY <1>1, <1>3, <1>4, <1>5, <1>6, <1>7, <1>8, <1>9, <1>10, <1>11, <1>12 DEF Next, Main, Exec

\* A thread closes what it has and starts to connect.
LEMMA CallsKeep ==
    ASSUME IInv, TakesStreams', NEW t \in Threads, Lost(t) \/ Reconnect(t) \/ ConnectBegin(t)
    PROVE  IInv'
<1>1. TypeInv /\ Owns /\ TypeInv'
  BY CallTyped DEF IInv
<1>2. UNCHANGED <<mode, held, sent, got>>
  BY DEF Lost, Reconnect, ConnectBegin, world, received
<1>3. (CloseIt /\ (Solo => held = 0)) \/ UNCHANGED <<status, socketfd, table, bound, inbox>>
  <2>1. CASE Lost(t)
    <3>1. CloseIt /\ pc[t] = "lost"
      BY <2>1 DEF Lost
    <3>2. Solo => t = "main"
      BY <3>1, SoloConnects DEF IInv
    <3> QED
      BY <1>1, <3>1, <3>2 DEF TypeInv, ThreadsTyped
  <2>2. CASE Reconnect(t)
    BY <2>2 DEF Reconnect, object, kernel
  <2>3. CASE ConnectBegin(t)
    <3>1. pc[t] = "connect"
      BY <2>3 DEF ConnectBegin
    <3>2. Solo => status = -1
      BY <3>1, SoloConnects DEF IInv
    <3>3. CASE status # -1 /\ CloseIt
      BY <3>2, <3>3
    <3>4. CASE UNCHANGED <<kernel, socketfd, status>>
      BY <3>4 DEF kernel
    <3> QED
      BY <2>3, <3>3, <3>4 DEF ConnectBegin
  <2> QED
    BY <2>1, <2>2, <2>3
<1>4. Owns'
  <2>1. CASE CloseIt /\ (Solo => held = 0)
    BY <1>1, <1>2, <2>1, OwnsClose
  <2>2. CASE UNCHANGED <<status, socketfd, table, bound, inbox>>
    BY <1>1, <1>2, <2>2, OwnsSame
  <2> QED
    BY <1>3, <2>1, <2>2
<1>5. Solo' => SoloSteps'
  BY <1>1, <1>2, SoloCalls DEF IInv, Solo, Is
<1>6. ASSUME Ordered PROVE Ordered'
  <2>1. \A s \in Sockets : inbox'[s] = inbox[s] \/ inbox'[s] = <<>>
    BY <1>3 DEF CloseIt, Kept
  <2> QED
    BY <1>2, <1>6, <2>1, OrderKept
<1> QED
  BY <1>1, <1>2, <1>4, <1>5, <1>6 DEF IInv, Solo, Is

\* connect() opens something, or does not.
LEMMA OpenKeeps ==
    ASSUME IInv, TakesStreams', NEW t \in Threads, Open(t)
    PROVE  IInv'
<1>1. TypeInv /\ Owns /\ TypeInv'
  BY OpenTyped DEF IInv
<1>2. UNCHANGED <<mode, held, sent, got>> /\ pc[t] = "open"
  BY <1>1, OpenCases
<1>3. Solo => status = -1
  BY <1>2, SoloConnects DEF IInv
<1>4. Solo' => SoloSteps'
  BY <1>1, <1>2, SoloOpens DEF IInv, Solo, Is
<1>5. (Solo \/ Is("udp") => Ordered') => IInv' \/ ~Owns'
  BY <1>1, <1>2, <1>4 DEF IInv, Solo, Is
<1>6. CASE (Is("udp") \/ Is("can")) /\ UNCHANGED status /\ \E fd, s : Opens(fd, s, <<>>)
  <2>1. PICK fd, s : Opens(fd, s, <<>>)
    BY <1>6
  <2>2. ~Is("file")
    BY <1>6 DEF Is
  <2>3. Owns'
    BY <1>1, <1>2, <1>3, <1>6, <2>1, <2>2, OwnsOpens
  <2>4. \A x \in Sockets : inbox'[x] = inbox[x] \/ inbox'[x] = <<>>
    BY <1>1, <2>1 DEF Opens, NewSocket, TypeInv, DataTyped
  <2>5. Ordered => Ordered'
    BY <1>2, <2>4, OrderKept
  <2> QED
    BY <1>5, <2>3, <2>5 DEF IInv
<1>7. CASE UNCHANGED <<status, table, bound, inbox>>
  <2>1. Owns'
    BY <1>1, <1>2, <1>3, <1>7, OwnsNothingOpened
  <2>2. Ordered => Ordered'
    BY <1>2, <1>7, OrderKept
  <2> QED
    BY <1>5, <2>1, <2>2 DEF IInv
<1>8. CASE /\ Is("file") /\ status' = 1
           /\ \E fd, s : Opens(fd, s, [n \in 1..sent |-> [n |-> n, kind |-> "data"]])
  <2>1. PICK fd, s : Opens(fd, s, [n \in 1..sent |-> [n |-> n, kind |-> "data"]])
    BY <1>8
  <2>2. Owns'
    BY <1>1, <1>2, <1>3, <1>8, <2>1, OwnsOpens
  <2>3. ASSUME Solo \/ Is("udp") PROVE Ordered'
    <3>1. Solo /\ SoloSteps /\ Ordered
      BY <1>8, <2>3 DEF IInv, Is
    <3>2. got = <<>>
      BY <1>3, <1>8, <3>1 DEF SoloSteps
    <3> QED
      BY <1>1, <1>2, <2>1, <3>1, <3>2, FileOrdered
  <2> QED
    BY <1>5, <2>2, <2>3
<1>9. CASE /\ Is("serial") /\ status' = 1 /\ UNCHANGED inbox
           /\ \E fd \in Fds, s \in Sockets :
                /\ table[fd] = 0
                /\ ~Alive(s) \/ bound[s] = "dev"
                /\ socketfd' = fd
                /\ table' = [table EXCEPT ![fd] = s]
                /\ bound' = [bound EXCEPT ![s] = "dev"]
  <2>1. status = -1
    BY <1>3, <1>9 DEF Solo
  <2>2. Owns'
    BY <1>1, <1>2, <1>9, <2>1, OwnsPlugged
  <2>3. Ordered => Ordered'
    BY <1>2, <1>9, OrderKept
  <2> QED
    BY <1>5, <2>2, <2>3 DEF IInv
<1> QED
  BY <1>1, <1>6, <1>7, <1>8, <1>9, OpenCases

LEMMA BindKeeps ==
    ASSUME IInv, TakesStreams', NEW t \in Threads, Bind(t)
    PROVE  IInv'
<1>1. TypeInv /\ Owns /\ TypeInv'
  BY BindTyped DEF IInv
<1>2. UNCHANGED <<mode, inbox, sent, got>> /\ pc[t] = "bind"
  BY <1>1, BindCases
<1>3. Solo => status = -1
  BY <1>2, SoloConnects DEF IInv
<1>4. Owns'
  BY <1>1, <1>3, OwnsBind
<1>5. Solo' => SoloSteps'
  BY <1>1, <1>2, SoloBinds DEF IInv, Solo, Is
<1>6. Ordered => Ordered'
  BY <1>2, OrderKept
<1> QED
  BY <1>1, <1>2, <1>4, <1>5, <1>6 DEF IInv, Solo, Is

\* read() begins, or finds the device gone.
LEMMA WaitKeeps ==
    ASSUME IInv, TakesStreams', Start \/ Enter \/ EnterStream \/ RecvFails
    PROVE  IInv'
<1>1. TypeInv /\ Owns /\ TypeInv'
  BY WaitTyped DEF IInv
<1>2. UNCHANGED <<mode, sent, got, status, socketfd, table>>
  BY DEF Start, Enter, EnterStream, RecvFails, object, kernel, world, received
<1>3. Owns' /\ \A s \in Sockets : inbox'[s] = inbox[s] \/ inbox'[s] = <<>>
  <2>1. CASE RecvFails
    <3>1. held' = 0 /\ inbox' = Kept(inbox, <<>>) /\ bound' = Kept(bound, "no")
      BY <2>1 DEF RecvFails
    <3>2. Owns'
      BY <1>1, <1>2, <3>1, OwnsWaitEnds
    <3> QED
      BY <3>1, <3>2 DEF Kept
  <2>2. CASE Start \/ EnterStream
    <3>1. UNCHANGED <<held, bound, inbox>>
      BY <2>2 DEF Start, EnterStream, kernel
    <3> QED
      BY <1>1, <1>2, <3>1, OwnsSame
  <2>3. CASE Enter
    <3>1. UNCHANGED <<bound, inbox>> /\ held = 0
      BY <1>1, <2>3 DEF Enter, kernel, TypeInv, ThreadsTyped
    <3> QED
      BY <1>1, <1>2, <3>1, OwnsSame
  <2> QED
    BY <2>1, <2>2, <2>3
<1>4. Solo' => SoloSteps'
  BY <1>1, <1>2, SoloReads DEF IInv, Solo, Is
<1>5. Ordered => Ordered'
  BY <1>2, <1>3, OrderKept
<1> QED
  BY <1>1, <1>2, <1>3, <1>4, <1>5 DEF IInv, Solo, Is

LEMMA RecvKeeps ==
    ASSUME IInv, TakesStreams', RecvUdp \/ RecvCan
    PROVE  IInv'
<1>1. TypeInv /\ Owns /\ TypeInv'
  BY RecvTyped DEF IInv
<1>2. /\ UNCHANGED <<mode, status, socketfd, table>> /\ held' = 0
      /\ held \in Sockets /\ inbox[held] # <<>>
      /\ inbox' = Kept([inbox EXCEPT ![held] = Tail(@)], <<>>)
      /\ bound' = Kept(bound, "no")
  BY <1>1, RecvCases
<1>3. Owns'
  <2>1. PICK q : q = [inbox EXCEPT ![held] = Tail(@)]
    OBVIOUS
  <2>2. \A s \in Sockets : q[s] # <<>> => inbox[s] # <<>>
    BY <1>1, <1>2, <2>1 DEF TypeInv, DataTyped
  <2>3. inbox' = Kept(q, <<>>)
    BY <1>2, <2>1
  <2> QED
    BY <1>1, <1>2, <2>2, <2>3, OwnsWaitEnds
<1>4. Solo' => SoloSteps'
  BY <1>1, <1>2, SoloReads DEF IInv, Solo, Is
<1>5. Solo \/ Is("udp") => Ordered'
  BY <1>1, RecvOrdered DEF IInv
<1> QED
  BY <1>1, <1>2, <1>3, <1>4, <1>5 DEF IInv, Solo, Is

LEMMA StreamKeeps ==
    ASSUME IInv, TakesStreams', ReadStream
    PROVE  IInv'
<1>1. TypeInv /\ Owns /\ TypeInv'
  BY StreamTyped DEF IInv
<1>2. UNCHANGED <<mode, status, socketfd, table, bound, held>> /\ pc["main"] = "take"
  BY <1>1, StreamCases
<1>3. Owns'
  <2>1. ASSUME NEW s \in Sockets, inbox'[s] # <<>> PROVE inbox[s] # <<>>
    <3>1. CASE UNCHANGED inbox
      BY <2>1, <3>1
    <3>2. CASE /\ inbox[SocketOf(socketfd)] \in Seq(Messages)
               /\ \E k \in 0..Len(inbox[SocketOf(socketfd)]) :
                    inbox' = [inbox EXCEPT ![SocketOf(socketfd)] = SubSeq(@, k + 1, Len(@))]
      <4>1. PICK q, k : /\ q = inbox[SocketOf(socketfd)] /\ k \in 0..Len(q)
                        /\ inbox' = [inbox EXCEPT ![SocketOf(socketfd)] = SubSeq(q, k + 1, Len(q))]
        BY <3>2
      <4>2. CASE q # <<>>
        BY <1>1, <2>1, <4>1, <4>2 DEF TypeInv, DataTyped
      <4>3. CASE q = <<>>
        <5>1. SubSeq(q, k + 1, Len(q)) = <<>>
          BY <4>1, <4>3
        <5> QED
          BY <1>1, <2>1, <4>1, <4>3, <5>1 DEF TypeInv, DataTyped
      <4> QED
        BY <4>2, <4>3
    <3> QED
      BY <1>1, <3>1, <3>2, StreamCases
  <2> QED
    BY <1>1, <1>2, <2>1, OwnsSame
<1>4. Solo' => SoloSteps'
  BY <1>1, <1>2, SoloReads DEF IInv, Solo, Is
<1>5. Solo \/ Is("udp") => Ordered'
  <2>1. CASE Stream
    BY <1>1, <2>1, StreamOrdered DEF IInv
  <2>2. CASE ~Stream
    BY <1>2, <2>2 DEF IInv, TakesStreams
  <2> QED
    BY <2>1, <2>2
<1> QED
  BY <1>1, <1>2, <1>3, <1>4, <1>5 DEF IInv, Solo, Is

LEMMA WriteKeeps ==
    ASSUME IInv, TakesStreams', Write \/ WriteCalled
    PROVE  IInv'
<1>1. TypeInv /\ Owns /\ TypeInv'
  BY WriteTyped DEF IInv
<1>2. UNCHANGED <<mode, status, socketfd, table, bound, held>>
  <2>1. CASE Write
    BY <1>1, <2>1, WriteCases
  <2>2. CASE WriteCalled
    BY <2>2 DEF WriteCalled, object, kernel
  <2> QED
    BY <2>1, <2>2
<1>3. \A s \in Sockets : inbox'[s] # <<>> => inbox[s] # <<>> \/ bound[s] # "no"
  <2>1. CASE UNCHANGED inbox
    BY <2>1
  <2>2. CASE inbox' = [s \in Sockets |->
               IF Alive(s) /\ bound[s] # "no" THEN Append(inbox[s], Own) ELSE inbox[s]]
    BY <2>2
  <2>3. UNCHANGED inbox \/ inbox' = [s \in Sockets |->
               IF Alive(s) /\ bound[s] # "no" THEN Append(inbox[s], Own) ELSE inbox[s]]
    <3>1. CASE Write
      BY <1>1, <3>1, WriteCases
    <3>2. CASE WriteCalled
      BY <3>2 DEF WriteCalled, kernel
    <3> QED
      BY <3>1, <3>2
  <2> QED
    BY <2>1, <2>2, <2>3
<1>4. Owns'
  BY <1>1, <1>2, <1>3, OwnsSame
<1>5. Solo' => SoloSteps'
  BY <1>1, <1>2, SoloWrites DEF IInv, Solo, Is
<1>6. ASSUME Ordered PROVE Ordered'
  <2>1. CASE Write
    BY <1>1, <1>6, <2>1, ArrivalsOrdered
  <2>2. CASE WriteCalled
    <3>1. UNCHANGED <<mode, sent, got, inbox>>
      BY <2>2 DEF WriteCalled, kernel, received
    <3> QED
      BY <1>6, <3>1, OrderKept
  <2> QED
    BY <2>1, <2>2
<1> QED
  BY <1>1, <1>2, <1>4, <1>5, <1>6 DEF IInv, Solo, Is

LEMMA WorldKeeps ==
    ASSUME IInv, TakesStreams', DeviceSends \/ WorldChanges
    PROVE  IInv'
<1>1. TypeInv /\ Owns /\ TypeInv'
  BY WorldTyped DEF IInv
<1>2. UNCHANGED <<mode, status, socketfd, table, held, pc, got>>
  BY DEF DeviceSends, WorldChanges, object, threads, received
<1>3. /\ \A s \in Sockets : bound'[s] = "no" <=> bound[s] = "no"
      /\ \A s \in Sockets : inbox'[s] # <<>> => inbox[s] # <<>> \/ bound[s] # "no"
  <2>1. CASE DeviceSends
    <3>1. UNCHANGED bound
      BY <1>1, <2>1, SendsCases
    <3>2. PICK m \in Messages :
            inbox' = [s \in Sockets |-> IF Hears(s) THEN Append(inbox[s], m) ELSE inbox[s]]
      BY <1>1, <2>1, SendsCases
    <3>3. \A s \in Sockets : Hears(s) => bound[s] # "no"
      BY DEF Hears
    <3> QED
      BY <3>1, <3>2, <3>3
  <2>2. CASE WorldChanges
    <3>1. UNCHANGED inbox
      BY <1>1, <2>2, WorldCases
    <3>2. CASE UNCHANGED bound
      BY <3>1, <3>2
    <3>3. CASE bound' = [s \in Sockets |-> IF bound[s] = "dev" THEN "gone" ELSE bound[s]]
      BY <3>1, <3>3
    <3> QED
      BY <1>1, <2>2, <3>2, <3>3, WorldCases
  <2> QED
    BY <2>1, <2>2
<1>4. Owns'
  BY <1>1, <1>2, <1>3, OwnsSame
<1>5. Solo' => SoloSteps'
  BY <1>2 DEF IInv, Solo, SoloSteps, Is
<1>6. ASSUME Ordered PROVE Ordered'
  <2>1. CASE DeviceSends
    BY <1>1, <1>6, <2>1, ArrivalsOrdered
  <2>2. CASE WorldChanges
    <3>1. UNCHANGED <<mode, sent, got, inbox>>
      BY <1>1, <2>2, WorldCases
    <3> QED
      BY <1>6, <3>1, OrderKept
  <2> QED
    BY <2>1, <2>2
<1> QED
  BY <1>1, <1>2, <1>4, <1>5, <1>6 DEF IInv, Solo, Is

\* A step of either thread, of the topic, of the device or of the world.
LEMMA NextKeeps == IInv /\ [Next]_vars => IInv'
<1> SUFFICES ASSUME IInv, [Next]_vars PROVE IInv'
  OBVIOUS
<1>1. CASE UNCHANGED vars
  <2>1. UNCHANGED <<mode, status, socketfd, addr, table, bound, inbox, held, pc, back, sent, got>>
    BY <1>1 DEF vars, object, kernel, threads, world, received
  <2>2. TypeInv'
    BY <2>1 DEF IInv, TypeInv, ThreadsTyped, DataTyped, Stream, Is, Threads, MainLabels,
                ExecLabels, Bindings
  <2>3. Owns'
    BY <2>1, OwnsSame DEF IInv
  <2>4. Ordered => Ordered'
    BY <2>1, OrderKept
  <2> QED
    BY <2>1, <2>2, <2>3, <2>4 DEF IInv, TakesStreams, Stream, Solo, SoloSteps, Is
<1>2. CASE Next
  <2>1. TakesStreams'
    BY <1>2, TakesKept DEF IInv
  <2>2. ASSUME NEW t \in Threads, Step(t) PROVE IInv'
    BY <2>1, <2>2, CallsKeep, OpenKeeps, BindKeeps DEF Step
  <2>3. CASE Start \/ Enter \/ EnterStream \/ RecvFails
    BY <2>1, <2>3, WaitKeeps
  <2>4. CASE RecvUdp \/ RecvCan
    BY <2>1, <2>4, RecvKeeps
  <2>5. CASE ReadStream
    BY <2>1, <2>5, StreamKeeps
  <2>6. CASE Write \/ WriteCalled
    BY <2>1, <2>6, WriteKeeps
  <2>7. CASE DeviceSends \/ WorldChanges
    BY <2>1, <2>7, WorldKeeps
  <2>8. "main" \in Threads /\ "exec" \in Threads
    BY DEF Threads
  <2> QED
    BY <1>2, <2>2, <2>3, <2>4, <2>5, <2>6, <2>7, <2>8 DEF Next, Main, Exec
<1> QED
  BY <1>1, <1>2

\* Everything below follows from this invariant.
THEOREM Invariance == Spec => []IInv
<1>1. Init => IInv
  BY InitInv
<1>2. IInv /\ [Next]_vars => IInv'
  BY NextKeeps
<1> QED
  BY <1>1, <1>2, PTL DEF Spec

-----------------------------------------------------------------------------
(* What follows *)

\* status, socketfd, sock_addr and both threads of the connectors stay in their
\* ranges, and the main thread waits in a socket exactly when it is in recvfrom()
\* or the CAN socket's read().
THEOREM TypeCorrect == Spec => []TypeOK
<1>1. IInv => TypeOK
  BY DEF IInv, TypeInv, ThreadsTyped, DataTyped, TypeOK, MainLabels, ExecLabels, Bindings
<1> QED
  BY <1>1, Invariance, PTL

\* Without enable_write, a reader whose status is 1 has a socket it can read, and
\* no other descriptor has a bound one, however often connect() and disconnect()
\* have been called.
THEOREM KeepsOneConnection == Spec => []OneConnection
<1>1. IInv => OneConnection
  <2> SUFFICES ASSUME IInv, ~mode.write PROVE OneConnection
    BY DEF OneConnection
  <2>1. SoloOwns /\ Injective /\ table \in [Fds -> 0..(MaxFd + 1)] /\ MaxFd \in Nat
    BY BoundsAssumption DEF IInv, Solo, Owns, TypeInv, DataTyped
  <2>2. ASSUME NEW fd \in Fds, table[fd] # 0, bound[table[fd]] # "no"
        PROVE  fd = socketfd
    <3>1. table[fd] \in Sockets
      BY <2>1, <2>2 DEF Sockets
    <3>2. table[fd] = SocketOf(socketfd)
      BY <2>1, <2>2, <3>1 DEF SoloOwns, Carrier
    <3>3. socketfd \in Fds /\ table[socketfd] = table[fd]
      BY <2>2, <3>2 DEF SocketOf
    <3> QED
      BY <2>1, <2>2, <3>3 DEF Injective
  <2> QED
    BY <2>1, <2>2 DEF OneConnection, SoloOwns
<1> QED
  BY <1>1, Invariance, PTL

\* What read() returns is in the order in which the device sent it and comes only
\* once: for a reader alone, and for UDP and a serial port with a writer as well,
\* although both threads connect the object they share without a lock.
THEOREM ReadsInOrderOnce == Spec => []InOrderOnce
<1>1. IInv => InOrderOnce
  <2> SUFFICES ASSUME IInv, mode.write => Is("udp") \/ Is("serial") PROVE InOrderOnce
    BY DEF InOrderOnce
  <2>1. Returned
    BY DEF IInv, Solo, Ordered
  <2>2. DOMAIN got = 1..Len(got)
    <3>1. got \in Seq(Nat)
      BY DEF IInv, TypeInv, DataTyped
    <3> QED
      BY <3>1, LenProperties
  <2> QED
    BY <2>1, <2>2 DEF InOrderOnce, Returned
<1> QED
  BY <1>1, Invariance, PTL

-----------------------------------------------------------------------------
(* Recursive functions *)

\* The order of the natural numbers.
Less == {p \in Nat \X Nat : p[1] < p[2]}

\* A set that holds 0 and every successor holds every natural number.
LEMMA SetInduction ==
    ASSUME NEW S \in SUBSET Nat, 0 \in S, \A n \in S : n + 1 \in S
    PROVE  Nat \subseteq S
<1>1. IsWellFoundedOn(Less, Nat)
  BY NatLessThanWellFounded DEF OpToRel, Less
<1> DEFINE T == Nat \ S
<1> SUFFICES ASSUME T # {} PROVE FALSE
  OBVIOUS
<1>2. PICK x \in T : \A y \in T : ~(<<y, x>> \in Less)
  <2> T \subseteq Nat
    OBVIOUS
  <2> HIDE DEF T
  <2> QED
    BY <1>1, WFMin
<1>3. x - 1 \in T
  <2>1. x \in Nat /\ x # 0 /\ x - 1 \in Nat
    OBVIOUS
  <2> QED
    BY <2>1
<1>4. <<x - 1, x>> \in Less
  BY <1>3 DEF Less
<1> QED
  BY <1>2, <1>3, <1>4

\* The value of a recursion at i, from the one before it.
From(f, g, b, m, i) == IF i = m THEN 0 ELSE g * f[i - 1] + b[i]

\* A recursion over an interval has a solution.
LEMMA Recursion ==
    ASSUME NEW m \in Nat, NEW n \in Nat, NEW g \in Int, NEW b \in [m..n -> Int]
    PROVE  \E f \in [m..n -> Int] : \A i \in m..n : f[i] = From(f, g, b, m, i)
<1> DEFINE Solved(k) == \E f \in [m..(m + k) -> Int] :
                            \A i \in m..(m + k) : f[i] = From(f, g, b, m, i)
           S == {k \in Nat : m + k <= n => Solved(k)}
<1>1. 0 \in S
  <2> DEFINE f == [i \in m..(m + 0) |-> 0]
  <2>1. f \in [m..(m + 0) -> Int] /\ \A i \in m..(m + 0) : f[i] = From(f, g, b, m, i)
    BY DEF From
  <2>2. Solved(0)
    <3> HIDE DEF f
    <3> QED
      BY <2>1
  <2> HIDE DEF Solved
  <2> QED
    BY <2>2
<1>2. ASSUME NEW k \in S PROVE k + 1 \in S
  <2> SUFFICES ASSUME m + (k + 1) <= n
               PROVE  Solved(k + 1)
    <3> HIDE DEF Solved
    <3> QED
      OBVIOUS
  <2>1. k \in Nat /\ Solved(k)
    <3> HIDE DEF Solved
    <3> QED
      OBVIOUS
  <2>2. PICK f \in [m..(m + k) -> Int] :
             \A i \in m..(m + k) : f[i] = From(f, g, b, m, i)
    BY <2>1
  <2> DEFINE next == g * f[m + k] + b[m + k + 1]
             h == [i \in m..(m + (k + 1)) |-> IF i = m + k + 1 THEN next ELSE f[i]]
  <2>3. next \in Int
    <3>1. m + k \in m..(m + k) /\ m + k + 1 \in m..n
      BY <2>1
    <3>2. f[m + k] \in Int /\ b[m + k + 1] \in Int
      BY <3>1
    <3> QED
      BY <3>2
  <2> HIDE DEF next
  <2>4. h \in [m..(m + (k + 1)) -> Int]
    BY <2>1, <2>3
  <2>5. h[m + k + 1] = next /\ \A i \in m..(m + k) : h[i] = f[i]
    BY <2>1
  <2> HIDE DEF h
  <2>6. ASSUME NEW i \in m..(m + (k + 1)) PROVE h[i] = From(h, g, b, m, i)
    <3>1. CASE i = m + k + 1
      <4>1. i # m /\ i - 1 = m + k /\ m + k \in m..(m + k)
        BY <2>1, <3>1
      <4>2. h[i - 1] = f[m + k]
        BY <2>5, <4>1
      <4> QED
        BY <2>5, <3>1, <4>1, <4>2 DEF From, next
    <3>2. CASE i \in m..(m + k)
      <4>1. i = m \/ i - 1 \in m..(m + k)
        BY <2>1, <3>2
      <4>2. From(h, g, b, m, i) = From(f, g, b, m, i)
        BY <2>5, <4>1 DEF From
      <4> QED
        BY <2>2, <2>5, <3>2, <4>2
    <3> QED
      BY <2>1, <3>1, <3>2
  <2> QED
    BY <2>4, <2>6
<1>3. Nat \subseteq S
  <2>1. S \in SUBSET Nat
    OBVIOUS
  <2> HIDE DEF S
  <2> QED
    BY <1>1, <1>2, <2>1, SetInduction, Zenon
<1> HIDE DEF S
<1>4. CASE m <= n
  <2>1. n - m \in Nat /\ m + (n - m) = n
    BY <1>4
  <2>2. n - m \in S
    BY <1>3, <2>1
  <2>3. Solved(n - m)
    <3> HIDE DEF Solved
    <3> QED
      BY <2>1, <2>2 DEF S
  <2> QED
    BY <2>1, <2>3
<1>5. CASE ~(m <= n)
  <2>1. m..n = {}
    BY <1>5
  <2>2. b \in [m..n -> Int] /\ \A i \in m..n : b[i] = From(b, g, b, m, i)
    BY <2>1
  <2> QED
    BY <2>2
<1> QED
  BY <1>4, <1>5

-----------------------------------------------------------------------------
(* The bits of a field *)

\* A bit of a byte is 0 or 1.
LEMMA BitFacts ==
    ASSUME NEW x \in 0..255, NEW k \in 0..7
    PROVE  Bit(x, k) \in {0, 1}
<1>1. k = 0 \/ k = 1 \/ k = 2 \/ k = 3 \/ k = 4 \/ k = 5 \/ k = 6 \/ k = 7
  OBVIOUS
<1>2. \A y \in 1..128 : (x \div y) % 2 \in {0, 1}
  OBVIOUS
<1>3. /\ 2^0 \in 1..128 /\ 2^1 \in 1..128 /\ 2^2 \in 1..128 /\ 2^3 \in 1..128
      /\ 2^4 \in 1..128 /\ 2^5 \in 1..128 /\ 2^6 \in 1..128 /\ 2^7 \in 1..128
  OBVIOUS
<1>4. 2^k \in 1..128
  BY <1>1, <1>3, Zenon
<1> QED
  BY <1>2, <1>4 DEF Bit

\* The bit that Slice takes i-th.
NextBit(format, d, o, n, i) ==
    IF format = "motorola" THEN BitAt(format, d, o + i - 1) ELSE BitAt(format, d, o + n - i)

\* Slice shifts the bits in, one after the other.
Shifts(f, format, d, o, n) ==
    /\ d \in Bytes8 /\ o \in Nat /\ n \in Nat
    /\ f \in [0..n -> Int] /\ f[0] = 0
    /\ \A i \in 1..n : f[i] = 2 * f[i - 1] + NextBit(format, d, o, n, i)

\* The bits of a field within the frame are bits.
LEMMA NextBitFacts ==
    ASSUME NEW format, NEW d \in Bytes8, NEW o \in Nat, NEW n \in Nat, o + n <= 64,
           NEW i \in 1..n
    PROVE  NextBit(format, d, o, n, i) \in {0, 1}
<1>1. ASSUME NEW k \in 0..63 PROVE BitAt(format, d, k) \in {0, 1}
  <2>1. k \div 8 \in 0..7 /\ (k % 8) \in 0..7 /\ 7 - (k % 8) \in 0..7
    OBVIOUS
  <2>2. d[k \div 8] \in 0..255
    BY <2>1 DEF Bytes8
  <2> QED
    BY <2>1, <2>2, BitFacts DEF BitAt
<1>2. o + i - 1 \in 0..63 /\ o + n - i \in 0..63
  OBVIOUS
<1> QED
  BY <1>1, <1>2 DEF NextBit

\* A field lies within the frame.
Within(o, n) == o \in Nat /\ n \in Nat /\ o + n <= 64

\* What Slice computes.
LEMMA Sliced ==
    ASSUME NEW format, NEW d \in Bytes8, NEW o, NEW n, Within(o, n)
    PROVE  \E f : Shifts(f, format, d, o, n) /\ Slice(format, d, o, n) = f[n]
<1> DEFINE b == [i \in 0..n |-> IF i = 0 THEN 0 ELSE NextBit(format, d, o, n, i)]
           Value(f, i) == IF i = 0 THEN 0
                          ELSE IF format = "motorola"
                               THEN 2 * f[i - 1] + BitAt(format, d, o + i - 1)
                               ELSE 2 * f[i - 1] + BitAt(format, d, o + n - i)
           f == CHOOSE v : v = [i \in 0..n |-> Value(v, i)]
<1>0. o \in Nat /\ n \in Nat /\ o + n <= 64
  BY DEF Within
<1> USE <1>0
<1>1. \A i \in 1..n : NextBit(format, d, o, n, i) \in Int
  BY NextBitFacts
<1>2. b \in [0..n -> Int]
  BY <1>1
<1>3. \A i \in 1..n : i # 0 /\ i \in 0..n /\ b[i] = NextBit(format, d, o, n, i)
  OBVIOUS
<1> HIDE DEF b
<1>4. PICK v \in [0..n -> Int] : \A i \in 0..n : v[i] = From(v, 2, b, 0, i)
  <2>1. 0 \in Nat /\ 2 \in Int
    OBVIOUS
  <2> QED
    BY <1>2, <2>1, Recursion, Zenon
<1>5. v = [i \in 0..n |-> Value(v, i)]
  <2>1. ASSUME NEW i \in 0..n PROVE v[i] = Value(v, i)
    <3>1. i = 0 \/ i \in 1..n
      OBVIOUS
    <3> QED
      BY <1>3, <1>4, <3>1 DEF From, NextBit
  <2> HIDE DEF Value
  <2> QED
    BY <2>1
<1>6. f = [i \in 0..n |-> Value(f, i)]
  <2>1. \E w : w = [i \in 0..n |-> Value(w, i)]
    BY <1>5, Zenon
  <2> QED
    BY <2>1, Zenon
<1>7. Slice(format, d, o, n) = f[n]
  BY DEF Slice
<1> HIDE DEF f
<1>8. \A i \in 0..n : f[i] = Value(f, i)
  <2> HIDE DEF Value
  <2> QED
    BY <1>6
<1> DEFINE R == {k \in Nat : k <= n => f[k] \in Int}
<1>9. Nat \subseteq R
  <2>1. 0 \in R
    BY <1>8
  <2>2. ASSUME NEW k \in R PROVE k + 1 \in R
    <3> SUFFICES ASSUME k + 1 <= n PROVE f[k + 1] \in Int
      OBVIOUS
    <3>1. k \in Nat /\ k + 1 \in 1..n /\ k + 1 \in 0..n /\ k + 1 # 0 /\ (k + 1) - 1 = k
      OBVIOUS
    <3>2. f[k] \in Int /\ NextBit(format, d, o, n, k + 1) \in Int
      BY <1>1, <3>1
    <3>3. f[k + 1] = 2 * f[k] + NextBit(format, d, o, n, k + 1)
      BY <1>8, <3>1 DEF NextBit
    <3> QED
      BY <3>2, <3>3
  <2>3. R \in SUBSET Nat
    OBVIOUS
  <2> HIDE DEF R
  <2> QED
    BY <2>1, <2>2, <2>3, SetInduction, Zenon
<1>10. f \in [0..n -> Int]
  <2>1. \A i \in 0..n : f[i] \in Int
    BY <1>9
  <2>2. f = [i \in 0..n |-> f[i]]
    <3> HIDE DEF Value
    <3> QED
      BY <1>6
  <2> QED
    BY <2>1, <2>2
<1>11. f[0] = 0 /\ \A i \in 1..n : f[i] = 2 * f[i - 1] + NextBit(format, d, o, n, i)
  BY <1>8 DEF NextBit
<1> QED
  BY <1>7, <1>10, <1>11 DEF Shifts

\* After a bits, Slice takes c bits of the byte j, from the one below h down.
Reaches(format, o, n, a, c, j, h) ==
    /\ a \in Nat /\ c \in Nat /\ a + c <= n /\ j \in 0..7 /\ h \in c..8
    /\ IF format = "motorola" THEN o + a = 8 * j + (8 - h) ELSE o + n - a = 8 * j + h

\* c bits of x, from the one below h down, have been shifted in after a others.
Taken(f, a, c, x, h) == \A i \in 1..c : f[a + i] = 2 * f[(a + i) - 1] + Bit(x, h - i)

\* The bits of a byte have been taken, after a whole number.
TakenOf(f, a, c, x, h) ==
    Taken(f, a, c, x, h) /\ f[a] \in Int /\ x \in 0..255 /\ a \in Nat

\* Where a byte's bits are taken.
LEMMA Takes ==
    ASSUME NEW format, NEW d, NEW o, NEW n, NEW f, Shifts(f, format, d, o, n),
           NEW a, NEW c, NEW j, NEW h, Reaches(format, o, n, a, c, j, h)
    PROVE  TakenOf(f, a, c, d[j], h)
<1>1. /\ d \in Bytes8 /\ o \in Nat /\ n \in Nat /\ f \in [0..n -> Int]
      /\ \A i \in 1..n : f[i] = 2 * f[i - 1] + NextBit(format, d, o, n, i)
  BY DEF Shifts
<1>2. a \in Nat /\ c \in Nat /\ a + c <= n /\ j \in 0..7 /\ h \in c..8
  BY DEF Reaches
<1>3. ASSUME NEW i \in 1..c
      PROVE  f[a + i] = 2 * f[(a + i) - 1] + Bit(d[j], h - i)
  <2>1. f[a + i] = 2 * f[(a + i) - 1] + NextBit(format, d, o, n, a + i)
    <3>1. a + i \in 1..n
      BY <1>1, <1>2
    <3> QED
      BY <1>1, <3>1
  <2>2. \A q \in 0..7 : (8 * j + q) \div 8 = j /\ (8 * j + q) % 8 = q
    BY <1>2
  <2>3. CASE format = "motorola"
    <3>1. o + (a + i) - 1 = 8 * j + (7 - (h - i)) /\ 7 - (h - i) \in 0..7
      BY <1>1, <1>2, <2>3 DEF Reaches
    <3>2. 7 - (7 - (h - i)) = h - i
      BY <1>2
    <3>3. BitAt(format, d, 8 * j + (7 - (h - i))) = Bit(d[j], h - i)
      BY <2>2, <2>3, <3>1, <3>2 DEF BitAt
    <3> QED
      BY <2>1, <2>3, <3>1, <3>3 DEF NextBit
  <2>4. CASE format # "motorola"
    <3>1. o + n - (a + i) = 8 * j + (h - i) /\ h - i \in 0..7
      BY <1>1, <1>2, <2>4 DEF Reaches
    <3>2. BitAt(format, d, 8 * j + (h - i)) = Bit(d[j], h - i)
      BY <2>2, <2>4, <3>1 DEF BitAt
    <3> QED
      BY <2>1, <2>4, <3>1, <3>2 DEF NextBit
  <2> QED
    BY <2>3, <2>4
<1>4. f[a] \in Int /\ d[j] \in 0..255
  <2>1. a \in 0..n
    BY <1>1, <1>2
  <2> QED
    BY <1>1, <1>2, <2>1 DEF Bytes8
<1> QED
  BY <1>2, <1>3, <1>4 DEF Taken, TakenOf

\* A byte's halves are the sums of their bits.
LEMMA HalvesOfBits ==
    ASSUME NEW x \in 0..255
    PROVE  /\ x \div 16 = 8 * ((x \div 128) % 2) + 4 * ((x \div 64) % 2)
                          + 2 * ((x \div 32) % 2) + ((x \div 16) % 2)
           /\ x % 16 = 8 * ((x \div 8) % 2) + 4 * ((x \div 4) % 2)
                       + 2 * ((x \div 2) % 2) + (x % 2)
<1>1. x \div 16 = 8 * ((x \div 128) % 2) + 4 * ((x \div 64) % 2)
                 + 2 * ((x \div 32) % 2) + ((x \div 16) % 2)
  BY SMTT(40)
<1>2. x % 16 = 8 * ((x \div 8) % 2) + 4 * ((x \div 4) % 2) + 2 * ((x \div 2) % 2) + (x % 2)
  BY SMTT(40)
<1> QED
  BY <1>1, <1>2

\* The half of a byte shifted in.
LEMMA FourBits ==
    ASSUME NEW f, NEW a \in Nat, f[a] \in Int, NEW x \in 0..255
    PROVE  /\ Taken(f, a, 4, x, 8) => f[a + 4] = 16 * f[a] + (x \div 16)
           /\ Taken(f, a, 4, x, 4) => f[a + 4] = 16 * f[a] + (x % 16)
<1>1. ASSUME Taken(f, a, 4, x, 8)
      PROVE  f[a + 4] = 16 * f[a] + (x \div 16)
  <2>1. /\ f[a + 1] = 2 * f[a] + ((x \div 128) % 2)
        /\ f[a + 2] = 2 * f[a + 1] + ((x \div 64) % 2)
        /\ f[a + 3] = 2 * f[a + 2] + ((x \div 32) % 2)
        /\ f[a + 4] = 2 * f[a + 3] + ((x \div 16) % 2)
    BY <1>1 DEF Taken, Bit
  <2> DEFINE b1 == ((x \div 128) % 2)
             b2 == ((x \div 64) % 2)
             b3 == ((x \div 32) % 2)
             b4 == ((x \div 16) % 2)
  <2>2. b1 \in Int /\ b2 \in Int /\ b3 \in Int /\ b4 \in Int
    OBVIOUS
  <2>3. x \div 16 = 8 * b1 + 4 * b2 + 2 * b3 + b4
    BY HalvesOfBits
  <2> HIDE DEF b1, b2, b3, b4
  <2>4. f[a + 1] = 2 * f[a] + b1 /\ f[a + 1] \in Int
    BY <2>1, <2>2 DEF b1
  <2>5. f[a + 2] = 4 * f[a] + (2 * b1 + b2) /\ f[a + 2] \in Int
    BY <2>1, <2>2, <2>4 DEF b2
  <2>6. f[a + 3] = 8 * f[a] + (4 * b1 + 2 * b2 + b3) /\ f[a + 3] \in Int
    BY <2>1, <2>2, <2>5 DEF b3
  <2>7. f[a + 4] = 16 * f[a] + (8 * b1 + 4 * b2 + 2 * b3 + b4)
    BY <2>1, <2>2, <2>6 DEF b4
  <2> QED
    BY <2>2, <2>3, <2>7
<1>2. ASSUME Taken(f, a, 4, x, 4)
      PROVE  f[a + 4] = 16 * f[a] + (x % 16)
  <2>1. /\ f[a + 1] = 2 * f[a] + ((x \div 8) % 2)
        /\ f[a + 2] = 2 * f[a + 1] + ((x \div 4) % 2)
        /\ f[a + 3] = 2 * f[a + 2] + ((x \div 2) % 2)
        /\ f[a + 4] = 2 * f[a + 3] + (x % 2)
    BY <1>2 DEF Taken, Bit
  <2> DEFINE b1 == ((x \div 8) % 2)
             b2 == ((x \div 4) % 2)
             b3 == ((x \div 2) % 2)
             b4 == (x % 2)
  <2>2. b1 \in Int /\ b2 \in Int /\ b3 \in Int /\ b4 \in Int
    OBVIOUS
  <2>3. x % 16 = 8 * b1 + 4 * b2 + 2 * b3 + b4
    BY HalvesOfBits
  <2> HIDE DEF b1, b2, b3, b4
  <2>4. f[a + 1] = 2 * f[a] + b1 /\ f[a + 1] \in Int
    BY <2>1, <2>2 DEF b1
  <2>5. f[a + 2] = 4 * f[a] + (2 * b1 + b2) /\ f[a + 2] \in Int
    BY <2>1, <2>2, <2>4 DEF b2
  <2>6. f[a + 3] = 8 * f[a] + (4 * b1 + 2 * b2 + b3) /\ f[a + 3] \in Int
    BY <2>1, <2>2, <2>5 DEF b3
  <2>7. f[a + 4] = 16 * f[a] + (8 * b1 + 4 * b2 + 2 * b3 + b4)
    BY <2>1, <2>2, <2>6 DEF b4
  <2> QED
    BY <2>2, <2>3, <2>7
<1> QED
  BY <1>1, <1>2

\* All of a byte shifted in, its upper half first.
LEMMA EightBits ==
    ASSUME NEW f, NEW a \in Nat, f[a] \in Int, NEW x \in 0..255,
           Taken(f, a, 8, x, 8)
    PROVE  f[a + 8] = 256 * f[a] + x
<1>1. f[a + 4] = 16 * f[a] + (x \div 16)
  <2>1. Taken(f, a, 4, x, 8)
    BY DEF Taken
  <2> QED
    BY <2>1, FourBits
<1>2. f[a + 4] \in Int /\ a + 4 \in Nat
  BY <1>1
<1>3. Taken(f, a + 4, 4, x, 4)
  <2>1. ASSUME NEW i \in 1..4
        PROVE  f[(a + 4) + i] = 2 * f[((a + 4) + i) - 1] + Bit(x, 4 - i)
    <3>1. i + 4 \in 1..8 /\ (a + 4) + i = a + (i + 4) /\ 8 - (i + 4) = 4 - i
      OBVIOUS
    <3> QED
      BY <3>1 DEF Taken
  <2> QED
    BY <2>1 DEF Taken
<1>4. f[(a + 4) + 4] = 16 * f[a + 4] + (x % 16)
  BY <1>2, <1>3, FourBits
<1>5. x = 16 * (x \div 16) + (x % 16) /\ (a + 4) + 4 = a + 8
  OBVIOUS
<1> QED
  BY <1>1, <1>4, <1>5

\* A byte as Slice comes to it.
LEMMA TakesByte ==
    ASSUME NEW format, NEW d, NEW o, NEW n, NEW f, Shifts(f, format, d, o, n),
           NEW a, NEW j, Reaches(format, o, n, a, 8, j, 8)
    PROVE  f[a + 8] = 256 * f[a] + d[j]
<1>1. TakenOf(f, a, 8, d[j], 8)
  BY Takes, Zenon
<1> QED
  BY <1>1, EightBits DEF TakenOf

\* Its upper half.
LEMMA TakesHigh ==
    ASSUME NEW format, NEW d, NEW o, NEW n, NEW f, Shifts(f, format, d, o, n),
           NEW a, NEW j, Reaches(format, o, n, a, 4, j, 8)
    PROVE  f[a + 4] = 16 * f[a] + (d[j] \div 16)
<1>1. TakenOf(f, a, 4, d[j], 8)
  BY Takes, Zenon
<1> QED
  BY <1>1, FourBits DEF TakenOf

\* Its lower half.
LEMMA TakesLow ==
    ASSUME NEW format, NEW d, NEW o, NEW n, NEW f, Shifts(f, format, d, o, n),
           NEW a, NEW j, Reaches(format, o, n, a, 4, j, 4)
    PROVE  f[a + 4] = 16 * f[a] + (d[j] % 16)
<1>1. TakenOf(f, a, 4, d[j], 4)
  BY Takes, Zenon
<1> QED
  BY <1>1, FourBits DEF TakenOf

\* A field of one byte.
LEMMA OneByte ==
    ASSUME NEW format, NEW d \in Bytes8, NEW j \in 0..7
    PROVE  Slice(format, d, 8 * j, 8) = d[j]
<1> DEFINE o == 8 * j
<1>1. o \in Nat /\ 8 \in Nat /\ o + 8 <= 64 /\ 0 \in Nat /\ 0 + 8 <= 8
  OBVIOUS
<1>2. PICK f : Shifts(f, format, d, o, 8) /\ Slice(format, d, o, 8) = f[8]
  <2>1. Within(o, 8)
    BY <1>1 DEF Within
  <2> QED
    BY <2>1, Sliced
<1>3. Reaches(format, o, 8, 0, 8, j, 8)
  BY DEF Reaches
<1> HIDE DEF o
<1>4. f[0 + 8] = 256 * f[0] + d[j]
  BY <1>2, <1>3, TakesByte
<1>5. f[0] = 0 /\ d[j] \in Int
  BY <1>2 DEF Shifts, Bytes8
<1> QED
  BY <1>2, <1>4, <1>5 DEF o

\* A field of two bytes.
LEMMA TwoBytes ==
    ASSUME NEW format, NEW d \in Bytes8, NEW j \in 0..6
    PROVE  Slice(format, d, 8 * j, 16) =
               IF format = "motorola" THEN U16(d, j) ELSE U16Le(d, j)
<1> DEFINE o == 8 * j
<1>1. /\ o \in Nat /\ 16 \in Nat /\ o + 16 <= 64
      /\ j \in 0..7 /\ j + 1 \in 0..7
  OBVIOUS
<1>2. PICK f : Shifts(f, format, d, o, 16) /\ Slice(format, d, o, 16) = f[16]
  <2>1. Within(o, 16)
    BY <1>1 DEF Within
  <2> QED
    BY <2>1, Sliced
<1>3. f[0] = 0 /\ d[j] \in 0..255 /\ d[j + 1] \in 0..255
  BY <1>1, <1>2 DEF Shifts, Bytes8
<1> HIDE DEF o
<1>4. CASE format = "motorola"
  <2>1. /\ Reaches(format, o, 16, 0, 8, j, 8)
        /\ Reaches(format, o, 16, 8, 8, j + 1, 8)
    BY <1>1, <1>4 DEF Reaches, o
  <2>2. f[0 + 8] = 256 * f[0] + d[j]
    BY <1>2, <2>1, TakesByte
  <2>3. f[8 + 8] = 256 * f[8] + d[j + 1]
    BY <1>2, <2>1, TakesByte
  <2>4. f[16] = d[j] * 256 + d[j + 1]
    BY <1>3, <2>2, <2>3
  <2> QED
    BY <1>2, <1>4, <2>4 DEF U16, o
<1>5. CASE format # "motorola"
  <2>1. /\ Reaches(format, o, 16, 0, 8, j + 1, 8)
        /\ Reaches(format, o, 16, 8, 8, j, 8)
    BY <1>1, <1>5 DEF Reaches, o
  <2>2. f[0 + 8] = 256 * f[0] + d[j + 1]
    BY <1>2, <2>1, TakesByte
  <2>3. f[8 + 8] = 256 * f[8] + d[j]
    BY <1>2, <2>1, TakesByte
  <2>4. f[16] = d[j + 1] * 256 + d[j]
    BY <1>3, <2>2, <2>3
  <2> QED
    BY <1>2, <1>5, <2>4 DEF U16Le, o
<1> QED
  BY <1>4, <1>5

\* Twenty bits from a byte's beginning on.
LEMMA TwentyBits ==
    ASSUME NEW format, NEW d \in Bytes8, NEW j \in 0..5
    PROVE  Slice(format, d, 8 * j, 20) =
               IF format = "motorola" THEN FromHigh(d, j) ELSE UpToLowMasked(d, j)
<1> DEFINE o == 8 * j
<1>1. /\ o \in Nat /\ 20 \in Nat /\ o + 20 <= 64
      /\ j \in 0..7 /\ j + 1 \in 0..7 /\ j + 2 \in 0..7
  OBVIOUS
<1>2. PICK f : Shifts(f, format, d, o, 20) /\ Slice(format, d, o, 20) = f[20]
  <2>1. Within(o, 20)
    BY <1>1 DEF Within
  <2> QED
    BY <2>1, Sliced
<1>3. f[0] = 0 /\ d[j] \in 0..255 /\ d[j + 1] \in 0..255 /\ d[j + 2] \in 0..255
  BY <1>1, <1>2 DEF Shifts, Bytes8
<1> HIDE DEF o
<1>4. CASE format = "motorola"
  <2>1. /\ Reaches(format, o, 20, 0, 8, j, 8)
        /\ Reaches(format, o, 20, 8, 8, j + 1, 8)
        /\ Reaches(format, o, 20, 16, 4, j + 2, 8)
    BY <1>1, <1>4 DEF Reaches, o
  <2>2. f[0 + 8] = 256 * f[0] + d[j]
    BY <1>2, <2>1, TakesByte
  <2>3. f[8 + 8] = 256 * f[8] + d[j + 1]
    BY <1>2, <2>1, TakesByte
  <2>4. f[16 + 4] = 16 * f[16] + (d[j + 2] \div 16)
    BY <1>2, <2>1, TakesHigh
  <2> DEFINE p == d[j]
             q == d[j + 1]
             r == d[j + 2] \div 16
  <2>5. p \in 0..255 /\ q \in 0..255 /\ r \in 0..255
    BY <1>3
  <2>6. f[8] = p /\ f[16] = 256 * f[8] + q /\ f[20] = 16 * f[16] + r
    BY <1>3, <2>2, <2>3, <2>4
  <2> HIDE DEF p, q, r
  <2>7. f[20] = p * 2^12 + q * 16 + r
    BY <2>5, <2>6
  <2> QED
    BY <1>2, <1>4, <2>7 DEF FromHigh, p, q, r, o
<1>5. CASE format # "motorola"
  <2>1. /\ Reaches(format, o, 20, 0, 4, j + 2, 4)
        /\ Reaches(format, o, 20, 4, 8, j + 1, 8)
        /\ Reaches(format, o, 20, 12, 8, j, 8)
    BY <1>1, <1>5 DEF Reaches, o
  <2>2. f[0 + 4] = 16 * f[0] + (d[j + 2] % 16)
    BY <1>2, <2>1, TakesLow
  <2>3. f[4 + 8] = 256 * f[4] + d[j + 1]
    BY <1>2, <2>1, TakesByte
  <2>4. f[12 + 8] = 256 * f[12] + d[j]
    BY <1>2, <2>1, TakesByte
  <2> DEFINE p == d[j + 2] % 16
             q == d[j + 1]
             r == d[j]
  <2>5. p \in 0..255 /\ q \in 0..255 /\ r \in 0..255
    BY <1>3
  <2>6. f[4] = p /\ f[12] = 256 * f[4] + q /\ f[20] = 256 * f[12] + r
    BY <1>3, <2>2, <2>3, <2>4
  <2> HIDE DEF p, q, r
  <2>7. f[20] = p * 2^16 + q * 256 + r
    BY <2>5, <2>6
  <2> QED
    BY <1>2, <1>5, <2>7 DEF UpToLowMasked, p, q, r, o
<1> QED
  BY <1>4, <1>5

\* Twenty bits from a byte's middle on.
LEMMA TwentyFurther ==
    ASSUME NEW format, NEW d \in Bytes8, NEW j \in 0..5
    PROVE  Slice(format, d, 8 * j + 4, 20) =
               IF format = "motorola" THEN FromLow(d, j) ELSE UpToHigh(d, j)
<1> DEFINE o == 8 * j + 4
<1>1. /\ o \in Nat /\ 20 \in Nat /\ o + 20 <= 64
      /\ j \in 0..7 /\ j + 1 \in 0..7 /\ j + 2 \in 0..7
  OBVIOUS
<1>2. PICK f : Shifts(f, format, d, o, 20) /\ Slice(format, d, o, 20) = f[20]
  <2>1. Within(o, 20)
    BY <1>1 DEF Within
  <2> QED
    BY <2>1, Sliced
<1>3. f[0] = 0 /\ d[j] \in 0..255 /\ d[j + 1] \in 0..255 /\ d[j + 2] \in 0..255
  BY <1>1, <1>2 DEF Shifts, Bytes8
<1> HIDE DEF o
<1>4. CASE format = "motorola"
  <2>1. /\ Reaches(format, o, 20, 0, 4, j, 4)
        /\ Reaches(format, o, 20, 4, 8, j + 1, 8)
        /\ Reaches(format, o, 20, 12, 8, j + 2, 8)
    BY <1>1, <1>4 DEF Reaches, o
  <2>2. f[0 + 4] = 16 * f[0] + (d[j] % 16)
    BY <1>2, <2>1, TakesLow
  <2>3. f[4 + 8] = 256 * f[4] + d[j + 1]
    BY <1>2, <2>1, TakesByte
  <2>4. f[12 + 8] = 256 * f[12] + d[j + 2]
    BY <1>2, <2>1, TakesByte
  <2> DEFINE p == d[j] % 16
             q == d[j + 1]
             r == d[j + 2]
  <2>5. p \in 0..255 /\ q \in 0..255 /\ r \in 0..255
    BY <1>3
  <2>6. f[4] = p /\ f[12] = 256 * f[4] + q /\ f[20] = 256 * f[12] + r
    BY <1>3, <2>2, <2>3, <2>4
  <2> HIDE DEF p, q, r
  <2>7. f[20] = p * 2^16 + q * 256 + r
    BY <2>5, <2>6
  <2> QED
    BY <1>2, <1>4, <2>7 DEF FromLow, p, q, r, o
<1>5. CASE format # "motorola"
  <2>1. /\ Reaches(format, o, 20, 0, 8, j + 2, 8)
        /\ Reaches(format, o, 20, 8, 8, j + 1, 8)
        /\ Reaches(format, o, 20, 16, 4, j, 8)
    BY <1>1, <1>5 DEF Reaches, o
  <2>2. f[0 + 8] = 256 * f[0] + d[j + 2]
    BY <1>2, <2>1, TakesByte
  <2>3. f[8 + 8] = 256 * f[8] + d[j + 1]
    BY <1>2, <2>1, TakesByte
  <2>4. f[16 + 4] = 16 * f[16] + (d[j] \div 16)
    BY <1>2, <2>1, TakesHigh
  <2> DEFINE p == d[j + 2]
             q == d[j + 1]
             r == d[j] \div 16
  <2>5. p \in 0..255 /\ q \in 0..255 /\ r \in 0..255
    BY <1>3
  <2>6. f[8] = p /\ f[16] = 256 * f[8] + q /\ f[20] = 16 * f[16] + r
    BY <1>3, <2>2, <2>3, <2>4
  <2> HIDE DEF p, q, r
  <2>7. f[20] = p * 2^12 + q * 16 + r
    BY <2>5, <2>6
  <2> QED
    BY <1>2, <1>5, <2>7 DEF UpToHigh, p, q, r, o
<1> QED
  BY <1>4, <1>5

-----------------------------------------------------------------------------
(* The fields of the layout *)

\* The parts of a field.
LEMMA FieldFacts ==
    ASSUME NEW o, NEW n, NEW sign
    PROVE  /\ Field(o, n, sign).offset = o /\ Field(o, n, sign).length = n
           /\ Field(o, n, sign).sign = sign
  BY DEF Field

\* What is read of a narrow field.
LEMMA NarrowRead ==
    ASSUME NEW format, NEW d, NEW o, NEW n \in 0..20, NEW sign \in BOOLEAN
    PROVE  Read(format, d, Field(o, n, sign)) =
               IF sign THEN Signed(n, Slice(format, d, o, n)) ELSE Slice(format, d, o, n)
  BY FieldFacts DEF Read

\* What is read of a wide field: its bytes.
LEMMA WideRead ==
    ASSUME NEW format, NEW d \in Bytes8, NEW i \in 0..7, NEW n \in 3..8, i + n <= 8
    PROVE  Read(format, d, Field(8 * i, 8 * n, FALSE)) =
               IF format = "motorola" THEN Upward(d, i, n) ELSE Downward(d, i, n)
<1> DEFINE At(k) == IF format = "motorola" THEN 8 * i + 8 * (k - 1) ELSE 8 * i + 8 * n - 8 * k
<1>1. /\ Field(8 * i, 8 * n, FALSE).offset = 8 * i
      /\ Field(8 * i, 8 * n, FALSE).length = 8 * n
  BY DEF Field
<1>2. ~(8 * n <= 20) /\ (8 * n) \div 8 = n
  OBVIOUS
<1>3. Read(format, d, Field(8 * i, 8 * n, FALSE)) = [k \in 1..n |-> Slice(format, d, At(k), 8)]
  BY <1>1, <1>2 DEF Read
<1>4. CASE format = "motorola"
  <2>1. ASSUME NEW k \in 1..n PROVE Slice(format, d, At(k), 8) = d[i + k - 1]
    <3>1. i + k - 1 \in 0..7 /\ At(k) = 8 * (i + k - 1)
      BY <1>4
    <3> HIDE DEF At
    <3> QED
      BY <3>1, OneByte
  <2> HIDE DEF At
  <2> QED
    BY <1>3, <1>4, <2>1 DEF Upward
<1>5. CASE format # "motorola"
  <2>1. ASSUME NEW k \in 1..n PROVE Slice(format, d, At(k), 8) = d[i + n - k]
    <3>1. i + n - k \in 0..7 /\ At(k) = 8 * (i + n - k)
      BY <1>5
    <3> HIDE DEF At
    <3> QED
      BY <3>1, OneByte
  <2> HIDE DEF At
  <2> QED
    BY <1>3, <1>5, <2>1 DEF Downward
<1> QED
  BY <1>4, <1>5

\* The upper bits of the first byte or half are the sign's, and nothing else is left.
LEMMA SignHigh ==
    ASSUME NEW x \in 0..255, NEW y \in 0..255, NEW z \in 0..255
    PROVE  SignFill(x * 2^12 + y * 2^4 + (z \div 2^4), Bit(x, 7)) =
               Signed(20, x * 2^12 + y * 2^4 + (z \div 2^4))
<1> DEFINE v == x * 2^12 + y * 2^4 + (z \div 2^4)
<1>1. v \in 0..(2^20 - 1) /\ ((x \div 128) % 2 = 1 <=> v >= 2^19)
  OBVIOUS
<1> HIDE DEF v
<1>2. v % 2^20 = v /\ v \in Int
  BY <1>1
<1>3. SignFill(v, Bit(x, 7)) = Signed(20, v)
  BY <1>1, <1>2 DEF SignFill, Signed, Bit
<1> QED
  BY <1>3 DEF v

\* The same of a field whose first half is a byte's lower one; the bits that the
\* intel decoder shifts in too many are gone.
LEMMA SignLow ==
    ASSUME NEW x \in 0..255, NEW y \in 0..255, NEW z \in 0..255
    PROVE  /\ SignFill((x % 2^4) * 2^16 + y * 2^8 + z, Bit(x, 3)) =
                  Signed(20, (x % 2^4) * 2^16 + y * 2^8 + z)
           /\ SignFill(x * 2^16 + y * 2^8 + z, Bit(x, 3)) =
                  Signed(20, (x % 2^4) * 2^16 + y * 2^8 + z)
<1> DEFINE v == (x % 2^4) * 2^16 + y * 2^8 + z
           w == x * 2^16 + y * 2^8 + z
<1>1. v \in 0..(2^20 - 1) /\ ((x \div 8) % 2 = 1 <=> v >= 2^19)
  OBVIOUS
<1>2. w = 2^20 * (x \div 2^4) + v /\ x \div 2^4 \in Int
  OBVIOUS
<1>3. w \in Int
  OBVIOUS
<1> HIDE DEF v, w
<1>4. v % 2^20 = v /\ w % 2^20 = v /\ v \in Int
  BY <1>1, <1>2
<1>5. SignFill(v, Bit(x, 3)) = Signed(20, v) /\ SignFill(w, Bit(x, 3)) = Signed(20, v)
  BY <1>1, <1>3, <1>4 DEF SignFill, Signed, Bit
<1> QED
  BY <1>5 DEF v, w

\* Sums have a recursion's form.
LEMMA Sums ==
    ASSUME NEW n \in Nat, NEW b \in [1..n -> Int]
    PROVE  \E f \in [1..n -> Int] : \A i \in 1..n : f[i] = From(f, 1, b, 1, i)
<1>1. 1 \in Nat /\ 1 \in Int
  OBVIOUS
<1> QED
  BY <1>1, Recursion, Zenon

\* Where the fields of a frame start, and that each follows the one before it.
LEMMA Follows ==
    ASSUME NEW lengths \in Seq(Int), NEW n \in Nat \ {0}, Len(lengths) = n
    PROVE  \E start \in [1..n -> Int] :
             /\ start[1] = 0 /\ \A i \in 2..n : start[i] = start[i - 1] + lengths[i - 1]
             /\ Unsigned(lengths) = [i \in 1..n |-> Field(start[i], lengths[i], FALSE)]
<1> DEFINE b == [i \in 1..n |-> IF i = 1 THEN 0 ELSE lengths[i - 1]]
           StartOf(f, i) == IF i = 1 THEN 0 ELSE f[i - 1] + lengths[i - 1]
           f == CHOOSE v : v = [i \in 1..Len(lengths) |-> StartOf(v, i)]
<1>1. DOMAIN lengths = 1..n /\ \A i \in 1..n : lengths[i] \in Int
  BY LenProperties, ElementOfSeq
<1>2. b \in [1..n -> Int] /\ \A i \in 2..n : b[i] = lengths[i - 1]
  <2>1. \A i \in 1..n : i = 1 \/ i - 1 \in 1..n
    OBVIOUS
  <2>2. \A i \in 1..n : b[i] \in Int
    BY <1>1, <2>1
  <2> QED
    BY <2>2
<1> HIDE DEF b
<1>3. PICK v \in [1..n -> Int] : \A i \in 1..n : v[i] = From(v, 1, b, 1, i)
  BY <1>2, Sums
<1>4. \A i \in 1..n : v[i] = StartOf(v, i)
  <2> SUFFICES ASSUME NEW i \in 1..n PROVE v[i] = StartOf(v, i)
    OBVIOUS
  <2>1. CASE i = 1
    BY <1>3, <2>1 DEF From
  <2>2. CASE i # 1
    <3>1. i \in 2..n /\ i - 1 \in 1..n
      BY <2>2
    <3>2. v[i] = 1 * v[i - 1] + lengths[i - 1]
      BY <1>2, <1>3, <2>2, <3>1 DEF From
    <3>3. v[i - 1] \in Int
      BY <3>1
    <3> QED
      BY <2>2, <3>2, <3>3
  <2> QED
    BY <2>1, <2>2
<1>5. f = [i \in 1..Len(lengths) |-> StartOf(f, i)]
  <2>1. v = [i \in 1..Len(lengths) |-> StartOf(v, i)]
    <3> HIDE DEF StartOf
    <3> QED
      BY <1>4
  <2>2. \E w : w = [i \in 1..Len(lengths) |-> StartOf(w, i)]
    BY <2>1, Zenon
  <2> QED
    BY <2>2, Zenon
<1>6. Unsigned(lengths) = [i \in DOMAIN lengths |-> Field(f[i], lengths[i], FALSE)]
  BY DEF Unsigned
<1> HIDE DEF f
<1>7. \A i \in 1..n : f[i] = StartOf(f, i)
  <2> HIDE DEF StartOf
  <2> QED
    BY <1>5
<1> DEFINE R == {k \in Nat : k + 1 <= n => f[k + 1] \in Int}
<1>8. Nat \subseteq R
  <2>1. 0 \in R
    BY <1>7
  <2>2. ASSUME NEW k \in R PROVE k + 1 \in R
    <3> SUFFICES ASSUME (k + 1) + 1 <= n PROVE f[(k + 1) + 1] \in Int
      OBVIOUS
    <3>1. /\ k \in Nat /\ k + 1 \in 1..n /\ (k + 1) + 1 \in 1..n /\ (k + 1) + 1 # 1
          /\ ((k + 1) + 1) - 1 = k + 1
      OBVIOUS
    <3>2. f[k + 1] \in Int /\ lengths[k + 1] \in Int
      BY <1>1, <3>1
    <3>3. f[(k + 1) + 1] = f[k + 1] + lengths[k + 1]
      BY <1>7, <3>1
    <3> QED
      BY <3>2, <3>3
  <2>3. R \in SUBSET Nat
    OBVIOUS
  <2> HIDE DEF R
  <2> QED
    BY <2>1, <2>2, <2>3, SetInduction, Zenon
<1>9. \A i \in 1..n : f[i] \in Int
  <2>1. \A i \in 1..n : i - 1 \in Nat /\ (i - 1) + 1 = i /\ i <= n
    OBVIOUS
  <2> SUFFICES ASSUME NEW i \in 1..n PROVE f[i] \in Int
    OBVIOUS
  <2>2. i - 1 \in R
    BY <1>8, <2>1, Zenon
  <2> QED
    BY <2>1, <2>2
<1>10. f \in [1..n -> Int]
  <2>1. f = [i \in 1..n |-> f[i]]
    <3> HIDE DEF StartOf
    <3> QED
      BY <1>5
  <2> QED
    BY <1>9, <2>1
<1>11. f[1] = 0 /\ \A i \in 2..n : f[i] = f[i - 1] + lengths[i - 1]
  BY <1>7
<1> QED
  BY <1>1, <1>6, <1>10, <1>11

\* The layouts, field by field.
LEMMA ThreeFields ==
    /\ DOMAIN Unsigned(<<20, 20, 20>>) = 1..3
    /\ Unsigned(<<20, 20, 20>>)[1] = Field(0, 20, FALSE)
    /\ Unsigned(<<20, 20, 20>>)[2] = Field(20, 20, FALSE)
    /\ Unsigned(<<20, 20, 20>>)[3] = Field(40, 20, FALSE)
<1> DEFINE lengths == <<20, 20, 20>>
<1>1. /\ lengths \in Seq(Int) /\ Len(lengths) = 3 /\ 3 \in Nat \ {0}
      /\ lengths[1] = 20 /\ lengths[2] = 20 /\ lengths[3] = 20
  OBVIOUS
<1> HIDE DEF lengths
<1>2. PICK start \in [1..3 -> Int] :
        /\ start[1] = 0 /\ \A i \in 2..3 : start[i] = start[i - 1] + lengths[i - 1]
        /\ Unsigned(lengths) = [i \in 1..3 |-> Field(start[i], lengths[i], FALSE)]
  BY <1>1, Follows
<1>3. start[2] = 20
  BY <1>1, <1>2
<1>4. start[3] = 40
  BY <1>1, <1>2, <1>3
<1>5. /\ DOMAIN Unsigned(lengths) = 1..3
      /\ Unsigned(lengths)[1] = Field(start[1], lengths[1], FALSE)
      /\ Unsigned(lengths)[2] = Field(start[2], lengths[2], FALSE)
      /\ Unsigned(lengths)[3] = Field(start[3], lengths[3], FALSE)
  <2>1. 1 \in 1..3 /\ 2 \in 1..3 /\ 3 \in 1..3
    OBVIOUS
  <2> QED
    BY <1>2, <2>1, Zenon
<1> QED
  BY <1>1, <1>2, <1>3, <1>4, <1>5, Zenon DEF lengths

\* Three fields of sixteen bits.
LEMMA ThreeShortFields ==
    /\ DOMAIN Unsigned(<<16, 16, 16>>) = 1..3
    /\ Unsigned(<<16, 16, 16>>)[1] = Field(0, 16, FALSE)
    /\ Unsigned(<<16, 16, 16>>)[2] = Field(16, 16, FALSE)
    /\ Unsigned(<<16, 16, 16>>)[3] = Field(32, 16, FALSE)
<1> DEFINE lengths == <<16, 16, 16>>
<1>1. /\ lengths \in Seq(Int) /\ Len(lengths) = 3 /\ 3 \in Nat \ {0}
      /\ lengths[1] = 16 /\ lengths[2] = 16 /\ lengths[3] = 16
  OBVIOUS
<1> HIDE DEF lengths
<1>2. PICK start \in [1..3 -> Int] :
        /\ start[1] = 0 /\ \A i \in 2..3 : start[i] = start[i - 1] + lengths[i - 1]
        /\ Unsigned(lengths) = [i \in 1..3 |-> Field(start[i], lengths[i], FALSE)]
  BY <1>1, Follows
<1>3. start[2] = 16
  BY <1>1, <1>2
<1>4. start[3] = 32
  BY <1>1, <1>2, <1>3
<1>5. /\ DOMAIN Unsigned(lengths) = 1..3
      /\ Unsigned(lengths)[1] = Field(start[1], lengths[1], FALSE)
      /\ Unsigned(lengths)[2] = Field(start[2], lengths[2], FALSE)
      /\ Unsigned(lengths)[3] = Field(start[3], lengths[3], FALSE)
  <2>1. 1 \in 1..3 /\ 2 \in 1..3 /\ 3 \in 1..3
    OBVIOUS
  <2> QED
    BY <1>2, <2>1, Zenon
<1> QED
  BY <1>1, <1>2, <1>3, <1>4, <1>5, Zenon DEF lengths

\* Four fields of sixteen bits.
LEMMA FourFields ==
    /\ DOMAIN Unsigned(<<16, 16, 16, 16>>) = 1..4
    /\ Unsigned(<<16, 16, 16, 16>>)[1] = Field(0, 16, FALSE)
    /\ Unsigned(<<16, 16, 16, 16>>)[2] = Field(16, 16, FALSE)
    /\ Unsigned(<<16, 16, 16, 16>>)[3] = Field(32, 16, FALSE)
    /\ Unsigned(<<16, 16, 16, 16>>)[4] = Field(48, 16, FALSE)
<1> DEFINE lengths == <<16, 16, 16, 16>>
<1>1. /\ lengths \in Seq(Int) /\ Len(lengths) = 4 /\ 4 \in Nat \ {0}
      /\ lengths[1] = 16 /\ lengths[2] = 16 /\ lengths[3] = 16 /\ lengths[4] = 16
  OBVIOUS
<1> HIDE DEF lengths
<1>2. PICK start \in [1..4 -> Int] :
        /\ start[1] = 0 /\ \A i \in 2..4 : start[i] = start[i - 1] + lengths[i - 1]
        /\ Unsigned(lengths) = [i \in 1..4 |-> Field(start[i], lengths[i], FALSE)]
  BY <1>1, Follows
<1>3. start[2] = 16
  BY <1>1, <1>2
<1>4. start[3] = 32
  BY <1>1, <1>2, <1>3
<1>5. start[4] = 48
  BY <1>1, <1>2, <1>4
<1>6. /\ DOMAIN Unsigned(lengths) = 1..4
      /\ Unsigned(lengths)[1] = Field(start[1], lengths[1], FALSE)
      /\ Unsigned(lengths)[2] = Field(start[2], lengths[2], FALSE)
      /\ Unsigned(lengths)[3] = Field(start[3], lengths[3], FALSE)
      /\ Unsigned(lengths)[4] = Field(start[4], lengths[4], FALSE)
  <2>1. 1 \in 1..4 /\ 2 \in 1..4 /\ 3 \in 1..4 /\ 4 \in 1..4
    OBVIOUS
  <2> QED
    BY <1>2, <2>1, Zenon
<1> QED
  BY <1>1, <1>2, <1>3, <1>4, <1>5, <1>6, Zenon DEF lengths

\* The week, and the time in it.
LEMMA TimeFields ==
    /\ DOMAIN Unsigned(<<16, 32>>) = 1..2
    /\ Unsigned(<<16, 32>>)[1] = Field(0, 16, FALSE)
    /\ Unsigned(<<16, 32>>)[2] = Field(16, 32, FALSE)
<1> DEFINE lengths == <<16, 32>>
<1>1. /\ lengths \in Seq(Int) /\ Len(lengths) = 2 /\ 2 \in Nat \ {0}
      /\ lengths[1] = 16 /\ lengths[2] = 32
  OBVIOUS
<1> HIDE DEF lengths
<1>2. PICK start \in [1..2 -> Int] :
        /\ start[1] = 0 /\ \A i \in 2..2 : start[i] = start[i - 1] + lengths[i - 1]
        /\ Unsigned(lengths) = [i \in 1..2 |-> Field(start[i], lengths[i], FALSE)]
  BY <1>1, Follows
<1>3. start[2] = 16
  BY <1>1, <1>2
<1>4. /\ DOMAIN Unsigned(lengths) = 1..2
      /\ Unsigned(lengths)[1] = Field(start[1], lengths[1], FALSE)
      /\ Unsigned(lengths)[2] = Field(start[2], lengths[2], FALSE)
  <2>1. 1 \in 1..2 /\ 2 \in 1..2
    OBVIOUS
  <2> QED
    BY <1>2, <2>1, Zenon
<1> QED
  BY <1>1, <1>2, <1>3, <1>4, Zenon DEF lengths

\* Four states, a count of sixteen bits, and two more states.
LEMMA StatusFields ==
    /\ DOMAIN Unsigned(<<8, 8, 8, 8, 16, 8, 8>>) = 1..7
    /\ Unsigned(<<8, 8, 8, 8, 16, 8, 8>>)[1] = Field(0, 8, FALSE)
    /\ Unsigned(<<8, 8, 8, 8, 16, 8, 8>>)[2] = Field(8, 8, FALSE)
    /\ Unsigned(<<8, 8, 8, 8, 16, 8, 8>>)[3] = Field(16, 8, FALSE)
    /\ Unsigned(<<8, 8, 8, 8, 16, 8, 8>>)[4] = Field(24, 8, FALSE)
    /\ Unsigned(<<8, 8, 8, 8, 16, 8, 8>>)[5] = Field(32, 16, FALSE)
    /\ Unsigned(<<8, 8, 8, 8, 16, 8, 8>>)[6] = Field(48, 8, FALSE)
    /\ Unsigned(<<8, 8, 8, 8, 16, 8, 8>>)[7] = Field(56, 8, FALSE)
<1> DEFINE lengths == <<8, 8, 8, 8, 16, 8, 8>>
<1>1. /\ lengths \in Seq(Int) /\ Len(lengths) = 7 /\ 7 \in Nat \ {0}
      /\ lengths[1] = 8 /\ lengths[2] = 8 /\ lengths[3] = 8 /\ lengths[4] = 8
      /\ lengths[5] = 16 /\ lengths[6] = 8 /\ lengths[7] = 8
  OBVIOUS
<1> HIDE DEF lengths
<1>2. PICK start \in [1..7 -> Int] :
        /\ start[1] = 0 /\ \A i \in 2..7 : start[i] = start[i - 1] + lengths[i - 1]
        /\ Unsigned(lengths) = [i \in 1..7 |-> Field(start[i], lengths[i], FALSE)]
  BY <1>1, Follows
<1>3. start[2] = 8
  BY <1>1, <1>2
<1>4. start[3] = 16
  BY <1>1, <1>2, <1>3
<1>5. start[4] = 24
  BY <1>1, <1>2, <1>4
<1>6. start[5] = 32
  BY <1>1, <1>2, <1>5
<1>7. start[6] = 48
  BY <1>1, <1>2, <1>6
<1>8. start[7] = 56
  BY <1>1, <1>2, <1>7
<1>9. /\ DOMAIN Unsigned(lengths) = 1..7
      /\ Unsigned(lengths)[1] = Field(start[1], lengths[1], FALSE)
      /\ Unsigned(lengths)[2] = Field(start[2], lengths[2], FALSE)
      /\ Unsigned(lengths)[3] = Field(start[3], lengths[3], FALSE)
      /\ Unsigned(lengths)[4] = Field(start[4], lengths[4], FALSE)
      /\ Unsigned(lengths)[5] = Field(start[5], lengths[5], FALSE)
      /\ Unsigned(lengths)[6] = Field(start[6], lengths[6], FALSE)
      /\ Unsigned(lengths)[7] = Field(start[7], lengths[7], FALSE)
  <2>1. /\ 1 \in 1..7 /\ 2 \in 1..7 /\ 3 \in 1..7 /\ 4 \in 1..7
        /\ 5 \in 1..7 /\ 6 \in 1..7 /\ 7 \in 1..7
    OBVIOUS
  <2> QED
    BY <1>2, <2>1, Zenon
<1> QED
  BY <1>1, <1>2, <1>3, <1>4, <1>5, <1>6, <1>7, <1>8, <1>9, Zenon DEF lengths

\* One field of four bytes.
LEMMA FourByteField ==
    /\ DOMAIN Unsigned(<<32>>) = 1..1
    /\ Unsigned(<<32>>)[1] = Field(0, 32, FALSE)
<1> DEFINE lengths == <<32>>
<1>1. /\ lengths \in Seq(Int) /\ Len(lengths) = 1 /\ 1 \in Nat \ {0}
      /\ lengths[1] = 32
  OBVIOUS
<1> HIDE DEF lengths
<1>2. PICK start \in [1..1 -> Int] :
        /\ start[1] = 0 /\ \A i \in 2..1 : start[i] = start[i - 1] + lengths[i - 1]
        /\ Unsigned(lengths) = [i \in 1..1 |-> Field(start[i], lengths[i], FALSE)]
  BY <1>1, Follows
<1>3. /\ DOMAIN Unsigned(lengths) = 1..1
      /\ Unsigned(lengths)[1] = Field(start[1], lengths[1], FALSE)
  <2>1. 1 \in 1..1
    OBVIOUS
  <2> QED
    BY <1>2, <2>1, Zenon
<1> QED
  BY <1>1, <1>2, <1>3, Zenon DEF lengths

\* One field of eight.
LEMMA EightByteField ==
    /\ DOMAIN Unsigned(<<64>>) = 1..1
    /\ Unsigned(<<64>>)[1] = Field(0, 64, FALSE)
<1> DEFINE lengths == <<64>>
<1>1. /\ lengths \in Seq(Int) /\ Len(lengths) = 1 /\ 1 \in Nat \ {0}
      /\ lengths[1] = 64
  OBVIOUS
<1> HIDE DEF lengths
<1>2. PICK start \in [1..1 -> Int] :
        /\ start[1] = 0 /\ \A i \in 2..1 : start[i] = start[i - 1] + lengths[i - 1]
        /\ Unsigned(lengths) = [i \in 1..1 |-> Field(start[i], lengths[i], FALSE)]
  BY <1>1, Follows
<1>3. /\ DOMAIN Unsigned(lengths) = 1..1
      /\ Unsigned(lengths)[1] = Field(start[1], lengths[1], FALSE)
  <2>1. 1 \in 1..1
    OBVIOUS
  <2> QED
    BY <1>2, <2>1, Zenon
<1> QED
  BY <1>1, <1>2, <1>3, Zenon DEF lengths

\* Two fields of four.
LEMMA TwoWideFields ==
    /\ DOMAIN Unsigned(<<32, 32>>) = 1..2
    /\ Unsigned(<<32, 32>>)[1] = Field(0, 32, FALSE)
    /\ Unsigned(<<32, 32>>)[2] = Field(32, 32, FALSE)
<1> DEFINE lengths == <<32, 32>>
<1>1. /\ lengths \in Seq(Int) /\ Len(lengths) = 2 /\ 2 \in Nat \ {0}
      /\ lengths[1] = 32 /\ lengths[2] = 32
  OBVIOUS
<1> HIDE DEF lengths
<1>2. PICK start \in [1..2 -> Int] :
        /\ start[1] = 0 /\ \A i \in 2..2 : start[i] = start[i - 1] + lengths[i - 1]
        /\ Unsigned(lengths) = [i \in 1..2 |-> Field(start[i], lengths[i], FALSE)]
  BY <1>1, Follows
<1>3. start[2] = 32
  BY <1>1, <1>2
<1>4. /\ DOMAIN Unsigned(lengths) = 1..2
      /\ Unsigned(lengths)[1] = Field(start[1], lengths[1], FALSE)
      /\ Unsigned(lengths)[2] = Field(start[2], lengths[2], FALSE)
  <2>1. 1 \in 1..2 /\ 2 \in 1..2
    OBVIOUS
  <2> QED
    BY <1>2, <2>1, Zenon
<1> QED
  BY <1>1, <1>2, <1>3, <1>4, Zenon DEF lengths

\* What is read of each kind of field.
LEMMA ReadByte ==
    ASSUME NEW format, NEW d \in Bytes8, NEW j \in 0..7
    PROVE  Read(format, d, Field(8 * j, 8, FALSE)) = d[j]
<1>1. 8 \in 0..20
  OBVIOUS
<1>2. Read(format, d, Field(8 * j, 8, FALSE)) = Slice(format, d, 8 * j, 8)
  BY <1>1, NarrowRead, Zenon
<1> QED
  BY <1>2, OneByte

\* Two bytes, without a sign and with one.
LEMMA ReadTwoBytes ==
    ASSUME NEW format, NEW d \in Bytes8, NEW j \in 0..6
    PROVE  /\ Read(format, d, Field(8 * j, 16, FALSE)) =
                  IF format = "motorola" THEN U16(d, j) ELSE U16Le(d, j)
           /\ Read(format, d, Field(8 * j, 16, TRUE)) =
                  IF format = "motorola" THEN I16(d, j) ELSE I16Le(d, j)
<1>1. 16 \in 0..20
  OBVIOUS
<1>2. /\ Read(format, d, Field(8 * j, 16, FALSE)) = Slice(format, d, 8 * j, 16)
      /\ Read(format, d, Field(8 * j, 16, TRUE)) = Signed(16, Slice(format, d, 8 * j, 16))
  BY <1>1, NarrowRead, Zenon
<1>3. Slice(format, d, 8 * j, 16) = IF format = "motorola" THEN U16(d, j) ELSE U16Le(d, j)
  BY TwoBytes, Zenon
<1> QED
  BY <1>2, <1>3, Zenon DEF I16, I16Le

\* Twenty bits from the beginning of a byte.
LEMMA ReadTwenty ==
    ASSUME NEW format, NEW d \in Bytes8, NEW j \in 0..5
    PROVE  /\ Read(format, d, Field(8 * j, 20, FALSE)) =
                  IF format = "motorola" THEN FromHigh(d, j) ELSE UpToLowMasked(d, j)
           /\ Read(format, d, Field(8 * j, 20, TRUE)) =
                  IF format = "motorola" THEN SignFill(FromHigh(d, j), Bit(d[j], 7))
                  ELSE SignFill(UpToLow(d, j), Bit(d[j + 2], 3))
<1>1. 20 \in 0..20
  OBVIOUS
<1>2. /\ Read(format, d, Field(8 * j, 20, FALSE)) = Slice(format, d, 8 * j, 20)
      /\ Read(format, d, Field(8 * j, 20, TRUE)) = Signed(20, Slice(format, d, 8 * j, 20))
  BY <1>1, NarrowRead, Zenon
<1>3. Slice(format, d, 8 * j, 20) =
          IF format = "motorola" THEN FromHigh(d, j) ELSE UpToLowMasked(d, j)
  BY TwentyBits, Zenon
<1>4. d[j] \in 0..255 /\ d[j + 1] \in 0..255 /\ d[j + 2] \in 0..255
  BY DEF Bytes8
<1>5. SignFill(FromHigh(d, j), Bit(d[j], 7)) = Signed(20, FromHigh(d, j))
  BY <1>4, SignHigh, ZenonT(40) DEF FromHigh
<1>6. SignFill(UpToLow(d, j), Bit(d[j + 2], 3)) = Signed(20, UpToLowMasked(d, j))
  BY <1>4, SignLow, ZenonT(40) DEF UpToLow, UpToLowMasked
<1> QED
  BY <1>2, <1>3, <1>5, <1>6, Zenon

\* Twenty bits from the middle of a byte.
LEMMA ReadFurther ==
    ASSUME NEW format, NEW d \in Bytes8, NEW j \in 0..5
    PROVE  /\ Read(format, d, Field(8 * j + 4, 20, FALSE)) =
                  IF format = "motorola" THEN FromLow(d, j) ELSE UpToHigh(d, j)
           /\ Read(format, d, Field(8 * j + 4, 20, TRUE)) =
                  IF format = "motorola" THEN SignFill(FromLow(d, j), Bit(d[j], 3))
                  ELSE SignFill(UpToHigh(d, j), Bit(d[j + 2], 7))
<1>1. 20 \in 0..20
  OBVIOUS
<1>2. /\ Read(format, d, Field(8 * j + 4, 20, FALSE)) = Slice(format, d, 8 * j + 4, 20)
      /\ Read(format, d, Field(8 * j + 4, 20, TRUE)) =
                  Signed(20, Slice(format, d, 8 * j + 4, 20))
  BY <1>1, NarrowRead, Zenon
<1>3. Slice(format, d, 8 * j + 4, 20) =
          IF format = "motorola" THEN FromLow(d, j) ELSE UpToHigh(d, j)
  BY TwentyFurther, Zenon
<1>4. d[j] \in 0..255 /\ d[j + 1] \in 0..255 /\ d[j + 2] \in 0..255
  BY DEF Bytes8
<1>5. SignFill(FromLow(d, j), Bit(d[j], 3)) = Signed(20, FromLow(d, j))
  BY <1>4, SignLow, ZenonT(40) DEF FromLow
<1>6. SignFill(UpToHigh(d, j), Bit(d[j + 2], 7)) = Signed(20, UpToHigh(d, j))
  BY <1>4, SignHigh, ZenonT(40) DEF UpToHigh
<1> QED
  BY <1>2, <1>3, <1>5, <1>6, Zenon

\* Where the fields are that the frames have.
LEMMA Bytes ==
    ASSUME NEW format, NEW d \in Bytes8
    PROVE  /\ Read(format, d, Field(0, 8, FALSE)) = d[0]
           /\ Read(format, d, Field(8, 8, FALSE)) = d[1]
           /\ Read(format, d, Field(16, 8, FALSE)) = d[2]
           /\ Read(format, d, Field(24, 8, FALSE)) = d[3]
           /\ Read(format, d, Field(48, 8, FALSE)) = d[6]
           /\ Read(format, d, Field(56, 8, FALSE)) = d[7]
<1>1. Read(format, d, Field(0, 8, FALSE)) = d[0]
  <2>1. 0 \in 0..7
    OBVIOUS
  <2>2. Read(format, d, Field(8 * 0, 8, FALSE)) = d[0]
    BY <2>1, ReadByte, Zenon
  <2>3. 8 * 0 = 0
    OBVIOUS
  <2> QED
    BY <2>2, <2>3, Zenon
<1>2. Read(format, d, Field(8, 8, FALSE)) = d[1]
  <2>1. 1 \in 0..7
    OBVIOUS
  <2>2. Read(format, d, Field(8 * 1, 8, FALSE)) = d[1]
    BY <2>1, ReadByte, Zenon
  <2>3. 8 * 1 = 8
    OBVIOUS
  <2> QED
    BY <2>2, <2>3, Zenon
<1>3. Read(format, d, Field(16, 8, FALSE)) = d[2]
  <2>1. 2 \in 0..7
    OBVIOUS
  <2>2. Read(format, d, Field(8 * 2, 8, FALSE)) = d[2]
    BY <2>1, ReadByte, Zenon
  <2>3. 8 * 2 = 16
    OBVIOUS
  <2> QED
    BY <2>2, <2>3, Zenon
<1>4. Read(format, d, Field(24, 8, FALSE)) = d[3]
  <2>1. 3 \in 0..7
    OBVIOUS
  <2>2. Read(format, d, Field(8 * 3, 8, FALSE)) = d[3]
    BY <2>1, ReadByte, Zenon
  <2>3. 8 * 3 = 24
    OBVIOUS
  <2> QED
    BY <2>2, <2>3, Zenon
<1>5. Read(format, d, Field(48, 8, FALSE)) = d[6]
  <2>1. 6 \in 0..7
    OBVIOUS
  <2>2. Read(format, d, Field(8 * 6, 8, FALSE)) = d[6]
    BY <2>1, ReadByte, Zenon
  <2>3. 8 * 6 = 48
    OBVIOUS
  <2> QED
    BY <2>2, <2>3, Zenon
<1>6. Read(format, d, Field(56, 8, FALSE)) = d[7]
  <2>1. 7 \in 0..7
    OBVIOUS
  <2>2. Read(format, d, Field(8 * 7, 8, FALSE)) = d[7]
    BY <2>1, ReadByte, Zenon
  <2>3. 8 * 7 = 56
    OBVIOUS
  <2> QED
    BY <2>2, <2>3, Zenon
<1> QED
  BY <1>1, <1>2, <1>3, <1>4, <1>5, <1>6, Zenon

\* Fields of two bytes, at the bytes 0, 2, 4 and 6.
LEMMA Shorts ==
    ASSUME NEW format, NEW d \in Bytes8
    PROVE  /\ Read(format, d, Field(0, 16, FALSE)) =
                  IF format = "motorola" THEN U16(d, 0) ELSE U16Le(d, 0)
           /\ Read(format, d, Field(0, 16, TRUE)) =
                  IF format = "motorola" THEN I16(d, 0) ELSE I16Le(d, 0)
           /\ Read(format, d, Field(16, 16, FALSE)) =
                  IF format = "motorola" THEN U16(d, 2) ELSE U16Le(d, 2)
           /\ Read(format, d, Field(16, 16, TRUE)) =
                  IF format = "motorola" THEN I16(d, 2) ELSE I16Le(d, 2)
           /\ Read(format, d, Field(32, 16, FALSE)) =
                  IF format = "motorola" THEN U16(d, 4) ELSE U16Le(d, 4)
           /\ Read(format, d, Field(32, 16, TRUE)) =
                  IF format = "motorola" THEN I16(d, 4) ELSE I16Le(d, 4)
           /\ Read(format, d, Field(48, 16, FALSE)) =
                  IF format = "motorola" THEN U16(d, 6) ELSE U16Le(d, 6)
           /\ Read(format, d, Field(48, 16, TRUE)) =
                  IF format = "motorola" THEN I16(d, 6) ELSE I16Le(d, 6)
<1>1. Read(format, d, Field(0, 16, FALSE)) =
          IF format = "motorola" THEN U16(d, 0) ELSE U16Le(d, 0)
  <2>1. 0 \in 0..6
    OBVIOUS
  <2>2. Read(format, d, Field(8 * 0, 16, FALSE)) =
            IF format = "motorola" THEN U16(d, 0) ELSE U16Le(d, 0)
    BY <2>1, ReadTwoBytes, Zenon
  <2>3. 8 * 0 = 0
    OBVIOUS
  <2> QED
    BY <2>2, <2>3, Zenon
<1>2. Read(format, d, Field(0, 16, TRUE)) =
          IF format = "motorola" THEN I16(d, 0) ELSE I16Le(d, 0)
  <2>1. 0 \in 0..6
    OBVIOUS
  <2>2. Read(format, d, Field(8 * 0, 16, TRUE)) =
            IF format = "motorola" THEN I16(d, 0) ELSE I16Le(d, 0)
    BY <2>1, ReadTwoBytes, Zenon
  <2>3. 8 * 0 = 0
    OBVIOUS
  <2> QED
    BY <2>2, <2>3, Zenon
<1>3. Read(format, d, Field(16, 16, FALSE)) =
          IF format = "motorola" THEN U16(d, 2) ELSE U16Le(d, 2)
  <2>1. 2 \in 0..6
    OBVIOUS
  <2>2. Read(format, d, Field(8 * 2, 16, FALSE)) =
            IF format = "motorola" THEN U16(d, 2) ELSE U16Le(d, 2)
    BY <2>1, ReadTwoBytes, Zenon
  <2>3. 8 * 2 = 16
    OBVIOUS
  <2> QED
    BY <2>2, <2>3, Zenon
<1>4. Read(format, d, Field(16, 16, TRUE)) =
          IF format = "motorola" THEN I16(d, 2) ELSE I16Le(d, 2)
  <2>1. 2 \in 0..6
    OBVIOUS
  <2>2. Read(format, d, Field(8 * 2, 16, TRUE)) =
            IF format = "motorola" THEN I16(d, 2) ELSE I16Le(d, 2)
    BY <2>1, ReadTwoBytes, Zenon
  <2>3. 8 * 2 = 16
    OBVIOUS
  <2> QED
    BY <2>2, <2>3, Zenon
<1>5. Read(format, d, Field(32, 16, FALSE)) =
          IF format = "motorola" THEN U16(d, 4) ELSE U16Le(d, 4)
  <2>1. 4 \in 0..6
    OBVIOUS
  <2>2. Read(format, d, Field(8 * 4, 16, FALSE)) =
            IF format = "motorola" THEN U16(d, 4) ELSE U16Le(d, 4)
    BY <2>1, ReadTwoBytes, Zenon
  <2>3. 8 * 4 = 32
    OBVIOUS
  <2> QED
    BY <2>2, <2>3, Zenon
<1>6. Read(format, d, Field(32, 16, TRUE)) =
          IF format = "motorola" THEN I16(d, 4) ELSE I16Le(d, 4)
  <2>1. 4 \in 0..6
    OBVIOUS
  <2>2. Read(format, d, Field(8 * 4, 16, TRUE)) =
            IF format = "motorola" THEN I16(d, 4) ELSE I16Le(d, 4)
    BY <2>1, ReadTwoBytes, Zenon
  <2>3. 8 * 4 = 32
    OBVIOUS
  <2> QED
    BY <2>2, <2>3, Zenon
<1>7. Read(format, d, Field(48, 16, FALSE)) =
          IF format = "motorola" THEN U16(d, 6) ELSE U16Le(d, 6)
  <2>1. 6 \in 0..6
    OBVIOUS
  <2>2. Read(format, d, Field(8 * 6, 16, FALSE)) =
            IF format = "motorola" THEN U16(d, 6) ELSE U16Le(d, 6)
    BY <2>1, ReadTwoBytes, Zenon
  <2>3. 8 * 6 = 48
    OBVIOUS
  <2> QED
    BY <2>2, <2>3, Zenon
<1>8. Read(format, d, Field(48, 16, TRUE)) =
          IF format = "motorola" THEN I16(d, 6) ELSE I16Le(d, 6)
  <2>1. 6 \in 0..6
    OBVIOUS
  <2>2. Read(format, d, Field(8 * 6, 16, TRUE)) =
            IF format = "motorola" THEN I16(d, 6) ELSE I16Le(d, 6)
    BY <2>1, ReadTwoBytes, Zenon
  <2>3. 8 * 6 = 48
    OBVIOUS
  <2> QED
    BY <2>2, <2>3, Zenon
<1> QED
  BY <1>1, <1>2, <1>3, <1>4, <1>5, <1>6, <1>7, <1>8, Zenon

\* The three fields of twenty bits.
LEMMA Twenties ==
    ASSUME NEW format, NEW d \in Bytes8
    PROVE  /\ Read(format, d, Field(0, 20, FALSE)) = 
                  IF format = "motorola" THEN FromHigh(d, 0)
                  ELSE UpToLowMasked(d, 0)
           /\ Read(format, d, Field(0, 20, TRUE)) = 
                  IF format = "motorola" THEN SignFill(FromHigh(d, 0), Bit(d[0], 7))
                  ELSE SignFill(UpToLow(d, 0), Bit(d[2], 3))
           /\ Read(format, d, Field(20, 20, FALSE)) = 
                  IF format = "motorola" THEN FromLow(d, 2)
                  ELSE UpToHigh(d, 2)
           /\ Read(format, d, Field(20, 20, TRUE)) = 
                  IF format = "motorola" THEN SignFill(FromLow(d, 2), Bit(d[2], 3))
                  ELSE SignFill(UpToHigh(d, 2), Bit(d[4], 7))
           /\ Read(format, d, Field(40, 20, FALSE)) = 
                  IF format = "motorola" THEN FromHigh(d, 5)
                  ELSE UpToLowMasked(d, 5)
           /\ Read(format, d, Field(40, 20, TRUE)) = 
                  IF format = "motorola" THEN SignFill(FromHigh(d, 5), Bit(d[5], 7))
                  ELSE SignFill(UpToLow(d, 5), Bit(d[7], 3))
<1>1. Read(format, d, Field(0, 20, FALSE)) =
          IF format = "motorola" THEN FromHigh(d, 0) ELSE UpToLowMasked(d, 0)
  <2>1. 0 \in 0..5
    OBVIOUS
  <2>2. Read(format, d, Field(8 * 0, 20, FALSE)) =
            IF format = "motorola" THEN FromHigh(d, 0) ELSE UpToLowMasked(d, 0)
    BY <2>1, ReadTwenty, Zenon
  <2>3. 8 * 0 = 0
    OBVIOUS
  <2> QED
    BY <2>2, <2>3, Zenon
<1>2. Read(format, d, Field(0, 20, TRUE)) =
          IF format = "motorola" THEN SignFill(FromHigh(d, 0), Bit(d[0], 7))
          ELSE SignFill(UpToLow(d, 0), Bit(d[2], 3))
  <2>1. 0 \in 0..5 /\ 0 + 2 = 2
    OBVIOUS
  <2>2. Read(format, d, Field(8 * 0, 20, TRUE)) =
            IF format = "motorola" THEN SignFill(FromHigh(d, 0), Bit(d[0], 7))
            ELSE SignFill(UpToLow(d, 0), Bit(d[2], 3))
    BY <2>1, ReadTwenty, Zenon
  <2>3. 8 * 0 = 0
    OBVIOUS
  <2> QED
    BY <2>2, <2>3, Zenon
<1>3. Read(format, d, Field(20, 20, FALSE)) =
          IF format = "motorola" THEN FromLow(d, 2) ELSE UpToHigh(d, 2)
  <2>1. 2 \in 0..5
    OBVIOUS
  <2>2. Read(format, d, Field(8 * 2 + 4, 20, FALSE)) =
            IF format = "motorola" THEN FromLow(d, 2) ELSE UpToHigh(d, 2)
    BY <2>1, ReadFurther, Zenon
  <2>3. 8 * 2 + 4 = 20
    OBVIOUS
  <2> QED
    BY <2>2, <2>3, Zenon
<1>4. Read(format, d, Field(20, 20, TRUE)) =
          IF format = "motorola" THEN SignFill(FromLow(d, 2), Bit(d[2], 3))
          ELSE SignFill(UpToHigh(d, 2), Bit(d[4], 7))
  <2>1. 2 \in 0..5 /\ 2 + 2 = 4
    OBVIOUS
  <2>2. Read(format, d, Field(8 * 2 + 4, 20, TRUE)) =
            IF format = "motorola" THEN SignFill(FromLow(d, 2), Bit(d[2], 3))
            ELSE SignFill(UpToHigh(d, 2), Bit(d[4], 7))
    BY <2>1, ReadFurther, Zenon
  <2>3. 8 * 2 + 4 = 20
    OBVIOUS
  <2> QED
    BY <2>2, <2>3, Zenon
<1>5. Read(format, d, Field(40, 20, FALSE)) =
          IF format = "motorola" THEN FromHigh(d, 5) ELSE UpToLowMasked(d, 5)
  <2>1. 5 \in 0..5
    OBVIOUS
  <2>2. Read(format, d, Field(8 * 5, 20, FALSE)) =
            IF format = "motorola" THEN FromHigh(d, 5) ELSE UpToLowMasked(d, 5)
    BY <2>1, ReadTwenty, Zenon
  <2>3. 8 * 5 = 40
    OBVIOUS
  <2> QED
    BY <2>2, <2>3, Zenon
<1>6. Read(format, d, Field(40, 20, TRUE)) =
          IF format = "motorola" THEN SignFill(FromHigh(d, 5), Bit(d[5], 7))
          ELSE SignFill(UpToLow(d, 5), Bit(d[7], 3))
  <2>1. 5 \in 0..5 /\ 5 + 2 = 7
    OBVIOUS
  <2>2. Read(format, d, Field(8 * 5, 20, TRUE)) =
            IF format = "motorola" THEN SignFill(FromHigh(d, 5), Bit(d[5], 7))
            ELSE SignFill(UpToLow(d, 5), Bit(d[7], 3))
    BY <2>1, ReadTwenty, Zenon
  <2>3. 8 * 5 = 40
    OBVIOUS
  <2> QED
    BY <2>2, <2>3, Zenon
<1> QED
  BY <1>1, <1>2, <1>3, <1>4, <1>5, <1>6, Zenon

\* Fields of four and of eight bytes.
LEMMA Wides ==
    ASSUME NEW format, NEW d \in Bytes8
    PROVE  /\ Read(format, d, Field(0, 32, FALSE)) = 
                  IF format = "motorola" THEN Upward(d, 0, 4)
                  ELSE Downward(d, 0, 4)
           /\ Read(format, d, Field(16, 32, FALSE)) = 
                  IF format = "motorola" THEN Upward(d, 2, 4)
                  ELSE Downward(d, 2, 4)
           /\ Read(format, d, Field(32, 32, FALSE)) = 
                  IF format = "motorola" THEN Upward(d, 4, 4)
                  ELSE Downward(d, 4, 4)
           /\ Read(format, d, Field(0, 64, FALSE)) = 
                  IF format = "motorola" THEN Upward(d, 0, 8)
                  ELSE Downward(d, 0, 8)
<1>1. Read(format, d, Field(0, 32, FALSE)) =
          IF format = "motorola" THEN Upward(d, 0, 4) ELSE Downward(d, 0, 4)
  <2>1. 0 \in 0..7 /\ 4 \in 3..8 /\ 0 + 4 <= 8
    OBVIOUS
  <2>2. Read(format, d, Field(8 * 0, 8 * 4, FALSE)) =
            IF format = "motorola" THEN Upward(d, 0, 4) ELSE Downward(d, 0, 4)
    BY <2>1, WideRead, Zenon
  <2>3. 8 * 0 = 0 /\ 8 * 4 = 32
    OBVIOUS
  <2> QED
    BY <2>2, <2>3, Zenon
<1>2. Read(format, d, Field(16, 32, FALSE)) =
          IF format = "motorola" THEN Upward(d, 2, 4) ELSE Downward(d, 2, 4)
  <2>1. 2 \in 0..7 /\ 4 \in 3..8 /\ 2 + 4 <= 8
    OBVIOUS
  <2>2. Read(format, d, Field(8 * 2, 8 * 4, FALSE)) =
            IF format = "motorola" THEN Upward(d, 2, 4) ELSE Downward(d, 2, 4)
    BY <2>1, WideRead, Zenon
  <2>3. 8 * 2 = 16 /\ 8 * 4 = 32
    OBVIOUS
  <2> QED
    BY <2>2, <2>3, Zenon
<1>3. Read(format, d, Field(32, 32, FALSE)) =
          IF format = "motorola" THEN Upward(d, 4, 4) ELSE Downward(d, 4, 4)
  <2>1. 4 \in 0..7 /\ 4 \in 3..8 /\ 4 + 4 <= 8
    OBVIOUS
  <2>2. Read(format, d, Field(8 * 4, 8 * 4, FALSE)) =
            IF format = "motorola" THEN Upward(d, 4, 4) ELSE Downward(d, 4, 4)
    BY <2>1, WideRead, Zenon
  <2>3. 8 * 4 = 32 /\ 8 * 4 = 32
    OBVIOUS
  <2> QED
    BY <2>2, <2>3, Zenon
<1>4. Read(format, d, Field(0, 64, FALSE)) =
          IF format = "motorola" THEN Upward(d, 0, 8) ELSE Downward(d, 0, 8)
  <2>1. 0 \in 0..7 /\ 8 \in 3..8 /\ 0 + 8 <= 8
    OBVIOUS
  <2>2. Read(format, d, Field(8 * 0, 8 * 8, FALSE)) =
            IF format = "motorola" THEN Upward(d, 0, 8) ELSE Downward(d, 0, 8)
    BY <2>1, WideRead, Zenon
  <2>3. 8 * 0 = 0 /\ 8 * 8 = 64
    OBVIOUS
  <2> QED
    BY <2>2, <2>3, Zenon
<1> QED
  BY <1>1, <1>2, <1>3, <1>4, Zenon

-----------------------------------------------------------------------------
(* The frames *)

\* The fields of a frame, read one after the other.
ReadAll(format, d, u) == [i \in DOMAIN u |-> Read(format, d, u[i])]

\* The sign of a field is all that SignedAt sets.
LEMMA SignedField ==
    \A u, which : \A i \in DOMAIN u :
        SignedAt(u, which)[i] = [u[i] EXCEPT !.sign = i \in which]
  BY Zenon DEF SignedAt

\* The sign of one field.
LEMMA SignSet ==
    ASSUME NEW o, NEW n, NEW is \in BOOLEAN
    PROVE  [Field(o, n, FALSE) EXCEPT !.sign = is] = Field(o, n, is)
  BY DEF Field

\* What is read of a frame is what its decoder makes of it.
LEMMA ThreeSigned ==
    ASSUME NEW format, NEW d \in Bytes8
    PROVE  ReadAll(format, d, SignedAt(Unsigned(<<20, 20, 20>>), {1, 2, 3})) =
               IF format = "motorola" THEN MotorolaSigned20(d) ELSE IntelSigned20(d)
<1> DEFINE plain == Unsigned(<<20, 20, 20>>)
           which == {1, 2, 3}
           u == SignedAt(plain, which)
<1>1. DOMAIN plain = 1..3 /\ DOMAIN u = DOMAIN plain
  BY ThreeFields, Zenon DEF SignedAt
<1>2. u[1] = Field(0, 20, TRUE)
  <2>1. 1 \in DOMAIN plain /\ plain[1] = Field(0, 20, FALSE)
    <3>1. 1 \in 1..3
      OBVIOUS
    <3> QED
      BY <1>1, <3>1, ThreeFields, Zenon
  <2>2. (1 \in which) = TRUE
    OBVIOUS
  <2> HIDE DEF plain, which
  <2>3. u[1] = [plain[1] EXCEPT !.sign = 1 \in which]
    BY <2>1, SignedField, Zenon
  <2>4. u[1] = [Field(0, 20, FALSE) EXCEPT !.sign = TRUE]
    BY <2>1, <2>2, <2>3, Zenon
  <2>5. TRUE \in BOOLEAN
    OBVIOUS
  <2> QED
    BY <2>4, <2>5, SignSet, Zenon
<1>3. u[2] = Field(20, 20, TRUE)
  <2>1. 2 \in DOMAIN plain /\ plain[2] = Field(20, 20, FALSE)
    <3>1. 2 \in 1..3
      OBVIOUS
    <3> QED
      BY <1>1, <3>1, ThreeFields, Zenon
  <2>2. (2 \in which) = TRUE
    OBVIOUS
  <2> HIDE DEF plain, which
  <2>3. u[2] = [plain[2] EXCEPT !.sign = 2 \in which]
    BY <2>1, SignedField, Zenon
  <2>4. u[2] = [Field(20, 20, FALSE) EXCEPT !.sign = TRUE]
    BY <2>1, <2>2, <2>3, Zenon
  <2>5. TRUE \in BOOLEAN
    OBVIOUS
  <2> QED
    BY <2>4, <2>5, SignSet, Zenon
<1>4. u[3] = Field(40, 20, TRUE)
  <2>1. 3 \in DOMAIN plain /\ plain[3] = Field(40, 20, FALSE)
    <3>1. 3 \in 1..3
      OBVIOUS
    <3> QED
      BY <1>1, <3>1, ThreeFields, Zenon
  <2>2. (3 \in which) = TRUE
    OBVIOUS
  <2> HIDE DEF plain, which
  <2>3. u[3] = [plain[3] EXCEPT !.sign = 3 \in which]
    BY <2>1, SignedField, Zenon
  <2>4. u[3] = [Field(40, 20, FALSE) EXCEPT !.sign = TRUE]
    BY <2>1, <2>2, <2>3, Zenon
  <2>5. TRUE \in BOOLEAN
    OBVIOUS
  <2> QED
    BY <2>4, <2>5, SignSet, Zenon
<1> HIDE DEF plain, which
<1> HIDE DEF u
<1>5. Read(format, d, u[1]) = IF format = "motorola" THEN SignFill(FromHigh(d, 0), Bit(d[0], 7))
          ELSE SignFill(UpToLow(d, 0), Bit(d[2], 3))
  BY <1>2, Twenties, Zenon
<1>6. Read(format, d, u[2]) = IF format = "motorola" THEN SignFill(FromLow(d, 2), Bit(d[2], 3))
          ELSE SignFill(UpToHigh(d, 2), Bit(d[4], 7))
  BY <1>3, Twenties, Zenon
<1>7. Read(format, d, u[3]) = IF format = "motorola" THEN SignFill(FromHigh(d, 5), Bit(d[5], 7))
          ELSE SignFill(UpToLow(d, 5), Bit(d[7], 3))
  BY <1>4, Twenties, Zenon
<1>8. ReadAll(format, d, u) =
      <<Read(format, d, u[1]), Read(format, d, u[2]), Read(format, d, u[3])>>
  BY <1>1 DEF ReadAll
<1>9. ASSUME format = "motorola" PROVE ReadAll(format, d, u) = MotorolaSigned20(d)
  BY <1>5, <1>6, <1>7, <1>8, <1>9 DEF MotorolaSigned20
<1>10. ASSUME format # "motorola" PROVE ReadAll(format, d, u) = IntelSigned20(d)
  BY <1>5, <1>6, <1>7, <1>8, <1>10 DEF IntelSigned20
<1> QED
  BY <1>9, <1>10 DEF u, plain, which

\* Four speeds.
LEMMA Velocity ==
    ASSUME NEW format, NEW d \in Bytes8
    PROVE  ReadAll(format, d, SignedAt(Unsigned(<<16, 16, 16, 16>>), {1, 2, 3, 4})) =
               IF format = "motorola" THEN MotorolaVelocity(d) ELSE IntelVelocity(d)
<1> DEFINE plain == Unsigned(<<16, 16, 16, 16>>)
           which == {1, 2, 3, 4}
           u == SignedAt(plain, which)
<1>1. DOMAIN plain = 1..4 /\ DOMAIN u = DOMAIN plain
  BY FourFields, Zenon DEF SignedAt
<1>2. u[1] = Field(0, 16, TRUE)
  <2>1. 1 \in DOMAIN plain /\ plain[1] = Field(0, 16, FALSE)
    <3>1. 1 \in 1..4
      OBVIOUS
    <3> QED
      BY <1>1, <3>1, FourFields, Zenon
  <2>2. (1 \in which) = TRUE
    OBVIOUS
  <2> HIDE DEF plain, which
  <2>3. u[1] = [plain[1] EXCEPT !.sign = 1 \in which]
    BY <2>1, SignedField, Zenon
  <2>4. u[1] = [Field(0, 16, FALSE) EXCEPT !.sign = TRUE]
    BY <2>1, <2>2, <2>3, Zenon
  <2>5. TRUE \in BOOLEAN
    OBVIOUS
  <2> QED
    BY <2>4, <2>5, SignSet, Zenon
<1>3. u[2] = Field(16, 16, TRUE)
  <2>1. 2 \in DOMAIN plain /\ plain[2] = Field(16, 16, FALSE)
    <3>1. 2 \in 1..4
      OBVIOUS
    <3> QED
      BY <1>1, <3>1, FourFields, Zenon
  <2>2. (2 \in which) = TRUE
    OBVIOUS
  <2> HIDE DEF plain, which
  <2>3. u[2] = [plain[2] EXCEPT !.sign = 2 \in which]
    BY <2>1, SignedField, Zenon
  <2>4. u[2] = [Field(16, 16, FALSE) EXCEPT !.sign = TRUE]
    BY <2>1, <2>2, <2>3, Zenon
  <2>5. TRUE \in BOOLEAN
    OBVIOUS
  <2> QED
    BY <2>4, <2>5, SignSet, Zenon
<1>4. u[3] = Field(32, 16, TRUE)
  <2>1. 3 \in DOMAIN plain /\ plain[3] = Field(32, 16, FALSE)
    <3>1. 3 \in 1..4
      OBVIOUS
    <3> QED
      BY <1>1, <3>1, FourFields, Zenon
  <2>2. (3 \in which) = TRUE
    OBVIOUS
  <2> HIDE DEF plain, which
  <2>3. u[3] = [plain[3] EXCEPT !.sign = 3 \in which]
    BY <2>1, SignedField, Zenon
  <2>4. u[3] = [Field(32, 16, FALSE) EXCEPT !.sign = TRUE]
    BY <2>1, <2>2, <2>3, Zenon
  <2>5. TRUE \in BOOLEAN
    OBVIOUS
  <2> QED
    BY <2>4, <2>5, SignSet, Zenon
<1>5. u[4] = Field(48, 16, TRUE)
  <2>1. 4 \in DOMAIN plain /\ plain[4] = Field(48, 16, FALSE)
    <3>1. 4 \in 1..4
      OBVIOUS
    <3> QED
      BY <1>1, <3>1, FourFields, Zenon
  <2>2. (4 \in which) = TRUE
    OBVIOUS
  <2> HIDE DEF plain, which
  <2>3. u[4] = [plain[4] EXCEPT !.sign = 4 \in which]
    BY <2>1, SignedField, Zenon
  <2>4. u[4] = [Field(48, 16, FALSE) EXCEPT !.sign = TRUE]
    BY <2>1, <2>2, <2>3, Zenon
  <2>5. TRUE \in BOOLEAN
    OBVIOUS
  <2> QED
    BY <2>4, <2>5, SignSet, Zenon
<1> HIDE DEF plain, which
<1> HIDE DEF u
<1>6. Read(format, d, u[1]) = IF format = "motorola" THEN I16(d, 0) ELSE I16Le(d, 0)
  BY <1>2, Shorts, Zenon
<1>7. Read(format, d, u[2]) = IF format = "motorola" THEN I16(d, 2) ELSE I16Le(d, 2)
  BY <1>3, Shorts, Zenon
<1>8. Read(format, d, u[3]) = IF format = "motorola" THEN I16(d, 4) ELSE I16Le(d, 4)
  BY <1>4, Shorts, Zenon
<1>9. Read(format, d, u[4]) = IF format = "motorola" THEN I16(d, 6) ELSE I16Le(d, 6)
  BY <1>5, Shorts, Zenon
<1>10. ReadAll(format, d, u) =
      <<Read(format, d, u[1]), Read(format, d, u[2]), Read(format, d, u[3]),
        Read(format, d, u[4])>>
  BY <1>1 DEF ReadAll
<1>11. ASSUME format = "motorola" PROVE ReadAll(format, d, u) = MotorolaVelocity(d)
  BY <1>6, <1>7, <1>8, <1>9, <1>10, <1>11 DEF MotorolaVelocity
<1>12. ASSUME format # "motorola" PROVE ReadAll(format, d, u) = IntelVelocity(d)
  BY <1>6, <1>7, <1>8, <1>9, <1>10, <1>12 DEF IntelVelocity
<1> QED
  BY <1>11, <1>12 DEF u, plain, which

\* Their sigmas.
LEMMA VelocitySigma ==
    ASSUME NEW format, NEW d \in Bytes8
    PROVE  ReadAll(format, d, Unsigned(<<16, 16, 16, 16>>)) =
               IF format = "motorola" THEN MotorolaVelocitySigma(d) ELSE IntelVelocitySigma(d)
<1> DEFINE u == Unsigned(<<16, 16, 16, 16>>)
<1>1. DOMAIN u = 1..4
  BY FourFields, Zenon
<1>2. u[1] = Field(0, 16, FALSE)
  BY FourFields, Zenon
<1>3. u[2] = Field(16, 16, FALSE)
  BY FourFields, Zenon
<1>4. u[3] = Field(32, 16, FALSE)
  BY FourFields, Zenon
<1>5. u[4] = Field(48, 16, FALSE)
  BY FourFields, Zenon
<1> HIDE DEF u
<1>6. Read(format, d, u[1]) = IF format = "motorola" THEN U16(d, 0) ELSE U16Le(d, 0)
  BY <1>2, Shorts, Zenon
<1>7. Read(format, d, u[2]) = IF format = "motorola" THEN U16(d, 2) ELSE U16Le(d, 2)
  BY <1>3, Shorts, Zenon
<1>8. Read(format, d, u[3]) = IF format = "motorola" THEN U16(d, 4) ELSE U16Le(d, 4)
  BY <1>4, Shorts, Zenon
<1>9. Read(format, d, u[4]) = IF format = "motorola" THEN U16(d, 6) ELSE U16Le(d, 6)
  BY <1>5, Shorts, Zenon
<1>10. ReadAll(format, d, u) =
      <<Read(format, d, u[1]), Read(format, d, u[2]), Read(format, d, u[3]),
        Read(format, d, u[4])>>
  BY <1>1 DEF ReadAll
<1>11. ASSUME format = "motorola" PROVE ReadAll(format, d, u) = MotorolaVelocitySigma(d)
  BY <1>6, <1>7, <1>8, <1>9, <1>10, <1>11 DEF MotorolaVelocitySigma
<1>12. ASSUME format # "motorola" PROVE ReadAll(format, d, u) = IntelVelocitySigma(d)
  BY <1>6, <1>7, <1>8, <1>9, <1>10, <1>12 DEF IntelVelocitySigma
<1> QED
  BY <1>11, <1>12 DEF u

\* Three angles, of which two have a sign; the code reads a fourth.
LEMMA Angle ==
    ASSUME NEW format, NEW d \in Bytes8
    PROVE  LET all == SignedAt(Unsigned(<<16, 16, 16>>), {2, 3})
               angle == IF format = "motorola" THEN MotorolaAngle(d) ELSE IntelAngle(d)
           IN  \A i \in DOMAIN all : angle[i] = Read(format, d, all[i])
<1> DEFINE plain == Unsigned(<<16, 16, 16>>)
           which == {2, 3}
           u == SignedAt(plain, which)
<1>1. DOMAIN plain = 1..3 /\ DOMAIN u = DOMAIN plain
  BY ThreeShortFields, Zenon DEF SignedAt
<1>2. u[1] = Field(0, 16, FALSE)
  <2>1. 1 \in DOMAIN plain /\ plain[1] = Field(0, 16, FALSE)
    <3>1. 1 \in 1..3
      OBVIOUS
    <3> QED
      BY <1>1, <3>1, ThreeShortFields, Zenon
  <2>2. (1 \in which) = FALSE
    OBVIOUS
  <2> HIDE DEF plain, which
  <2>3. u[1] = [plain[1] EXCEPT !.sign = 1 \in which]
    BY <2>1, SignedField, Zenon
  <2>4. u[1] = [Field(0, 16, FALSE) EXCEPT !.sign = FALSE]
    BY <2>1, <2>2, <2>3, Zenon
  <2>5. FALSE \in BOOLEAN
    OBVIOUS
  <2> QED
    BY <2>4, <2>5, SignSet, Zenon
<1>3. u[2] = Field(16, 16, TRUE)
  <2>1. 2 \in DOMAIN plain /\ plain[2] = Field(16, 16, FALSE)
    <3>1. 2 \in 1..3
      OBVIOUS
    <3> QED
      BY <1>1, <3>1, ThreeShortFields, Zenon
  <2>2. (2 \in which) = TRUE
    OBVIOUS
  <2> HIDE DEF plain, which
  <2>3. u[2] = [plain[2] EXCEPT !.sign = 2 \in which]
    BY <2>1, SignedField, Zenon
  <2>4. u[2] = [Field(16, 16, FALSE) EXCEPT !.sign = TRUE]
    BY <2>1, <2>2, <2>3, Zenon
  <2>5. TRUE \in BOOLEAN
    OBVIOUS
  <2> QED
    BY <2>4, <2>5, SignSet, Zenon
<1>4. u[3] = Field(32, 16, TRUE)
  <2>1. 3 \in DOMAIN plain /\ plain[3] = Field(32, 16, FALSE)
    <3>1. 3 \in 1..3
      OBVIOUS
    <3> QED
      BY <1>1, <3>1, ThreeShortFields, Zenon
  <2>2. (3 \in which) = TRUE
    OBVIOUS
  <2> HIDE DEF plain, which
  <2>3. u[3] = [plain[3] EXCEPT !.sign = 3 \in which]
    BY <2>1, SignedField, Zenon
  <2>4. u[3] = [Field(32, 16, FALSE) EXCEPT !.sign = TRUE]
    BY <2>1, <2>2, <2>3, Zenon
  <2>5. TRUE \in BOOLEAN
    OBVIOUS
  <2> QED
    BY <2>4, <2>5, SignSet, Zenon
<1> HIDE DEF plain, which
<1> HIDE DEF u
<1>5. Read(format, d, u[1]) = IF format = "motorola" THEN U16(d, 0) ELSE U16Le(d, 0)
  BY <1>2, Shorts, Zenon
<1>6. Read(format, d, u[2]) = IF format = "motorola" THEN I16(d, 2) ELSE I16Le(d, 2)
  BY <1>3, Shorts, Zenon
<1>7. Read(format, d, u[3]) = IF format = "motorola" THEN I16(d, 4) ELSE I16Le(d, 4)
  BY <1>4, Shorts, Zenon
<1> DEFINE angle == IF format = "motorola" THEN MotorolaAngle(d) ELSE IntelAngle(d)
<1>8. /\ angle[1] = IF format = "motorola" THEN U16(d, 0) ELSE U16Le(d, 0)
      /\ angle[2] = IF format = "motorola" THEN I16(d, 2) ELSE I16Le(d, 2)
      /\ angle[3] = IF format = "motorola" THEN I16(d, 4) ELSE I16Le(d, 4)
  BY DEF MotorolaAngle, IntelAngle
<1> HIDE DEF angle
<1>9. angle[1] = Read(format, d, u[1])
  BY <1>5, <1>8, Zenon
<1>10. angle[2] = Read(format, d, u[2])
  BY <1>6, <1>8, Zenon
<1>11. angle[3] = Read(format, d, u[3])
  BY <1>7, <1>8, Zenon
<1>12. \A i \in DOMAIN u : i = 1 \/ i = 2 \/ i = 3
  BY <1>1
<1>13. \A i \in DOMAIN u : angle[i] = Read(format, d, u[i])
  BY <1>9, <1>10, <1>11, <1>12, Zenon
<1> QED
  BY <1>13, Zenon DEF u, plain, which, angle

\* The time.
LEMMA TimeFrame ==
    ASSUME NEW format, NEW d \in Bytes8
    PROVE  ReadAll(format, d, Unsigned(<<16, 32>>)) =
               IF format = "motorola" THEN MotorolaTime(d) ELSE IntelTime(d)
<1> DEFINE u == Unsigned(<<16, 32>>)
<1>1. DOMAIN u = 1..2
  BY TimeFields, Zenon
<1>2. u[1] = Field(0, 16, FALSE)
  BY TimeFields, Zenon
<1>3. u[2] = Field(16, 32, FALSE)
  BY TimeFields, Zenon
<1> HIDE DEF u
<1>4. Read(format, d, u[1]) = IF format = "motorola" THEN U16(d, 0) ELSE U16Le(d, 0)
  BY <1>2, Shorts, Zenon
<1>5. Read(format, d, u[2]) = IF format = "motorola" THEN Upward(d, 2, 4) ELSE Downward(d, 2, 4)
  BY <1>3, Wides, Zenon
<1>6. ReadAll(format, d, u) = <<Read(format, d, u[1]), Read(format, d, u[2])>>
  BY <1>1 DEF ReadAll
<1>7. ASSUME format = "motorola" PROVE ReadAll(format, d, u) = MotorolaTime(d)
  BY <1>4, <1>5, <1>6, <1>7 DEF MotorolaTime
<1>8. ASSUME format # "motorola" PROVE ReadAll(format, d, u) = IntelTime(d)
  BY <1>4, <1>5, <1>6, <1>8 DEF IntelTime
<1> QED
  BY <1>7, <1>8 DEF u

\* The states.
LEMMA StatusFrame ==
    ASSUME NEW format, NEW d \in Bytes8
    PROVE  ReadAll(format, d, Unsigned(<<8, 8, 8, 8, 16, 8, 8>>)) =
               IF format = "motorola" THEN MotorolaSysStatus(d) ELSE IntelSysStatus(d)
<1> DEFINE u == Unsigned(<<8, 8, 8, 8, 16, 8, 8>>)
<1>1. DOMAIN u = 1..7
  BY StatusFields, Zenon
<1>2. u[1] = Field(0, 8, FALSE)
  BY StatusFields, Zenon
<1>3. u[2] = Field(8, 8, FALSE)
  BY StatusFields, Zenon
<1>4. u[3] = Field(16, 8, FALSE)
  BY StatusFields, Zenon
<1>5. u[4] = Field(24, 8, FALSE)
  BY StatusFields, Zenon
<1>6. u[5] = Field(32, 16, FALSE)
  BY StatusFields, Zenon
<1>7. u[6] = Field(48, 8, FALSE)
  BY StatusFields, Zenon
<1>8. u[7] = Field(56, 8, FALSE)
  BY StatusFields, Zenon
<1> HIDE DEF u
<1>9. Read(format, d, u[1]) = d[0]
  BY <1>2, Bytes, Zenon
<1>10. Read(format, d, u[2]) = d[1]
  BY <1>3, Bytes, Zenon
<1>11. Read(format, d, u[3]) = d[2]
  BY <1>4, Bytes, Zenon
<1>12. Read(format, d, u[4]) = d[3]
  BY <1>5, Bytes, Zenon
<1>13. Read(format, d, u[5]) = IF format = "motorola" THEN U16(d, 4) ELSE U16Le(d, 4)
  BY <1>6, Shorts, Zenon
<1>14. Read(format, d, u[6]) = d[6]
  BY <1>7, Bytes, Zenon
<1>15. Read(format, d, u[7]) = d[7]
  BY <1>8, Bytes, Zenon
<1>16. ReadAll(format, d, u) =
      <<Read(format, d, u[1]), Read(format, d, u[2]), Read(format, d, u[3]),
        Read(format, d, u[4]), Read(format, d, u[5]), Read(format, d, u[6]),
        Read(format, d, u[7])>>
  BY <1>1 DEF ReadAll
<1>17. ASSUME format = "motorola" PROVE ReadAll(format, d, u) = MotorolaSysStatus(d)
  BY <1>9, <1>10, <1>11, <1>12, <1>13, <1>14, <1>15, <1>16, <1>17 DEF MotorolaSysStatus
<1>18. ASSUME format # "motorola" PROVE ReadAll(format, d, u) = IntelSysStatus(d)
  BY <1>9, <1>10, <1>11, <1>12, <1>13, <1>14, <1>15, <1>16, <1>18 DEF IntelSysStatus
<1> QED
  BY <1>17, <1>18 DEF u

\* The altitude.
LEMMA AltitudeFrame ==
    ASSUME NEW format, NEW d \in Bytes8
    PROVE  ReadAll(format, d, Unsigned(<<32>>)) =
               IF format = "motorola" THEN MotorolaAltitude(d) ELSE IntelAltitude(d)
<1> DEFINE u == Unsigned(<<32>>)
<1>1. DOMAIN u = 1..1
  BY FourByteField, Zenon
<1>2. u[1] = Field(0, 32, FALSE)
  BY FourByteField, Zenon
<1> HIDE DEF u
<1>3. Read(format, d, u[1]) = IF format = "motorola" THEN Upward(d, 0, 4) ELSE Downward(d, 0, 4)
  BY <1>2, Wides, Zenon
<1>4. ReadAll(format, d, u) = <<Read(format, d, u[1])>>
  BY <1>1 DEF ReadAll
<1>5. ASSUME format = "motorola" PROVE ReadAll(format, d, u) = MotorolaAltitude(d)
  BY <1>3, <1>4, <1>5 DEF MotorolaAltitude
<1>6. ASSUME format # "motorola" PROVE ReadAll(format, d, u) = IntelAltitude(d)
  BY <1>3, <1>4, <1>6 DEF IntelAltitude
<1> QED
  BY <1>5, <1>6 DEF u

\* A longitude or a latitude in double precision.
LEMMA DegreesFrame ==
    ASSUME NEW format, NEW d \in Bytes8
    PROVE  ReadAll(format, d, Unsigned(<<64>>)) =
               IF format = "motorola" THEN MotorolaLongitude(d) ELSE IntelLongitude(d)
<1> DEFINE u == Unsigned(<<64>>)
<1>1. DOMAIN u = 1..1
  BY EightByteField, Zenon
<1>2. u[1] = Field(0, 64, FALSE)
  BY EightByteField, Zenon
<1> HIDE DEF u
<1>3. Read(format, d, u[1]) = IF format = "motorola" THEN Upward(d, 0, 8) ELSE Downward(d, 0, 8)
  BY <1>2, Wides, Zenon
<1>4. ReadAll(format, d, u) = <<Read(format, d, u[1])>>
  BY <1>1 DEF ReadAll
<1>5. ASSUME format = "motorola" PROVE ReadAll(format, d, u) = MotorolaLongitude(d)
  BY <1>3, <1>4, <1>5 DEF MotorolaLongitude
<1>6. ASSUME format # "motorola" PROVE ReadAll(format, d, u) = IntelLongitude(d)
  BY <1>3, <1>4, <1>6 DEF IntelLongitude
<1> QED
  BY <1>5, <1>6 DEF u

\* Both in single precision.
LEMMA LatLonFrame ==
    ASSUME NEW format, NEW d \in Bytes8
    PROVE  ReadAll(format, d, Unsigned(<<32, 32>>)) =
               IF format = "motorola" THEN MotorolaLatLon(d) ELSE IntelLatLon(d)
<1> DEFINE u == Unsigned(<<32, 32>>)
<1>1. DOMAIN u = 1..2
  BY TwoWideFields, Zenon
<1>2. u[1] = Field(0, 32, FALSE)
  BY TwoWideFields, Zenon
<1>3. u[2] = Field(32, 32, FALSE)
  BY TwoWideFields, Zenon
<1> HIDE DEF u
<1>4. Read(format, d, u[1]) = IF format = "motorola" THEN Upward(d, 0, 4) ELSE Downward(d, 0, 4)
  BY <1>2, Wides, Zenon
<1>5. Read(format, d, u[2]) = IF format = "motorola" THEN Upward(d, 4, 4) ELSE Downward(d, 4, 4)
  BY <1>3, Wides, Zenon
<1>6. ReadAll(format, d, u) = <<Read(format, d, u[1]), Read(format, d, u[2])>>
  BY <1>1 DEF ReadAll
<1>7. ASSUME format = "motorola" PROVE ReadAll(format, d, u) = MotorolaLatLon(d)
  BY <1>4, <1>5, <1>6, <1>7 DEF MotorolaLatLon
<1>8. ASSUME format # "motorola" PROVE ReadAll(format, d, u) = IntelLatLon(d)
  BY <1>4, <1>5, <1>6, <1>8 DEF IntelLatLon
<1> QED
  BY <1>7, <1>8 DEF u

-----------------------------------------------------------------------------
(* Every frame as it is laid out *)

\* The decoder of a name reads the fields of that name.
ReadsItsFrame(format, name, d) ==
    (IF format = "motorola" THEN Motorola(d)[name] ELSE Intel(d)[name]) =
        ReadAll(format, d, Layout[name])

\* So do all but the sigmas and the angles.
LEMMA NamedFrames ==
    ASSUME NEW format, NEW d \in Bytes8
    PROVE  /\ ReadsItsFrame(format, "time", d)
           /\ ReadsItsFrame(format, "angrate_rawIMU", d)
           /\ ReadsItsFrame(format, "accel_rawIMU", d)
           /\ ReadsItsFrame(format, "sys_status", d)
           /\ ReadsItsFrame(format, "latitude_longitude", d)
           /\ ReadsItsFrame(format, "altitude", d)
           /\ ReadsItsFrame(format, "velocity_level", d)
           /\ ReadsItsFrame(format, "velocity_level_sigma", d)
           /\ ReadsItsFrame(format, "accel_vehicle", d)
           /\ ReadsItsFrame(format, "angrate_vehicle", d)
           /\ ReadsItsFrame(format, "longitude", d)
           /\ ReadsItsFrame(format, "latitude", d)
<1>1. ReadsItsFrame(format, "time", d)
  <2>1. Layout["time"] = Unsigned(<<16, 32>>)
    BY DEF Layout
  <2>2. Motorola(d)["time"] = MotorolaTime(d) /\ Intel(d)["time"] = IntelTime(d)
    BY DEF Motorola, Intel
  <2> QED
    BY <2>1, <2>2, TimeFrame, Zenon DEF ReadsItsFrame
<1>2. ReadsItsFrame(format, "angrate_rawIMU", d)
  <2>1. Layout["angrate_rawIMU"] = SignedAt(Unsigned(<<20, 20, 20>>), {1, 2, 3})
    BY DEF Layout
  <2>2. /\ Motorola(d)["angrate_rawIMU"] = MotorolaAngRateRaw(d)
       /\ Intel(d)["angrate_rawIMU"] = IntelAngRateRaw(d)
    BY DEF Motorola, Intel
  <2>3. MotorolaAngRateRaw(d) = MotorolaSigned20(d) /\ IntelAngRateRaw(d) = IntelSigned20(d)
    BY Zenon DEF MotorolaAngRateRaw, IntelAngRateRaw
  <2> QED
    BY <2>1, <2>2, <2>3, ThreeSigned, Zenon DEF ReadsItsFrame
<1>3. ReadsItsFrame(format, "accel_rawIMU", d)
  <2>1. Layout["accel_rawIMU"] = SignedAt(Unsigned(<<20, 20, 20>>), {1, 2, 3})
    BY DEF Layout
  <2>2. /\ Motorola(d)["accel_rawIMU"] = MotorolaAccelRaw(d)
       /\ Intel(d)["accel_rawIMU"] = IntelAccelRaw(d)
    BY DEF Motorola, Intel
  <2>3. MotorolaAccelRaw(d) = MotorolaSigned20(d) /\ IntelAccelRaw(d) = IntelSigned20(d)
    BY Zenon DEF MotorolaAccelRaw, IntelAccelRaw
  <2> QED
    BY <2>1, <2>2, <2>3, ThreeSigned, Zenon DEF ReadsItsFrame
<1>4. ReadsItsFrame(format, "sys_status", d)
  <2>1. Layout["sys_status"] = Unsigned(<<8, 8, 8, 8, 16, 8, 8>>)
    BY DEF Layout
  <2>2. /\ Motorola(d)["sys_status"] = MotorolaSysStatus(d)
       /\ Intel(d)["sys_status"] = IntelSysStatus(d)
    BY DEF Motorola, Intel
  <2> QED
    BY <2>1, <2>2, StatusFrame, Zenon DEF ReadsItsFrame
<1>5. ReadsItsFrame(format, "latitude_longitude", d)
  <2>1. Layout["latitude_longitude"] = Unsigned(<<32, 32>>)
    BY DEF Layout
  <2>2. /\ Motorola(d)["latitude_longitude"] = MotorolaLatLon(d)
       /\ Intel(d)["latitude_longitude"] = IntelLatLon(d)
    BY DEF Motorola, Intel
  <2> QED
    BY <2>1, <2>2, LatLonFrame, Zenon DEF ReadsItsFrame
<1>6. ReadsItsFrame(format, "altitude", d)
  <2>1. Layout["altitude"] = Unsigned(<<32>>)
    BY DEF Layout
  <2>2. Motorola(d)["altitude"] = MotorolaAltitude(d) /\ Intel(d)["altitude"] = IntelAltitude(d)
    BY DEF Motorola, Intel
  <2> QED
    BY <2>1, <2>2, AltitudeFrame, Zenon DEF ReadsItsFrame
<1>7. ReadsItsFrame(format, "velocity_level", d)
  <2>1. Layout["velocity_level"] = SignedAt(Unsigned(<<16, 16, 16, 16>>), {1, 2, 3, 4})
    BY DEF Layout
  <2>2. /\ Motorola(d)["velocity_level"] = MotorolaVelocity(d)
       /\ Intel(d)["velocity_level"] = IntelVelocity(d)
    BY DEF Motorola, Intel
  <2> QED
    BY <2>1, <2>2, Velocity, Zenon DEF ReadsItsFrame
<1>8. ReadsItsFrame(format, "velocity_level_sigma", d)
  <2>1. Layout["velocity_level_sigma"] = Unsigned(<<16, 16, 16, 16>>)
    BY DEF Layout
  <2>2. /\ Motorola(d)["velocity_level_sigma"] = MotorolaVelocitySigma(d)
       /\ Intel(d)["velocity_level_sigma"] = IntelVelocitySigma(d)
    BY DEF Motorola, Intel
  <2> QED
    BY <2>1, <2>2, VelocitySigma, Zenon DEF ReadsItsFrame
<1>9. ReadsItsFrame(format, "accel_vehicle", d)
  <2>1. Layout["accel_vehicle"] = SignedAt(Unsigned(<<20, 20, 20>>), {1, 2, 3})
    BY DEF Layout
  <2>2. /\ Motorola(d)["accel_vehicle"] = MotorolaAccel(d)
       /\ Intel(d)["accel_vehicle"] = IntelAccel(d)
    BY DEF Motorola, Intel
  <2>3. MotorolaAccel(d) = MotorolaSigned20(d) /\ IntelAccel(d) = IntelSigned20(d)
    BY Zenon DEF MotorolaAccel, IntelAccel
  <2> QED
    BY <2>1, <2>2, <2>3, ThreeSigned, Zenon DEF ReadsItsFrame
<1>10. ReadsItsFrame(format, "angrate_vehicle", d)
  <2>1. Layout["angrate_vehicle"] = SignedAt(Unsigned(<<20, 20, 20>>), {1, 2, 3})
    BY DEF Layout
  <2>2. /\ Motorola(d)["angrate_vehicle"] = MotorolaAngRate(d)
       /\ Intel(d)["angrate_vehicle"] = IntelAngRate(d)
    BY DEF Motorola, Intel
  <2>3. MotorolaAngRate(d) = MotorolaSigned20(d) /\ IntelAngRate(d) = IntelSigned20(d)
    BY Zenon DEF MotorolaAngRate, IntelAngRate
  <2> QED
    BY <2>1, <2>2, <2>3, ThreeSigned, Zenon DEF ReadsItsFrame
<1>11. ReadsItsFrame(format, "longitude", d)
  <2>1. Layout["longitude"] = Unsigned(<<64>>)
    BY DEF Layout
  <2>2. /\ Motorola(d)["longitude"] = MotorolaLongitude(d)
       /\ Intel(d)["longitude"] = IntelLongitude(d)
    BY DEF Motorola, Intel
  <2> QED
    BY <2>1, <2>2, DegreesFrame, Zenon DEF ReadsItsFrame
<1>12. ReadsItsFrame(format, "latitude", d)
  <2>1. Layout["latitude"] = Unsigned(<<64>>)
    BY DEF Layout
  <2>2. Motorola(d)["latitude"] = MotorolaLatitude(d) /\ Intel(d)["latitude"] = IntelLatitude(d)
    BY DEF Motorola, Intel
  <2>3. MotorolaLatitude(d) = MotorolaLongitude(d) /\ IntelLatitude(d) = IntelLongitude(d)
    BY Zenon DEF MotorolaLatitude, IntelLatitude, MotorolaLongitude, IntelLongitude
  <2> QED
    BY <2>1, <2>2, <2>3, DegreesFrame, Zenon DEF ReadsItsFrame
<1> QED
  BY <1>1, <1>2, <1>3, <1>4, <1>5, <1>6, <1>7, <1>8, <1>9, <1>10, <1>11, <1>12

\* Of the angles the manual lists three.
LEMMA AngleFrame ==
    ASSUME NEW format, NEW d \in Bytes8
    PROVE  AsLaidOut(format, "heading_pitch_roll",
                     IF format = "motorola" THEN Motorola(d)["heading_pitch_roll"]
                                            ELSE Intel(d)["heading_pitch_roll"], d)
<1>1. Layout["heading_pitch_roll"] = SignedAt(Unsigned(<<16, 16, 16>>), {2, 3})
  BY DEF Layout
<1>2. /\ Motorola(d)["heading_pitch_roll"] = MotorolaAngle(d)
      /\ Intel(d)["heading_pitch_roll"] = IntelAngle(d)
  BY DEF Motorola, Intel
<1> QED
  BY <1>1, <1>2, Angle, Zenon DEF AsLaidOut

\* The fifteen names.
Names ==
    {"time", "angrate_rawIMU", "accel_rawIMU", "sys_status", "latitude_longitude",
     "altitude", "pos_sigma", "velocity_level", "velocity_level_sigma", "accel_vehicle",
     "heading_pitch_roll", "heading_pitch_roll_sigma", "angrate_vehicle", "longitude",
     "latitude"}

\* An identifier that the decoders know gives one of them.
LEMMA NamesOfIds ==
    ASSUME NEW id \in CanIds
    PROVE  FrameName(id) \in Names
<1> DEFINE k == id - FirstId + 1
<1>1. k \in 1..15
  BY DEF CanIds, FirstId
<1> HIDE DEF k
<1>2. FrameOfId[k] \in Names
  BY <1>1 DEF FrameOfId, Names
<1> QED
  BY <1>2 DEF FrameName, k

\* Whatever the format, the identifier and the eight bytes, the decoder sets what
\* the layout says: its shifts, masks and signs are the fields' bits.
LEMMA DecodedAsLaidOut ==
    ASSUME NEW format, NEW id \in CanIds, FrameName(id) \notin ReadOtherwise,
           NEW d \in Bytes8
    PROVE  AsLaidOut(format, FrameName(id), Decoded(format, id, d), d)
<1>1. CASE FrameName(id) = "heading_pitch_roll"
  BY <1>1, AngleFrame, Zenon DEF Decoded
<1>2. CASE FrameName(id) # "heading_pitch_roll"
  <2>1. ReadsItsFrame(format, FrameName(id), d)
    BY <1>2, NamesOfIds, NamedFrames, Zenon DEF Names, ReadOtherwise
  <2>2. Decoded(format, id, d) = ReadAll(format, d, Layout[FrameName(id)])
    BY <2>1, Zenon DEF Decoded, ReadsItsFrame
  <2> QED
    BY <2>2 DEF AsLaidOut, ReadAll
<1> QED
  BY <1>1, <1>2

-----------------------------------------------------------------------------
(* The fields are as they are laid out *)

\* A data frame that waits in a socket of CAN has its eight bytes.
Whole(q) == \A i \in 1..Len(q) : q[i].kind = "data" => q[i].data \in Bytes8
FramesWait == Is("can") => \A s \in Sockets : Whole(inbox[s])

Decodes ==
    /\ DOMAIN fields = FrameNames /\ DOMAIN last = FrameNames
    /\ FieldsAsLaidOut
LayoutInv == FramesWait /\ Decodes

\* Nothing waits.
LEMMA WholeEmpty == Whole(<<>>)
BY DEF Whole

\* The first of what waits is taken.
LEMMA WholeTail ==
    ASSUME NEW q \in Seq(Messages), q # <<>>, Whole(q)
    PROVE  Whole(Tail(q))
<1>1. /\ Len(q) \in Nat /\ Len(Tail(q)) = Len(q) - 1
      /\ \A i \in 1..Len(Tail(q)) : Tail(q)[i] = q[i + 1]
  BY HeadTailProperties, LenProperties
<1>2. ASSUME NEW i \in 1..Len(Tail(q))
      PROVE  Tail(q)[i].kind = "data" => Tail(q)[i].data \in Bytes8
  <2>1. Tail(q)[i] = q[i + 1] /\ i + 1 \in 1..Len(q)
    BY <1>1
  <2> QED
    BY <2>1 DEF Whole
<1> QED
  BY <1>2 DEF Whole

\* Another one comes.
LEMMA WholeAppend ==
    ASSUME NEW q \in Seq(Messages), NEW m \in Messages, Whole(q),
           m.kind = "data" => m.data \in Bytes8
    PROVE  Whole(Append(q, m))
<1>1. /\ Len(q) \in Nat /\ Len(Append(q, m)) = Len(q) + 1
      /\ \A i \in 1..Len(q) : Append(q, m)[i] = q[i]
      /\ Append(q, m)[Len(q) + 1] = m
  BY AppendProperties, LenProperties
<1>2. ASSUME NEW i \in 1..Len(Append(q, m))
      PROVE  Append(q, m)[i].kind = "data" => Append(q, m)[i].data \in Bytes8
  <2>1. i \in 1..Len(q) \/ i = Len(q) + 1
    BY <1>1
  <2>2. CASE i \in 1..Len(q)
    BY <1>1, <2>2 DEF Whole
  <2>3. CASE i = Len(q) + 1
    BY <1>1, <2>3
  <2> QED
    BY <2>1, <2>2, <2>3
<1> QED
  BY <1>2 DEF Whole

\* What the device sends as a data frame is one of the payloads.
LEMMA SendsWhole ==
    ASSUME TypeInv, DeviceSends, Is("can")
    PROVE  \E m \in Messages :
             /\ m.kind = "data" => m.data \in Bytes8
             /\ inbox' = [s \in Sockets |-> IF Hears(s) THEN Append(inbox[s], m) ELSE inbox[s]]
<1>1. sent + 1 \in DOMAIN Payloads[mode.write] /\ sent + 1 \in Nat /\ mode.write \in BOOLEAN
  BY ModeFacts DEF DeviceSends, TypeInv, DataTyped
<1>2. PICK kind \in Kinds : \E m \in Message(kind) :
        inbox' = [s \in Sockets |-> IF Hears(s) THEN Append(inbox[s], m) ELSE inbox[s]]
  BY DEF DeviceSends
<1>3. PICK m \in Message(kind) :
        inbox' = [s \in Sockets |-> IF Hears(s) THEN Append(inbox[s], m) ELSE inbox[s]]
  BY <1>2
<1>4. kind \in {"data", "empty", "extended", "remote", "error"}
  BY <1>2 DEF Kinds
<1>5. m \in Messages /\ (m.kind = "data" => m.data \in Bytes8)
  <2>1. CASE kind = "data"
    <3>1. PICK p \in Payloads[mode.write][sent + 1] :
            m = [n |-> sent + 1, kind |-> kind, id |-> p.id, data |-> p.data]
      BY <1>3, <2>1 DEF Message
    <3>2. p \in Framed /\ p \in [id : Nat, data : Bytes8]
      BY <1>1, <3>1, PayloadsAssumption DEF Framed
    <3>3. p.data \in Bytes8
      BY <3>2
    <3> QED
      BY <3>1, <3>2, <3>3, <1>1, <2>1 DEF Messages
  <2>2. CASE kind # "data"
    <3>1. m = [n |-> sent + 1, kind |-> kind]
      BY <1>3, <2>2 DEF Message
    <3> QED
      BY <3>1, <1>1, <1>4, <2>2 DEF Messages
  <2> QED
    BY <2>1, <2>2
<1> QED
  BY <1>3, <1>5

\* What waits stays or is gone.
LEMMA SocketsKeepWhole ==
    ASSUME TypeInv, FramesWait, UNCHANGED mode,
           Is("can") => \A s \in Sockets : inbox'[s] = inbox[s] \/ inbox'[s] = <<>>
    PROVE  FramesWait'
BY WholeEmpty DEF FramesWait, Is

\* Whatever step it is, only whole frames wait in the sockets of CAN.
LEMMA FramesKept ==
    ASSUME TypeInv, TakesStreams, FramesWait, Next
    PROVE  FramesWait'
<1>1. inbox \in [Sockets -> Seq(Messages)]
  BY DEF TypeInv, DataTyped
<1>2. ASSUME NEW t \in Threads, Step(t) PROVE FramesWait'
  <2>1. CASE Lost(t) \/ Reconnect(t) \/ ConnectBegin(t)
    <3>1. UNCHANGED mode /\ (CloseIt \/ UNCHANGED inbox)
      BY <2>1 DEF Lost, Reconnect, ConnectBegin, kernel
    <3>2. \A s \in Sockets : inbox'[s] = inbox[s] \/ inbox'[s] = <<>>
      BY <3>1 DEF CloseIt, Kept
    <3> QED
      BY <3>1, <3>2, SocketsKeepWhole
  <2>2. CASE Open(t)
    <3>1. UNCHANGED mode
      BY <2>2, OpenCases
    <3>2. Is("can") => UNCHANGED inbox \/ \E fd, s : Opens(fd, s, <<>>)
      BY <2>2, OpenCases DEF Is
    <3>3. Is("can") => \A s \in Sockets : inbox'[s] = inbox[s] \/ inbox'[s] = <<>>
      BY <1>1, <3>2 DEF Opens, NewSocket
    <3> QED
      BY <3>1, <3>3, SocketsKeepWhole
  <2>3. CASE Bind(t)
    <3>1. UNCHANGED <<mode, inbox>>
      BY <2>3 DEF Bind
    <3> QED
      BY <3>1, SocketsKeepWhole
  <2> QED
    BY <1>2, <2>1, <2>2, <2>3 DEF Step
<1>3. CASE Start \/ Enter \/ EnterStream \/ WriteCalled \/ WorldChanges
  <2>1. UNCHANGED <<mode, inbox>>
    BY <1>3 DEF Start, Enter, EnterStream, WriteCalled, WorldChanges, kernel
  <2> QED
    BY <2>1, SocketsKeepWhole
<1>4. CASE RecvFails
  <2>1. UNCHANGED mode /\ \A s \in Sockets : inbox'[s] = inbox[s] \/ inbox'[s] = <<>>
    BY <1>4 DEF RecvFails, Kept
  <2> QED
    BY <2>1, SocketsKeepWhole
<1>5. CASE RecvUdp \/ RecvCan
  <2>1. /\ UNCHANGED mode /\ held \in Sockets /\ inbox[held] # <<>>
        /\ inbox' = Kept([inbox EXCEPT ![held] = Tail(@)], <<>>)
    BY <1>5, RecvCases
  <2>2. ASSUME Is("can"), NEW s \in Sockets PROVE Whole(inbox'[s])
    <3>1. inbox[s] \in Seq(Messages) /\ Whole(inbox[s])
      BY <1>1, <2>2 DEF FramesWait
    <3>2. inbox'[s] = inbox[s] \/ inbox'[s] = <<>> \/ (s = held /\ inbox'[s] = Tail(inbox[s]))
      BY <1>1, <2>1 DEF Kept
    <3> QED
      BY <2>1, <3>1, <3>2, WholeEmpty, WholeTail
  <2> QED
    BY <2>1, <2>2 DEF FramesWait, Is
<1>6. CASE ReadStream
  <2>1. UNCHANGED mode /\ ~Is("can")
    BY <1>6 DEF ReadStream, TakesStreams, Stream, Is
  <2> QED
    BY <2>1 DEF FramesWait, Is
<1>7. CASE Write
  <2>1. UNCHANGED mode /\ (UNCHANGED inbox \/ ~Is("can"))
    BY <1>7, WriteCases DEF Is
  <2> QED
    BY <2>1, SocketsKeepWhole
<1>8. CASE DeviceSends
  <2>1. UNCHANGED mode
    BY <1>8 DEF DeviceSends
  <2>2. ASSUME Is("can"), NEW s \in Sockets PROVE Whole(inbox'[s])
    <3>1. PICK m \in Messages :
             /\ m.kind = "data" => m.data \in Bytes8
             /\ inbox' = [r \in Sockets |-> IF Hears(r) THEN Append(inbox[r], m) ELSE inbox[r]]
      BY <1>8, <2>2, SendsWhole
    <3>2. inbox[s] \in Seq(Messages) /\ Whole(inbox[s])
      BY <1>1, <2>2 DEF FramesWait
    <3>3. inbox'[s] = inbox[s] \/ inbox'[s] = Append(inbox[s], m)
      BY <3>1
    <3> QED
      BY <3>1, <3>2, <3>3, WholeAppend
  <2> QED
    BY <2>1, <2>2 DEF FramesWait, Is
<1>9. "main" \in Threads /\ "exec" \in Threads
  BY DEF Threads
<1> QED
  BY <1>2, <1>3, <1>4, <1>5, <1>6, <1>7, <1>8, <1>9 DEF Next, Main, Exec

\* Nothing but the decoders touches what they set.
LEMMA OnlyRecvDecodes ==
    ASSUME Next
    PROVE  RecvCan \/ UNCHANGED <<mode, fields, last>>
<1>1. ASSUME NEW t \in Threads, Step(t) PROVE UNCHANGED <<mode, fields, last>>
  BY <1>1 DEF Step, Lost, Reconnect, ConnectBegin, Open, Bind, received
<1>2. CASE Start \/ Enter \/ RecvFails \/ EnterStream \/ ReadStream
  BY <1>2 DEF Start, Enter, RecvFails, EnterStream, ReadStream, received
<1>3. CASE RecvUdp
  BY <1>3 DEF RecvUdp, TakeFrom
<1>4. CASE Write \/ WriteCalled \/ DeviceSends \/ WorldChanges
  BY <1>4 DEF Write, WriteCalled, DeviceSends, WorldChanges, received
<1>5. "main" \in Threads /\ "exec" \in Threads
  BY DEF Threads
<1> QED
  BY <1>1, <1>2, <1>3, <1>4, <1>5 DEF Next, Main, Exec

\* The decoders set one frame's fields, from the frame that is taken.
LEMMA RecvDecodes ==
    ASSUME TypeInv, FramesWait, Decodes, RecvCan
    PROVE  Decodes'
<1> DEFINE m == Head(inbox[held])
<1>1. UNCHANGED mode /\ Is("can") /\ held \in Sockets /\ inbox[held] # <<>>
  BY RecvCases DEF RecvCan
<1>2. m.kind = "data" => m.data \in Bytes8
  <2>1. inbox[held] \in Seq(Messages) /\ Whole(inbox[held])
    BY <1>1 DEF TypeInv, DataTyped, FramesWait
  <2>2. 1 \in 1..Len(inbox[held]) /\ m = inbox[held][1]
    BY <1>1, <2>1, HeadTailProperties, EmptySeq, LenProperties
  <2> QED
    BY <2>1, <2>2 DEF Whole
<1>3. \/ UNCHANGED <<fields, last>>
      \/ /\ m.kind = "data" /\ m.id \in CanIds
         /\ fields' = [fields EXCEPT ![FrameName(m.id)] = Decoded(mode.format, m.id, m.data)]
         /\ last' = [last EXCEPT ![FrameName(m.id)] = m.data]
  BY DEF RecvCan
<1> HIDE DEF m
<1>4. CASE UNCHANGED <<fields, last>>
  BY <1>1, <1>4 DEF Decodes, FieldsAsLaidOut
<1>5. CASE /\ m.kind = "data" /\ m.id \in CanIds
           /\ fields' = [fields EXCEPT ![FrameName(m.id)] = Decoded(mode.format, m.id, m.data)]
           /\ last' = [last EXCEPT ![FrameName(m.id)] = m.data]
  <2>1. DOMAIN fields' = FrameNames /\ DOMAIN last' = FrameNames
    BY <1>5 DEF Decodes
  <2>2. ASSUME NEW name \in FrameNames \ ReadOtherwise, last'[name] # <<>>
        PROVE  AsLaidOut(mode'.format, name, fields'[name], last'[name])
    <3>1. CASE name = FrameName(m.id)
      <4>1. fields'[name] = Decoded(mode.format, m.id, m.data) /\ last'[name] = m.data
        BY <1>5, <3>1 DEF Decodes
      <4>2. AsLaidOut(mode.format, FrameName(m.id), Decoded(mode.format, m.id, m.data), m.data)
        BY <1>2, <1>5, <3>1, DecodedAsLaidOut, Zenon
      <4> QED
        BY <1>1, <3>1, <4>1, <4>2
    <3>2. CASE name # FrameName(m.id)
      <4>1. fields'[name] = fields[name] /\ last'[name] = last[name]
        BY <1>5, <3>2 DEF Decodes
      <4> QED
        BY <1>1, <2>2, <4>1 DEF Decodes, FieldsAsLaidOut
    <3> QED
      BY <3>1, <3>2
  <2> QED
    BY <2>1, <2>2 DEF Decodes, FieldsAsLaidOut
<1> QED
  BY <1>3, <1>4, <1>5

\* No step breaks it.
LEMMA LayoutKept == IInv /\ LayoutInv /\ [Next]_vars => LayoutInv'
<1> SUFFICES ASSUME IInv, LayoutInv, [Next]_vars PROVE LayoutInv'
  OBVIOUS
<1>1. CASE UNCHANGED vars
  <2>1. UNCHANGED <<mode, inbox, fields, last>>
    BY <1>1 DEF vars, kernel, received
  <2> QED
    BY <2>1 DEF LayoutInv, FramesWait, Whole, Decodes, FieldsAsLaidOut, Is
<1>2. CASE Next
  <2>1. FramesWait'
    BY <1>2, FramesKept DEF IInv, LayoutInv
  <2>2. CASE RecvCan
    BY <2>1, <2>2, RecvDecodes DEF IInv, LayoutInv
  <2>3. CASE UNCHANGED <<mode, fields, last>>
    BY <2>1, <2>3 DEF LayoutInv, Decodes, FieldsAsLaidOut
  <2> QED
    BY <1>2, <2>2, <2>3, OnlyRecvDecodes
<1> QED
  BY <1>1, <1>2

\* Every field that the manual lists of a CAN frame, but for the sigmas of position and
\* attitude, is what its layout says of the last frame with that name, in either format:
\* for all eight bytes there are, and although two threads connect and disconnect the
\* socket in between.
THEOREM FieldsFollowLayout == Spec => []FieldsAsLaidOut
<1>1. Init => LayoutInv
  <2> SUFFICES ASSUME Init PROVE LayoutInv
    OBVIOUS
  <2>1. \A s \in Sockets : Whole(inbox[s])
    BY WholeEmpty DEF Init
  <2>2. Decodes
    BY DEF Init, Decodes, FieldsAsLaidOut
  <2> QED
    BY <2>1, <2>2 DEF LayoutInv, FramesWait
<1>2. IInv /\ IInv' /\ LayoutInv /\ [Next]_vars => LayoutInv'
  BY LayoutKept
<1>3. LayoutInv => FieldsAsLaidOut
  BY DEF LayoutInv, Decodes
<1> QED
  BY <1>1, <1>2, <1>3, Invariance, PTL DEF Spec

=============================================================================
