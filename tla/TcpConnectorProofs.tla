-------------------------- MODULE TcpConnectorProofs --------------------------
(***************************************************************************)
(* A connector that is a server, or a client in the hands of one thread,   *)
(* never says that it is connected when it is not, and never loses a       *)
(* descriptor: with any number of descriptors, attempts and events.        *)
(***************************************************************************)
EXTENDS TcpConnector, TLAPS

\* How the node must be launched: of two threads, only a server's may share it.
OneThreadOrServes == \A m \in Modes : m.server \/ (m.read /\ ~m.write)

Dialling == {"connect", "reclose", "socket", "dial", "dialfail"}
Serving == {"listen", "accept"}

\* Where the threads are: a server never dials, a client never serves, and only
\* a server's executor thread moves.
Places ==
    /\ pc["main"] \in Dialling \cup Serving \cup {"judge", "try", "judged", "read", "reading"}
    /\ pc["exec"] \in {"absent", "idle", "write", "writing", "writefail"}
    /\ caller["main"] # "write"
    /\ caller["exec"] = "write"
    /\ Server => pc["main"] \notin Dialling
    /\ ~Server =>
         /\ ~mode.write
         /\ listenfd = -1
         /\ pc["main"] \notin Serving
         /\ pc["exec"] \in {"absent", "idle"}

\* An attempt of judge_connect_state is one of MaxTries, and every connection
\* that waits has arrived.
Bounded ==
    /\ pc["main"] \in Labels /\ caller["main"] = "judge" => tries < MaxTries
    /\ backlog <= events

\* What the descriptor is: the connection, or one that is being dialled, or none.
Linked ==
    /\ status = 1 => Is(socketfd, {"up", "eof", "reset"})
    /\ pc["main"] \in {"dial", "dialfail"} => status = -1 /\ Is(socketfd, {"fresh"})
    /\ status = -1 /\ pc["main"] \notin {"dial", "dialfail"} => socketfd = -1
    /\ pc["main"] \in {"reclose", "socket", "listen", "accept"} => status = -1
    /\ listenfd # -1 => Is(listenfd, {"listen"})

IInv == TypeOK /\ Places /\ Bounded /\ Linked /\ NoLeak

Kinds == {"free", "fresh", "up", "eof", "reset", "listen"}

-----------------------------------------------------------------------------

\* What a call may count on.
LEMMA Types ==
    ASSUME IInv
    PROVE  /\ -1 \notin Fds
           /\ sock \in [Fds -> Kinds]
           /\ MaxFd \in Nat /\ MaxTries \in Nat /\ MaxEvents \in Nat
           /\ Lowest \subseteq Free /\ Free \subseteq Fds
           /\ \A fd \in Free : sock[fd] = "free"
           /\ DOMAIN pc = Threads /\ DOMAIN caller = Threads
BY BoundAssumption DEF IInv, TypeOK, Fds, Kinds, Lowest, Free

\* Closing the connection leaves none.
LEMMA ClosingKeeps ==
    ASSUME IInv, CloseClient, UNCHANGED listenfd
    PROVE  /\ status' = -1 /\ socketfd' = -1
           /\ sock' \in [Fds -> Kinds]
           /\ socketfd # -1 /\ socketfd # listenfd => sock' = [sock EXCEPT ![socketfd] = "free"]
           /\ listenfd # -1 /\ socketfd # listenfd => sock'[listenfd] = sock[listenfd]
<1>1. sock' = IF socketfd \in Fds THEN [sock EXCEPT ![socketfd] = "free"] ELSE sock
  BY DEF CloseClient, Closed
<1>2. socketfd \in Fds \cup {-1} /\ listenfd \in Fds \cup {-1}
  BY DEF IInv, TypeOK
<1> QED
  BY <1>1, <1>2, Types DEF CloseClient, Kinds

\* Where the main thread goes on after connect().
LEMMA Returns ==
    ASSUME IInv, NEW ok \in BOOLEAN, pc["main"] \in Labels, Return("main", ok)
    PROVE  /\ caller' = caller
           /\ pc' \in [Threads -> Labels \cup {"judge", "try", "judged", "read", "reading",
                                             "absent", "idle", "write", "writing",
                                             "writefail"}]
           /\ pc'["main"] \in {"judge", "try", "judged", "read"}
           /\ pc'["exec"] \in {pc["exec"], "idle"}
           /\ tries' \in 0..MaxTries
<1>0. caller["main"] \in {"start", "judge", "read"} /\ MaxTries \in Nat /\ tries \in 0..MaxTries
  BY BoundAssumption DEF IInv, TypeOK, Places, Threads
<1>1. PICK label \in {"judge", "try", "judged", "read"}, other \in {pc["exec"], "idle"} :
        pc' = [pc EXCEPT !["main"] = label, !["exec"] = other]
  <2>1. pc \in [Threads -> Labels \cup {"judge", "try", "judged", "read", "reading",
                                       "absent", "idle", "write", "writing", "writefail"}]
    BY DEF IInv, TypeOK
  <2> QED
    BY <1>0, <2>1 DEF Return, Goto, Threads
<1>2. tries' = tries \/ (caller["main"] = "judge" /\ tries' = tries + 1)
  BY <1>0 DEF Return
<1>3. tries' \in 0..MaxTries
  BY <1>0, <1>2 DEF IInv, Bounded
<1> QED
  BY <1>0, <1>1, <1>3 DEF Return, IInv, TypeOK, Threads

\* The steps of a client's connect().
LEMMA DialKeeps ==
    ASSUME IInv, UNCHANGED mode,
           ConnectBegin("main") \/ Reclose("main") \/ Socket("main") \/ Dial("main")
             \/ DialFail("main")
    PROVE  IInv'
<1> USE DEF IInv, TypeOK, Places, Bounded, Linked, NoLeak, Dialling, Serving, Labels, Goto, Is,
            Server, Threads, remote, object
<1>0. /\ -1 \notin Fds
      /\ sock \in [Fds -> Kinds]
      /\ MaxFd \in Nat /\ MaxTries \in Nat /\ MaxEvents \in Nat
      /\ Lowest \subseteq Fds
      /\ \A fd \in Lowest : sock[fd] = "free"
  BY Types
<1>1. CASE ConnectBegin("main")
  BY <1>0, <1>1 DEF ConnectBegin, Disconnect, CloseClient, Closed
<1>2. CASE Reclose("main")
  BY <1>0, <1>2 DEF Reclose, Closed
<1>3. CASE Socket("main")
  <2>1. ASSUME NEW fd \in Lowest, socketfd' = fd, sock' = [sock EXCEPT ![fd] = "fresh"],
               Goto("main", "dial"), UNCHANGED <<status, caller, tries, events>>
        PROVE  IInv'
    <3>1. fd \in Fds /\ sock[fd] = "free" /\ status = -1 /\ socketfd = -1 /\ listenfd = -1
      BY <1>0, <1>3 DEF Socket
    <3>2. UNCHANGED <<listenfd, reachable, backlog>> /\ pc["main"] = "socket"
      BY <1>3 DEF Socket
    <3> QED
      BY <1>0, <2>1, <3>1, <3>2
  <2>2. ASSUME Unasked, socketfd' = -1, status' = -1, UNCHANGED sock, Return("main", FALSE)
        PROVE  IInv'
    <3>1. events' \in 0..MaxEvents /\ backlog <= events'
      BY <1>0, <2>2 DEF Unasked
    <3>2. UNCHANGED <<listenfd, reachable, backlog>> /\ pc["main"] = "socket"
      BY <1>3 DEF Socket
    <3>3. pc["main"] \in Labels
      BY <3>2
    <3> QED
      BY <1>0, <2>2, <3>1, <3>2, <3>3, Returns
  <2> QED
    BY <1>3, <2>1, <2>2 DEF Socket
<1>4. CASE Dial("main")
  <2>1. CASE Is(socketfd, {"fresh"}) /\ reachable
    <3>1. Return("main", TRUE)
      BY <1>4, <2>1 DEF Dial
    <3> QED
      BY <1>0, <1>4, <2>1, <3>1, Returns DEF Dial
  <2>2. CASE ~(Is(socketfd, {"fresh"}) /\ reachable)
    BY <1>0, <1>4, <2>2 DEF Dial
  <2> QED
    BY <2>1, <2>2
<1>5. CASE DialFail("main")
  <2>1. Return("main", FALSE)
    BY <1>5 DEF DialFail
  <2> QED
    BY <1>0, <1>5, <2>1, Returns DEF DialFail, Closed
<1> QED
  BY <1>1, <1>2, <1>3, <1>4, <1>5

\* The steps of a server's.
LEMMA ServeKeeps ==
    ASSUME IInv, UNCHANGED mode, Listen("main") \/ Accept("main")
    PROVE  IInv'
<1> USE DEF IInv, TypeOK, Places, Bounded, Linked, NoLeak, Dialling, Serving, Labels, Goto, Is,
            Server, Threads, remote, object
<1>0. /\ -1 \notin Fds
      /\ sock \in [Fds -> Kinds]
      /\ MaxFd \in Nat /\ MaxTries \in Nat /\ MaxEvents \in Nat
      /\ Lowest \subseteq Fds
      /\ \A fd \in Lowest : sock[fd] = "free"
  BY Types
<1>1. CASE Listen("main")
  <2>0. UNCHANGED <<status, socketfd, reachable, backlog>> /\ pc["main"] = "listen"
    BY <1>1 DEF Listen
  <2>1. CASE Goto("main", "accept") /\ UNCHANGED <<listenfd, sock, caller, tries, events>>
    BY <1>0, <2>0, <2>1
  <2>2. ASSUME NEW fd \in Lowest, listenfd = -1,
               listenfd' = fd, sock' = [sock EXCEPT ![fd] = "listen"],
               Goto("main", "accept"), UNCHANGED <<caller, tries, events>>
        PROVE  IInv'
    <3>1. fd \in Fds /\ sock[fd] = "free" /\ socketfd = -1 /\ status = -1
      BY <1>0, <2>0
    <3> QED
      BY <1>0, <2>0, <2>2, <3>1
  <2>3. ASSUME Unasked, Return("main", FALSE), UNCHANGED <<listenfd, sock>>
        PROVE  IInv'
    <3>1. events' \in 0..MaxEvents /\ backlog <= events'
      BY <1>0, <2>3 DEF Unasked
    <3>2. pc["main"] \in Labels
      BY <2>0
    <3> QED
      BY <1>0, <2>0, <2>3, <3>1, <3>2, Returns
  <2> QED
    BY <1>1, <2>1, <2>2, <2>3 DEF Listen
<1>2. CASE Accept("main")
  <2>0. UNCHANGED <<listenfd, reachable, events>> /\ pc["main"] = "accept" /\ pc["main"] \in Labels
    BY <1>2 DEF Accept
  <2>1. ASSUME NEW fd \in Lowest, backlog > 0, backlog' = backlog - 1,
               socketfd' = fd, sock' = [sock EXCEPT ![fd] = "up"], status' = 1,
               Return("main", TRUE)
        PROVE  IInv'
    <3>1. fd \in Fds /\ sock[fd] = "free" /\ socketfd = -1
      BY <1>0, <2>0
    <3>2. backlog' \in 0..MaxEvents /\ backlog' <= events'
      BY <1>0, <2>0, <2>1
    <3> QED
      BY <1>0, <2>0, <2>1, <3>1, <3>2, Returns
  <2>2. ASSUME UNCHANGED <<backlog, socketfd, sock, status>>, Return("main", FALSE)
        PROVE  IInv'
    BY <1>0, <2>0, <2>2, Returns
  <2> QED
    BY <1>2, <2>1, <2>2 DEF Accept
<1> QED
  BY <1>1, <1>2

\* The main thread's other steps.
LEMMA MainKeeps ==
    ASSUME IInv, UNCHANGED mode, Main
    PROVE  IInv'
<1> USE DEF IInv, TypeOK, Places, Bounded, Linked, NoLeak, Dialling, Serving, Labels, Goto, Is,
            Server, WriteOnly, Threads, remote, object
<1>0. /\ -1 \notin Fds
      /\ sock \in [Fds -> Kinds]
      /\ MaxFd \in Nat /\ MaxTries \in Nat /\ MaxEvents \in Nat
  BY Types
<1>1. CASE Judge
  BY <1>0, <1>1 DEF Judge
<1>2. CASE Try
  BY <1>0, <1>2 DEF Try, Call
<1>3. CASE Judged
  BY <1>0, <1>3 DEF Judged
<1>4. CASE ReadCheck
  BY <1>0, <1>4 DEF ReadCheck, Call
<1>5. CASE ReadData
  BY <1>0, <1>5 DEF ReadData
<1>6. CASE ReadEnd
  BY <1>0, <1>6 DEF ReadEnd, CloseClient, Closed
<1> QED
  BY <1>1, <1>2, <1>3, <1>4, <1>5, <1>6 DEF Main

\* The executor thread's steps, which only a server takes.
LEMMA ExecKeeps ==
    ASSUME IInv, UNCHANGED mode, Exec
    PROVE  IInv'
<1> USE DEF IInv, TypeOK, Places, Bounded, Linked, NoLeak, Dialling, Serving, Labels, Goto, Is,
            Server, Threads, remote, object
<1>0. /\ -1 \notin Fds
      /\ sock \in [Fds -> Kinds]
      /\ MaxFd \in Nat /\ MaxTries \in Nat /\ MaxEvents \in Nat
  BY Types
<1>1. CASE WriteBegin
  BY <1>0, <1>1 DEF Exec, WriteBegin
<1>2. CASE WriteCheck
  BY <1>0, <1>2 DEF Exec, WriteCheck, Call
<1>3. CASE Write
  <2>1. /\ UNCHANGED <<status, socketfd, listenfd, reachable, backlog, caller, tries>>
        /\ \E label \in {"idle", "writefail"} : pc' = [pc EXCEPT !["exec"] = label]
        /\ mode.write
    BY <1>3 DEF Exec, Write
  <2>2. events' \in 0..MaxEvents /\ events <= events'
    BY <1>0, <1>3 DEF Write, Unasked
  <2>3. \/ sock' = sock
        \/ Is(socketfd, {"eof"}) /\ sock' = [sock EXCEPT ![socketfd] = "reset"]
    BY <1>3 DEF Write
  <2>4. Server
    BY <1>3 DEF Exec
  <2> QED
    BY <1>0, <2>1, <2>2, <2>3, <2>4
<1>4. CASE WriteFail
  BY <1>0, <1>4 DEF Exec, WriteFail, CloseClient, Closed
<1> QED
  BY <1>1, <1>2, <1>3, <1>4 DEF Exec

\* What the remote side does.
LEMMA RemoteKeeps ==
    ASSUME IInv, UNCHANGED mode, Appear \/ Leave
    PROVE  IInv'
<1> USE DEF IInv, TypeOK, Places, Bounded, Linked, NoLeak, Is, Server, object
<1>0. /\ -1 \notin Fds
      /\ sock \in [Fds -> Kinds]
      /\ MaxFd \in Nat /\ MaxTries \in Nat /\ MaxEvents \in Nat
  BY Types
<1>1. CASE Appear
  <2>1. UNCHANGED <<sock, pc, caller, tries, status, socketfd, listenfd>>
    BY <1>1 DEF Appear
  <2>2. events' \in 0..MaxEvents /\ backlog' \in 0..MaxEvents /\ backlog' <= events'
    BY <1>0, <1>1 DEF Appear, Unasked
  <2>3. reachable' \in BOOLEAN
    BY <1>1 DEF Appear
  <2> QED
    BY <1>0, <2>1, <2>2, <2>3
<1>2. CASE Leave
  <2>1. UNCHANGED <<backlog, events, pc, caller, tries, status, socketfd, listenfd>>
    BY <1>2 DEF Leave
  <2>2. sock' = sock \/ \E fd \in Fds : sock[fd] = "up" /\ sock' = [sock EXCEPT ![fd] = "eof"]
    BY <1>2 DEF Leave
  <2>3. reachable' \in BOOLEAN
    BY <1>2 DEF Leave
  <2> QED
    BY <1>0, <2>1, <2>2, <2>3
<1> QED
  BY <1>1, <1>2

\* No other thread is in connect().
LEMMA OnlyMainConnects ==
    ASSUME IInv, NEW t \in Threads, Connect(t)
    PROVE  t = "main"
BY DEF IInv, Places, Threads, Connect, ConnectBegin, Reclose, Socket, Dial, DialFail, Listen, Accept

LEMMA StepKeeps ==
    ASSUME IInv, [Next]_vars
    PROVE  IInv'
<1>1. CASE Next
  <2>0. UNCHANGED mode
    BY <1>1 DEF Next
  <2>1. ASSUME NEW t \in Threads, Connect(t) PROVE IInv'
    BY <2>0, <2>1, OnlyMainConnects, DialKeeps, ServeKeeps DEF Connect
  <2> QED
    BY <1>1, <2>0, <2>1, MainKeeps, ExecKeeps, RemoteKeeps DEF Next
<1>2. CASE UNCHANGED vars
  BY <1>2 DEF vars, object, remote, IInv, TypeOK, Places, Bounded, Linked, NoLeak, Is, Server,
              Fds, Threads
<1> QED
  BY <1>1, <1>2

LEMMA InitEstablishes ==
    ASSUME OneThreadOrServes, Init
    PROVE  IInv
<1>1. mode.server \/ (mode.read /\ ~mode.write)
  BY DEF OneThreadOrServes, Init
<1>2. TypeOK
  <2>1. mode \in Modes /\ sock \in [Fds -> {"free", "fresh", "up", "eof", "reset", "listen"}]
    BY DEF Init
  <2>2. caller \in [Threads -> {"start", "judge", "read", "write"}]
    BY DEF Init
  <2>3. \A t \in Threads : pc[t] \in {"absent", "listen", "connect"}
    BY DEF Init
  <2>4. pc \in [Threads -> Labels \cup {"judge", "try", "judged", "read", "reading",
                                        "absent", "idle", "write", "writing", "writefail"}]
    BY <2>3 DEF Init, Labels
  <2>5. backlog \in 0..MaxEvents /\ events \in 0..MaxEvents /\ tries \in 0..MaxTries
    BY BoundAssumption DEF Init
  <2> QED
    BY <2>1, <2>2, <2>4, <2>5 DEF Init, TypeOK
<1>3. Places /\ Bounded /\ Linked /\ NoLeak
  BY <1>1, BoundAssumption
  DEF Init, Places, Bounded, Linked, NoLeak, Dialling, Serving, Labels, Is, Server, Threads, Fds
<1> QED
  BY <1>2, <1>3 DEF IInv

\* The invariant holds in every state.
THEOREM Invariance == OneThreadOrServes => (Spec => []IInv)
<1> SUFFICES ASSUME OneThreadOrServes PROVE Spec => []IInv
  OBVIOUS
<1>1. Init => IInv
  BY InitEstablishes
<1>2. IInv /\ [Next]_vars => IInv'
  BY StepKeeps
<1> QED
  BY <1>1, <1>2, PTL DEF Spec

\* Every variable keeps its type; in particular there are never more attempts
\* than TCP_MAX_CONNECT_NUM.
THEOREM TypeCorrect == OneThreadOrServes => (Spec => []TypeOK)
<1>1. IInv => TypeOK
  BY DEF IInv
<1> QED
  BY <1>1, Invariance, PTL

\* A status of 1 means that there is a connection.
THEOREM StatusIsTrue == OneThreadOrServes => (Spec => []StatusMeansOpen)
<1>1. IInv => StatusMeansOpen
  BY DEF IInv, Linked, StatusMeansOpen
<1> QED
  BY <1>1, Invariance, PTL

\* No descriptor is ever lost.
THEOREM NothingLeaks == OneThreadOrServes => (Spec => []NoLeak)
<1>1. IInv => NoLeak
  BY DEF IInv
<1> QED
  BY <1>1, Invariance, PTL

=============================================================================
