----------------------------- MODULE TcpConnector -----------------------------
(***************************************************************************)
(* tcp_common, as a client or as a server, in the hands of the parser      *)
(* node: the main thread connects, then judges the connection and scans,   *)
(* or only judges (enable_read = false); the executor thread, which the    *)
(* node starts when the first connect() has returned, writes what arrives  *)
(* on the write topic.  They share status and socketfd unlocked.           *)
(*                                                                         *)
(* A step runs to its first system call and the assignments that follow    *)
(* it.  Descriptors are numbers the kernel hands out lowest first, and     *)
(* sleeps and the bytes that are transferred are left out.                 *)
(***************************************************************************)
EXTENDS Integers

CONSTANTS
    Modes,       \* how the node may be launched
    MaxFd,       \* descriptors the process may have open
    MaxTries,    \* TCP_MAX_CONNECT_NUM
    MaxEvents    \* bound: what the remote side and the kernel do unasked

ASSUME ModesAssumption ==
    Modes \subseteq [server : BOOLEAN, read : BOOLEAN, write : BOOLEAN]
ASSUME BoundAssumption == MaxFd \in Nat /\ MaxTries \in Nat /\ MaxEvents \in Nat

VARIABLES
    mode,       \* server_mode, enable_read, enable_write
    status,     \* -1 not connected, 1 connected
    socketfd,   \* the connection's descriptor, or -1
    listenfd,   \* the listening descriptor, or -1
    sock,       \* the kernel: what each descriptor is
    reachable,  \* a client's connect would succeed
    backlog,    \* connections waiting to be accepted
    events,     \* how often either has changed, or a call has failed
    pc,         \* where each thread is
    caller,     \* who called connect, per thread
    tries       \* reconnect_num of the main thread

object == <<status, socketfd, listenfd>>
remote == <<reachable, backlog, events>>
vars == <<mode, object, sock, remote, pc, caller, tries>>

\* Without enable_read the main thread only judges; only with enable_write does
\* the executor thread write.
Threads == {"main", "exec"}
Server == mode.server
WriteOnly == ~mode.read

Fds == 1..MaxFd
Free == {fd \in Fds : sock[fd] = "free"}
Lowest == {fd \in Free : \A other \in Free : fd <= other}
Is(fd, kinds) == fd \in Fds /\ sock[fd] \in kinds

Unasked == events < MaxEvents /\ events' = events + 1

Goto(t, label) == pc' = [pc EXCEPT ![t] = label]

\* close(fd): nothing happens if fd is not open.
Closed(fd) == IF fd \in Fds THEN [sock EXCEPT ![fd] = "free"] ELSE sock

-----------------------------------------------------------------------------
(* Closing *)

\* (Faulty: the status is left alone.)
CloseClientStale ==
    /\ sock' = Closed(socketfd)
    /\ socketfd' = -1
    /\ UNCHANGED status
CloseClient ==
    /\ sock' = Closed(socketfd)
    /\ socketfd' = -1
    /\ status' = -1

\* disconnect() of a client.
Disconnect ==
    IF socketfd # -1 THEN CloseClient ELSE UNCHANGED <<sock, socketfd, status>>

-----------------------------------------------------------------------------
(* connect() *)

Call(t, from) ==
    /\ caller' = [caller EXCEPT ![t] = from]
    /\ Goto(t, IF Server THEN "listen" ELSE "connect")

\* connect() returns ok to its caller.  The launcher's call is the first, whose
\* result it ignores; node_start then starts the executor's thread.
Return(t, ok) ==
    /\ UNCHANGED caller
    /\ \/ /\ caller[t] = "start"
          /\ pc' = [pc EXCEPT ![t] = "judge", !["exec"] = "idle"]
          /\ UNCHANGED tries
       \/ /\ caller[t] = "judge"
          /\ Goto(t, IF ok THEN "judged" ELSE "try")
          /\ tries' = IF ok THEN tries ELSE tries + 1
       \/ /\ caller[t] \in {"read", "write"}
          /\ Goto(t, caller[t])
          /\ UNCHANGED tries

\* A client that is connected disconnects first.
ConnectBegin(t) ==
    /\ pc[t] = "connect"
    /\ IF status # -1 THEN Disconnect ELSE UNCHANGED <<sock, socketfd, status>>
    /\ Goto(t, "reclose")
    /\ UNCHANGED <<listenfd, remote, caller, tries>>

\* A descriptor that is still there is closed, and its number kept.
Reclose(t) ==
    /\ pc[t] = "reclose"
    /\ sock' = Closed(socketfd)
    /\ Goto(t, "socket")
    /\ UNCHANGED <<object, remote, caller, tries>>

Socket(t) ==
    /\ pc[t] = "socket"
    /\ \/ /\ \E fd \in Lowest : socketfd' = fd /\ sock' = [sock EXCEPT ![fd] = "fresh"]
          /\ Goto(t, "dial")
          /\ UNCHANGED <<status, caller, tries, events>>
       \/ /\ Unasked
          /\ socketfd' = -1
          /\ status' = -1
          /\ UNCHANGED sock
          /\ Return(t, FALSE)
    /\ UNCHANGED <<listenfd, reachable, backlog>>

\* ::connect on whatever socketfd is by now.
Dial(t) ==
    /\ pc[t] = "dial"
    /\ \/ /\ Is(socketfd, {"fresh"}) /\ reachable
          /\ sock' = [sock EXCEPT ![socketfd] = "up"]
          /\ status' = 1
          /\ Return(t, TRUE)
       \/ /\ ~(Is(socketfd, {"fresh"}) /\ reachable)
          /\ status' = -1
          /\ Goto(t, "dialfail")
          /\ UNCHANGED <<sock, caller, tries>>
    /\ UNCHANGED <<socketfd, listenfd, remote>>

\* (Faulty: the descriptor is forgotten, not closed.)
DialFailLeaks(t) ==
    /\ pc[t] = "dialfail"
    /\ socketfd' = -1
    /\ Return(t, FALSE)
    /\ UNCHANGED <<sock, status, listenfd, remote>>
DialFail(t) ==
    /\ pc[t] = "dialfail"
    /\ sock' = Closed(socketfd)
    /\ socketfd' = -1
    /\ Return(t, FALSE)
    /\ UNCHANGED <<status, listenfd, remote>>

\* init_listen_socket: the port may be taken.
Listen(t) ==
    /\ pc[t] = "listen"
    /\ \/ /\ listenfd # -1
          /\ Goto(t, "accept")
          /\ UNCHANGED <<listenfd, sock, caller, tries, events>>
       \/ /\ listenfd = -1
          /\ \E fd \in Lowest : listenfd' = fd /\ sock' = [sock EXCEPT ![fd] = "listen"]
          /\ Goto(t, "accept")
          /\ UNCHANGED <<caller, tries, events>>
       \/ /\ listenfd = -1
          /\ Unasked
          /\ Return(t, FALSE)
          /\ UNCHANGED <<listenfd, sock>>
    /\ UNCHANGED <<status, socketfd, reachable, backlog>>

\* accept_client after a successful init_listen_socket.
Accept(t) ==
    /\ pc[t] = "accept"
    /\ \/ /\ backlog > 0
          /\ backlog' = backlog - 1
          /\ \E fd \in Lowest : socketfd' = fd /\ sock' = [sock EXCEPT ![fd] = "up"]
          /\ status' = 1
          /\ Return(t, TRUE)
       \/ /\ backlog = 0 \/ Free = {}
          /\ UNCHANGED <<backlog, socketfd, sock, status>>
          /\ Return(t, FALSE)
    /\ UNCHANGED <<listenfd, reachable, events>>

Connect(t) ==
    \/ ConnectBegin(t) \/ Reclose(t) \/ Socket(t) \/ Dial(t) \/ DialFail(t)
    \/ Listen(t) \/ Accept(t)

-----------------------------------------------------------------------------
(* The main thread *)

\* judge_connect_state: at most MaxTries attempts.
Judge ==
    /\ pc["main"] = "judge"
    /\ tries' = 0
    /\ Goto("main", IF status = 1 THEN "judged" ELSE "try")
    /\ UNCHANGED <<object, sock, remote, caller>>

\* (Faulty: off by one.)
TryOnceMore ==
    /\ pc["main"] = "try"
    /\ IF tries <= MaxTries /\ status # 1
       THEN Call("main", "judge")
       ELSE Goto("main", "judged") /\ UNCHANGED caller
    /\ UNCHANGED <<object, sock, remote, tries>>
Try ==
    /\ pc["main"] = "try"
    /\ IF tries < MaxTries /\ status # 1
       THEN Call("main", "judge")
       ELSE Goto("main", "judged") /\ UNCHANGED caller
    /\ UNCHANGED <<object, sock, remote, tries>>

\* A write-only node judges again; a reading one scans.
Judged ==
    /\ pc["main"] = "judged"
    /\ Goto("main", IF WriteOnly THEN "judge" ELSE "read")
    /\ UNCHANGED <<object, sock, remote, caller, tries>>

\* read(): a server without a client returns -1 and the scan calls it again; a
\* client connects until it is connected.
ReadCheck ==
    /\ pc["main"] = "read"
    /\ \/ status = 1 /\ Goto("main", "reading") /\ UNCHANGED caller
       \/ status # 1 /\ Server /\ UNCHANGED <<pc, caller>>
       \/ status # 1 /\ ~Server /\ Call("main", "read")
    /\ UNCHANGED <<object, sock, remote, tries>>

\* ::read finds bytes, which may end a token and the scan, or none yet, or the
\* end of the connection, or no connection.
ReadData ==
    /\ pc["main"] = "reading"
    /\ Is(socketfd, {"up"})
    /\ \E label \in {"read", "judge"} : Goto("main", label)
    /\ UNCHANGED <<object, sock, remote, caller, tries>>

\* (Faulty: the end of the connection is taken for no bytes yet.)
ReadEndIgnored ==
    /\ pc["main"] = "reading"
    /\ ~Is(socketfd, {"up"})
    /\ Goto("main", "read")
    /\ UNCHANGED <<object, sock, remote, caller, tries>>
ReadEnd ==
    /\ pc["main"] = "reading"
    /\ ~Is(socketfd, {"up"})
    /\ CloseClient
    /\ Goto("main", "read")
    /\ UNCHANGED <<listenfd, remote, caller, tries>>

Main == Judge \/ Try \/ Judged \/ ReadCheck \/ ReadData \/ ReadEnd

-----------------------------------------------------------------------------
(* The executor thread: node_write *)

WriteBegin ==
    /\ pc["exec"] = "idle"
    /\ Goto("exec", "write")
    /\ UNCHANGED <<object, sock, remote, caller, tries>>

WriteCheck ==
    /\ pc["exec"] = "write"
    /\ \/ status = 1 /\ Goto("exec", "writing") /\ UNCHANGED caller
       \/ status # 1 /\ Server /\ Goto("exec", "idle") /\ UNCHANGED caller
       \/ status # 1 /\ ~Server /\ Call("exec", "write")
    /\ UNCHANGED <<object, sock, remote, tries>>

\* ::write: the first one after the remote side closed still succeeds, the
\* next one fails.  SIGPIPE is ignored.  The socket does not block, so that a
\* write also fails when the peer has not read and the buffer is full.
Write ==
    /\ pc["exec"] = "writing"
    /\ \/ Is(socketfd, {"up"}) /\ Goto("exec", "idle") /\ UNCHANGED <<sock, events>>
       \/ /\ Is(socketfd, {"eof"})
          /\ Goto("exec", "idle")
          /\ sock' = [sock EXCEPT ![socketfd] = "reset"]
          /\ UNCHANGED events
       \/ Is(socketfd, {"up", "eof"}) /\ Unasked /\ Goto("exec", "writefail") /\ UNCHANGED sock
       \/ /\ ~Is(socketfd, {"up", "eof"})
          /\ Goto("exec", "writefail")
          /\ UNCHANGED <<sock, events>>
    /\ UNCHANGED <<object, reachable, backlog, caller, tries>>

\* (Faulty: the failure is ignored.)
WriteFailIgnored ==
    /\ pc["exec"] = "writefail"
    /\ Goto("exec", "idle")
    /\ UNCHANGED <<object, sock, remote, caller, tries>>
WriteFail ==
    /\ pc["exec"] = "writefail"
    /\ IF Server THEN CloseClient ELSE Disconnect
    /\ Goto("exec", "idle")
    /\ UNCHANGED <<listenfd, remote, caller, tries>>

Exec == mode.write /\ (WriteBegin \/ WriteCheck \/ Write \/ WriteFail)

-----------------------------------------------------------------------------
(* The remote side *)

\* The device starts to serve, or a client arrives.
Appear ==
    /\ Unasked
    /\ \/ ~Server /\ ~reachable /\ reachable' = TRUE /\ UNCHANGED backlog
       \/ listenfd # -1 /\ backlog' = backlog + 1 /\ UNCHANGED reachable
    /\ UNCHANGED <<object, sock, pc, caller, tries>>

\* The device stops serving, with or without closing its connection, or a
\* client closes its own.
Leave ==
    /\ \/ \E fd \in Fds : sock[fd] = "up" /\ sock' = [sock EXCEPT ![fd] = "eof"]
       \/ reachable /\ UNCHANGED sock
    /\ reachable' = FALSE
    /\ UNCHANGED <<object, backlog, events, pc, caller, tries>>

Init ==
    /\ mode \in Modes
    /\ status = -1
    /\ socketfd = -1
    /\ listenfd = -1
    /\ sock = [fd \in Fds |-> "free"]
    /\ reachable = FALSE
    /\ backlog = 0
    /\ events = 0
    /\ pc = [t \in Threads |-> IF t = "exec" THEN "absent"
                               ELSE IF Server THEN "listen" ELSE "connect"]
    /\ caller = [t \in Threads |-> IF t = "exec" THEN "write" ELSE "start"]
    /\ tries = 0

Next ==
    /\ \/ \E t \in Threads : Connect(t)
       \/ Main \/ Exec \/ Appear \/ Leave
    /\ UNCHANGED mode

Spec == Init /\ [][Next]_vars

\* The operating system runs both threads; messages keep arriving on the write
\* topic.
FairSpec ==
    /\ Spec
    /\ WF_vars((Main \/ Connect("main")) /\ UNCHANGED mode)
    /\ WF_vars((Exec \/ Connect("exec")) /\ UNCHANGED mode)

-----------------------------------------------------------------------------
(* Properties *)

Labels == {"connect", "reclose", "socket", "dial", "dialfail", "listen", "accept"}

TypeOK ==
    /\ mode \in Modes
    /\ status \in {-1, 1}
    /\ socketfd \in Fds \cup {-1}
    /\ listenfd \in Fds \cup {-1}
    /\ sock \in [Fds -> {"free", "fresh", "up", "eof", "reset", "listen"}]
    /\ reachable \in BOOLEAN
    /\ backlog \in 0..MaxEvents
    /\ events \in 0..MaxEvents
    /\ pc \in [Threads -> Labels \cup {"judge", "try", "judged", "read", "reading",
                                       "absent", "idle", "write", "writing", "writefail"}]
    /\ caller \in [Threads -> {"start", "judge", "read", "write"}]
    /\ tries \in 0..MaxTries

\* The status says whether there is a connection to use.  tcp_common.hpp:27:
\* status is -1 when not connected and 1 when connected.
StatusMeansOpen == status = 1 => Is(socketfd, {"up", "eof", "reset"})

\* Every open descriptor is one that the object still knows: reconnecting for
\* ever never uses up the descriptors of the process.
NoLeak == \A fd \in Fds : sock[fd] # "free" => fd \in {socketfd, listenfd}

Live == status = 1 /\ Is(socketfd, {"up"})

\* Once the device serves for good, a client that reads is connected for good,
\* whatever happened before.
Recovers == ~Server /\ <>[]reachable => <>[]Live

Waiting == Server /\ backlog > 0 /\ ~Live

\* A client that waits while there is no live one is accepted, by a server that
\* only writes.  (One that also reads stays in the scan, whose read() accepts nobody.)
WriterReaccepts == (Waiting /\ WriteOnly) ~> Live

=============================================================================
