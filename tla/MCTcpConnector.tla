---------------------------- MODULE MCTcpConnector ----------------------------
(* Launch modes of TcpConnector for TLC. *)
EXTENDS TcpConnector

Mode(server, read, write) == [server |-> server, read |-> read, write |-> write]

\* A client in the hands of one thread, and every kind of server.
OneThreadOrServer ==
    {Mode(FALSE, TRUE, FALSE), Mode(TRUE, TRUE, TRUE), Mode(TRUE, TRUE, FALSE),
     Mode(TRUE, FALSE, TRUE)}

\* A client that reads and writes: the default.
ClientBoth == {Mode(FALSE, TRUE, TRUE)}

\* Such a client whose first connect() has succeeded, so that both threads run
\* and every later connect() is a reconnection.
UpInit ==
    /\ mode \in Modes
    /\ status = 1
    /\ socketfd = 1
    /\ listenfd = -1
    /\ sock = [fd \in Fds |-> IF fd = 1 THEN "up" ELSE "free"]
    /\ reachable = TRUE
    /\ backlog = 0
    /\ events = 1
    /\ pc = [t \in Threads |-> IF t = "exec" THEN "idle" ELSE "judge"]
    /\ caller = [t \in Threads |-> IF t = "exec" THEN "write" ELSE "start"]
    /\ tries = 0

UpSpec == UpInit /\ [][Next]_vars

=============================================================================
