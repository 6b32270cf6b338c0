--------------------------------- MODULE Stream ---------------------------------
(***************************************************************************)
(* Connections between stream sockets.                                     *)
(*   7_socket_stream.c       (~inet)  AF_UNIX, at the path "sock_file"     *)
(*   7_socket_stream_inet.c  (inet)   AF_INET, at port 8080                *)
(* Every process executes do_server or do_client once.  A server accepts   *)
(* one connection, receives a message on it, sends a reply and ends; other *)
(* connections are reset when its listening socket is closed.              *)
(***************************************************************************)
EXTENDS Integers, Sequences

CONSTANTS
    Servers,
    Clients,
    Inet,       \* the programs: TRUE 7_socket_stream_inet.c, FALSE 7_socket_stream.c
    MaxQueue,   \* connections that wait for accept(): one more than the backlog
    MaxKills,   \* bound on killed processes
    None

Procs == Servers \union Clients

ASSUME ProcsAssumption == Servers \cap Clients = {} /\ None \notin Procs
ASSUME InetAssumption == Inet \subseteq BOOLEAN
ASSUME LimitAssumption == MaxQueue \in Nat \ {0} /\ MaxKills \in Nat

VARIABLES
    inet,   \* which of the two programs the processes execute
    pc,     \* the call each process is about to make
    node,   \* the socket bound to the path; the socket listening on the port
    queue,  \* the connections that wait at each listening socket
    wait,   \* the server each client is blocked on in connect(), or was
    peer,   \* the client each server accepted
    conn,   \* the server each client is connected to
    msg,    \* the message of each client: "none", "sent" or "read"
    reply,  \* the clients a reply was sent to
    got,    \* the clients that received their reply
    kills

vars == <<inet, pc, node, queue, wait, peer, conn, msg, reply, got, kills>>

Init ==
    /\ inet \in Inet
    /\ pc = [p \in Procs |-> IF p \in Clients THEN "connect"
                             ELSE IF inet THEN "bind" ELSE "unlink"]
    /\ node = None
    /\ queue = [s \in Servers |-> <<>>]
    /\ wait = [c \in Clients |-> None]
    /\ peer = [s \in Servers |-> None]
    /\ conn = [c \in Clients |-> None]
    /\ msg = [c \in Clients |-> "none"]
    /\ reply = {}
    /\ got = {}
    /\ kills = 0

GoTo(p, call) == pc' = [pc EXCEPT ![p] = call] /\ UNCHANGED inet
Ended(p)      == pc[p] \in {"done", "failed", "sigpipe", "killed"}
Listening(s)  == s \in Servers /\ pc[s] \in {"accept", "recv", "reply", "close"}

\* unlink(SOCK_PATH), in the AF_UNIX program.
Unlink(s) ==
    /\ pc[s] = "unlink"
    /\ node' = None
    /\ GoTo(s, "bind")
    /\ UNCHANGED <<queue, wait, peer, conn, msg, reply, got, kills>>

\* bind() and EADDRINUSE: somebody else bound the path after the unlink.  A
\* port can be bound again, with SO_REUSEADDR, until somebody listens on it.
Bind(s) ==
    /\ pc[s] = "bind"
    /\ node = None
    /\ node' = IF inet THEN node ELSE s
    /\ GoTo(s, "listen")
    /\ UNCHANGED <<queue, wait, peer, conn, msg, reply, got, kills>>

BindFails(s) ==
    /\ pc[s] = "bind"
    /\ node # None
    /\ GoTo(s, "abort")
    /\ UNCHANGED <<node, queue, wait, peer, conn, msg, reply, got, kills>>

\* Mutant: SO_REUSEPORT in the place of SO_REUSEADDR.
ListenShared(s) ==
    /\ pc[s] = "listen"
    /\ node' = IF inet THEN s ELSE node
    /\ GoTo(s, "accept")
    /\ UNCHANGED <<queue, wait, peer, conn, msg, reply, got, kills>>

\* listen(): of the sockets bound to a port only one can listen.
Listen(s) ==
    /\ pc[s] = "listen"
    /\ inet => node = None
    /\ node' = IF inet THEN s ELSE node
    /\ GoTo(s, "accept")
    /\ UNCHANGED <<queue, wait, peer, conn, msg, reply, got, kills>>

ListenFails(s) ==
    /\ pc[s] = "listen"
    /\ inet /\ node # None
    /\ GoTo(s, "abort")
    /\ UNCHANGED <<node, queue, wait, peer, conn, msg, reply, got, kills>>

\* accept() blocks until there is a connection.
Accept(s) ==
    /\ pc[s] = "accept"
    /\ queue[s] # <<>>
    /\ peer' = [peer EXCEPT ![s] = Head(queue[s])]
    /\ queue' = [queue EXCEPT ![s] = Tail(@)]
    /\ GoTo(s, "recv")
    /\ UNCHANGED <<node, wait, conn, msg, reply, got, kills>>

\* Mutant: MSG_DONTWAIT.
RecvNoWait(s) ==
    /\ pc[s] = "recv"
    /\ GoTo(s, "reply")
    /\ UNCHANGED <<node, queue, wait, peer, conn, msg, reply, got, kills>>

\* recv() on the connection; at the end of it (0 bytes) do_server goes on.
Recv(s) ==
    /\ pc[s] = "recv"
    /\ \/ /\ msg[peer[s]] = "sent"
          /\ msg' = [msg EXCEPT ![peer[s]] = "read"]
       \/ /\ msg[peer[s]] = "none" /\ Ended(peer[s])
          /\ msg' = msg
    /\ GoTo(s, "reply")
    /\ UNCHANGED <<node, queue, wait, peer, conn, reply, got, kills>>

\* send() on a connection the client has closed: SIGPIPE, or over TCP the
\* reply is accepted and lost.  A process that dies closes its sockets.
Reply(s) ==
    /\ pc[s] = "reply"
    /\ reply' = reply \union ({peer[s]} \ {c \in Clients : Ended(c)})
    /\ IF Ended(peer[s]) /\ ~inet
         THEN queue' = [queue EXCEPT ![s] = <<>>] /\ GoTo(s, "sigpipe")
         ELSE queue' = queue /\ GoTo(s, "close")
    /\ UNCHANGED <<node, wait, peer, conn, msg, got, kills>>

-------------------------------------------------------------------------------
\* Mutants: off by one at a full backlog, both ways.
FullLate(s)  == Len(queue[s]) > MaxQueue
FullEarly(s) == Len(queue[s]) >= MaxQueue - 1

Full(s) == Len(queue[s]) >= MaxQueue

\* connect() waits at an AF_UNIX server until that has room or is gone, then
\* looks the path up again; over TCP every attempt goes to the port.
Held(c) == ~inet /\ Listening(wait[c]) /\ Full(wait[c])

Connect(c) ==
    /\ pc[c] = "connect" /\ ~Held(c)
    /\ Listening(node) /\ ~Full(node)
    /\ queue' = [queue EXCEPT ![node] = Append(@, c)]
    /\ conn' = [conn EXCEPT ![c] = node]
    /\ GoTo(c, "send")
    /\ UNCHANGED <<node, wait, peer, msg, reply, got, kills>>

Block(c) ==
    /\ pc[c] = "connect" /\ ~Held(c) /\ ~inet
    /\ Listening(node) /\ Full(node)
    /\ wait' = [wait EXCEPT ![c] = node]
    /\ UNCHANGED <<inet, pc, node, queue, peer, conn, msg, reply, got, kills>>

\* ENOENT or ECONNREFUSED.
ConnectFails(c) ==
    /\ pc[c] = "connect" /\ ~Held(c)
    /\ ~Listening(node)
    /\ GoTo(c, "abort")
    /\ UNCHANGED <<node, queue, wait, peer, conn, msg, reply, got, kills>>

\* ETIMEDOUT: TCP gives up on a server whose backlog is full.
ConnectTimesOut(c) ==
    /\ pc[c] = "connect" /\ inet
    /\ Listening(node) /\ Full(node)
    /\ GoTo(c, "abort")
    /\ UNCHANGED <<node, queue, wait, peer, conn, msg, reply, got, kills>>

\* The server ended, and with it its end of every connection.
Gone(c) == Ended(conn[c])

Send(c) ==
    /\ pc[c] = "send" /\ ~Gone(c)
    /\ msg' = [msg EXCEPT ![c] = "sent"]
    /\ GoTo(c, "recv")
    /\ UNCHANGED <<node, queue, wait, peer, conn, reply, got, kills>>

\* A server that was killed has closed the connection it accepted: over TCP this
\* is no more than the end of what can be received, and send() succeeds.
Closed(c) == inet /\ Gone(c) /\ peer[conn[c]] = c

SendLost(c) ==
    /\ pc[c] = "send" /\ Closed(c)
    /\ GoTo(c, "recv")
    /\ UNCHANGED <<node, queue, wait, peer, conn, msg, reply, got, kills>>

\* EPIPE with SIGPIPE; over TCP ECONNRESET on a connection nobody accepted.
SendFails(c) ==
    /\ pc[c] = "send" /\ Gone(c) /\ ~Closed(c)
    /\ GoTo(c, IF inet THEN "abort" ELSE "sigpipe")
    /\ UNCHANGED <<node, queue, wait, peer, conn, msg, reply, got, kills>>

RecvReply(c) ==
    /\ pc[c] = "recv" /\ c \in reply
    /\ got' = got \union {c}
    /\ GoTo(c, "close")
    /\ UNCHANGED <<node, queue, wait, peer, conn, msg, reply, kills>>

\* Mutants: MSG_DONTWAIT; only a reset is noticed.
RecvNothing(c) ==
    /\ pc[c] = "recv" /\ c \notin reply
    /\ GoTo(c, IF msg[c] = "sent" THEN "abort" ELSE "close")
    /\ UNCHANGED <<node, queue, wait, peer, conn, msg, reply, got, kills>>
RecvResetOnly(c) == pc[c] = "recv" /\ msg[c] = "sent" /\ Gone(c) /\ RecvNothing(c)

\* Without a reply: ECONNRESET when the message reached a server that did not read
\* it, else the end of the connection (0 bytes), after which do_client goes on.
RecvEnd(c) ==
    /\ pc[c] = "recv" /\ c \notin reply /\ Gone(c)
    /\ GoTo(c, IF msg[c] = "sent" THEN "abort" ELSE "close")
    /\ UNCHANGED <<node, queue, wait, peer, conn, msg, reply, got, kills>>

-------------------------------------------------------------------------------
\* A path outlives its socket, a port does not.
Release(p) ==
    /\ node' = IF inet /\ node = p THEN None ELSE node
    /\ queue' = IF p \in Servers THEN [queue EXCEPT ![p] = <<>>] ELSE queue
    /\ UNCHANGED <<wait, peer, conn, msg, reply, got>>

\* close() of the sockets at the end or on an error path.
Close(p) ==
    /\ pc[p] \in {"close", "abort"}
    /\ Release(p)
    /\ GoTo(p, IF pc[p] = "close" THEN "done" ELSE "failed")
    /\ UNCHANGED kills

Kill(p) ==
    /\ ~Ended(p)
    /\ kills < MaxKills
    /\ kills' = kills + 1
    /\ Release(p)
    /\ GoTo(p, "killed")

ServerStep(s) ==
    \/ Unlink(s) \/ Bind(s) \/ BindFails(s) \/ Listen(s) \/ ListenFails(s)
    \/ Accept(s) \/ Recv(s) \/ Reply(s) \/ Close(s)

ClientStep(c) ==
    \/ Connect(c) \/ Block(c) \/ ConnectFails(c)
    \/ Send(c) \/ SendLost(c) \/ SendFails(c) \/ RecvReply(c) \/ RecvEnd(c) \/ Close(c)

Next == \/ \E s \in Servers : ServerStep(s)
        \/ \E c \in Clients : ClientStep(c) \/ ConnectTimesOut(c)
        \/ \E p \in Procs : Kill(p)

Spec == Init /\ [][Next]_vars

\* The kernel schedules every process that was started and wakes it when what
\* it waits for has happened.
FairSpec ==
    /\ Spec
    /\ \A s \in Servers : WF_vars(ServerStep(s))
    /\ \A c \in Clients : WF_vars(ClientStep(c))

-------------------------------------------------------------------------------
TypeOK ==
    /\ inet \in BOOLEAN
    /\ pc \in [Procs -> {"unlink", "bind", "listen", "accept", "recv", "reply", "connect",
                         "send", "close", "abort", "done", "failed", "sigpipe", "killed"}]
    /\ node \in Servers \union {None}
    /\ queue \in [Servers -> Seq(Clients)]
    /\ \A s \in Servers : Len(queue[s]) <= MaxQueue
    /\ wait \in [Clients -> Servers \union {None}]
    /\ peer \in [Servers -> Clients \union {None}]
    /\ conn \in [Clients -> Servers \union {None}]
    /\ msg \in [Clients -> {"none", "sent", "read"}]
    /\ reply \subseteq Clients
    /\ got \subseteq reply
    /\ kills \in 0..MaxKills

\* A client whose connection is reset has another process to blame: the server
\* accepted another client and ended, or it was killed.
ResetByRival ==
    \A c \in Clients : pc[c] \in {"failed", "sigpipe"} /\ conn[c] # None =>
        \/ peer[conn[c]] \notin {None, c}
        \/ pc[conn[c]] = "killed"

\* Neither program takes the end of a connection (0 bytes) for an error.  Still
\* a client that reports success received the reply to the message its server
\* read, unless that server was killed; and a server that reports success read
\* a message, unless its client was killed, which only TCP hides from it.
SuccessMeansExchange ==
    /\ \A c \in Clients : pc[c] = "done" =>
           \/ c \in got /\ peer[conn[c]] = c /\ msg[c] = "read"
           \/ pc[conn[c]] = "killed"
    /\ \A s \in Servers : pc[s] = "done" =>
           \/ msg[peer[s]] = "read"
           \/ inet /\ pc[peer[s]] = "killed"

\* However many servers bound the port, one of them listens on it.
OneListener == inet => \A s, t \in Servers : Listening(s) /\ Listening(t) => s = t

\* No client waits for ever, whether it is served, refused, reset or queued at
\* a server that lost its path or was killed.
EveryClientEnds == \A c \in Clients : <>Ended(c)

\* A server that has the path or the port is not left waiting while a client
\* connects that is not blocked on another server.
ServerServed ==
    \A s \in Servers : \A c \in Clients :
        /\ pc[s] = "accept" /\ node = s
        /\ pc[c] = "connect" /\ (Listening(wait[c]) => wait[c] = s)
        ~> Ended(s) \/ node # s \/ pc[c] = "killed"
=================================================================================
