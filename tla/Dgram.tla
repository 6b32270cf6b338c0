--------------------------------- MODULE Dgram ---------------------------------
(***************************************************************************)
(* Datagrams over AF_UNIX sockets.                                         *)
(*   8_socket_dgram2.c  (asking)  the client binds "client_socket", sends  *)
(*                                a request and waits for the reply that   *)
(*                                the server sends back to that path       *)
(*   8_socket_dgram.c   (~asking) the client sends one message and ends    *)
(* Every process executes do_server or do_client once and has one socket,  *)
(* named by the process.  A path names the socket that was bound to it     *)
(* last; it goes on naming it after the socket was closed.                 *)
(***************************************************************************)
EXTENDS Integers, Sequences, FiniteSets

CONSTANTS
    Servers,
    Clients,
    Asking,     \* the programs: TRUE 8_socket_dgram2.c, FALSE 8_socket_dgram.c
    MaxQueue,   \* datagrams that fit into a socket's receive queue
    MaxKills,   \* bound on killed processes
    None

Procs == Servers \union Clients

ASSUME ProcsAssumption == Servers \cap Clients = {} /\ None \notin Procs
ASSUME LimitAssumption == MaxQueue \in Nat \ {0} /\ MaxKills \in Nat
ASSUME AskingAssumption == Asking \subseteq BOOLEAN

Paths == {"server", "client"}
PathOf(p) == IF p \in Servers THEN "server" ELSE "client"

VARIABLES
    asking, \* which of the two programs the processes execute
    pc,     \* the call each process is about to make
    node,   \* the socket each path names
    open,   \* the sockets that are bound and not closed
    inbox,  \* the datagrams waiting at each socket: a request is named by its
            \* client, a reply by the client whose request it answers
    peer,   \* the socket each process is blocked on in sendto(), or was
    took,   \* the request each server received
    got,    \* the reply each client received
    dest,   \* history: the server each request was queued at
    turns,  \* history: the clients in the order they bound their path
    kills

vars == <<asking, pc, node, open, inbox, peer, took, got, dest, turns, kills>>

Init ==
    /\ asking \in Asking
    /\ pc = [p \in Procs |-> IF p \in Servers \/ asking THEN "unlink" ELSE "send"]
    /\ node = [path \in Paths |-> None]
    /\ open = {}
    /\ inbox = [p \in Procs |-> <<>>]
    /\ peer = [p \in Procs |-> None]
    /\ took = [s \in Servers |-> None]
    /\ got = [c \in Clients |-> None]
    /\ dest = [c \in Clients |-> None]
    /\ turns = <<>>
    /\ kills = 0

GoTo(p, call) == pc' = [pc EXCEPT ![p] = call] /\ UNCHANGED asking

\* unlink(SERVER_SOCK_PATH), unlink(CLIENT_SOCK_PATH): whoever the path names.
Unlink(p) ==
    /\ pc[p] = "unlink"
    /\ node' = [node EXCEPT ![PathOf(p)] = None]
    /\ GoTo(p, "bind")
    /\ UNCHANGED <<open, inbox, peer, took, got, dest, turns, kills>>

\* bind() fails with EADDRINUSE when another process bound the path between
\* this one's unlink and bind.
Bind(p) ==
    /\ pc[p] = "bind"
    /\ node[PathOf(p)] = None
    /\ node' = [node EXCEPT ![PathOf(p)] = p]
    /\ open' = open \union {p}
    /\ turns' = IF p \in Clients THEN Append(turns, p) ELSE turns
    /\ GoTo(p, IF p \in Servers THEN "receive" ELSE "send")
    /\ UNCHANGED <<inbox, peer, took, got, dest, kills>>

\* Mutant: bind()'s error is ignored.
BindErrorIgnored(p) ==
    /\ pc[p] = "bind"
    /\ node[PathOf(p)] # None
    /\ GoTo(p, IF p \in Servers THEN "receive" ELSE "send")
    /\ UNCHANGED <<node, open, inbox, peer, took, got, dest, turns, kills>>

BindFails(p) ==
    /\ pc[p] = "bind"
    /\ node[PathOf(p)] # None
    /\ GoTo(p, "abort")
    /\ UNCHANGED <<node, open, inbox, peer, took, got, dest, turns, kills>>

\* sendto() a path goes to the socket the path names, or to the one it has been
\* blocked on since that socket's queue was full, as long as that is open.
Target(p, path) == IF peer[p] \in open THEN peer[p] ELSE node[path]

\* Mutants: off by one at a full queue, both ways.
HasRoomLoose(q)  == q \in open /\ Len(inbox[q]) < MaxQueue + 1
HasRoomStrict(q) == q \in open /\ Len(inbox[q]) < MaxQueue - 1

HasRoom(q) == q \in open /\ Len(inbox[q]) < MaxQueue
Deliver(q, datagram) == inbox' = [inbox EXCEPT ![q] = Append(@, datagram)]

\* Mutant: a request that was queued is sent again.
RequestTwice(c) ==
    /\ pc[c] = "send"
    /\ LET s == Target(c, "server") IN
          HasRoom(s) /\ Deliver(s, c) /\ dest' = [dest EXCEPT ![c] = s]
    /\ GoTo(c, "receive") \/ GoTo(c, "send")
    /\ UNCHANGED <<node, open, peer, took, got, turns, kills>>

\* The client's sendto() to SERVER_SOCK_PATH.
Request(c) ==
    /\ pc[c] = "send"
    /\ LET s == Target(c, "server") IN
          HasRoom(s) /\ Deliver(s, c) /\ dest' = [dest EXCEPT ![c] = s]
    /\ GoTo(c, IF asking THEN "receive" ELSE "close")
    /\ UNCHANGED <<node, open, peer, took, got, turns, kills>>

\* Mutant: recvfrom() is not asked for the client's address.
RespondNowhere(s) ==
    /\ pc[s] = "reply"
    /\ GoTo(s, "abort")
    /\ UNCHANGED <<node, open, inbox, peer, took, got, dest, turns, kills>>

\* The server's sendto() to client_addr, a path that recvfrom() stored.
Respond(s) ==
    /\ pc[s] = "reply"
    /\ LET c == Target(s, "client") IN HasRoom(c) /\ Deliver(c, took[s])
    /\ GoTo(s, "close")
    /\ UNCHANGED <<node, open, peer, took, got, dest, turns, kills>>

PathTo(p) == IF pc[p] = "send" THEN "server" ELSE "client"

\* The queue is full: sendto() blocks on this socket.
Block(p) ==
    /\ pc[p] \in {"send", "reply"}
    /\ peer[p] \notin open
    /\ node[PathTo(p)] \in open /\ ~HasRoom(node[PathTo(p)])
    /\ peer' = [peer EXCEPT ![p] = node[PathTo(p)]]
    /\ UNCHANGED <<asking, pc, node, open, inbox, took, got, dest, turns, kills>>

\* Mutant: a socket file whose socket was closed is taken for a socket.
SendFailsNoPath(p) ==
    /\ pc[p] \in {"send", "reply"}
    /\ Target(p, PathTo(p)) = None
    /\ GoTo(p, "abort")
    /\ UNCHANGED <<node, open, inbox, peer, took, got, dest, turns, kills>>

\* ENOENT: there is no such path; ECONNREFUSED: its socket was closed.
SendFails(p) ==
    /\ pc[p] \in {"send", "reply"}
    /\ Target(p, PathTo(p)) \notin open
    /\ GoTo(p, "abort")
    /\ UNCHANGED <<node, open, inbox, peer, took, got, dest, turns, kills>>

\* recvfrom() blocks while the queue is empty.
Receive(p) ==
    /\ pc[p] = "receive"
    /\ inbox[p] # <<>>
    /\ inbox' = [inbox EXCEPT ![p] = Tail(@)]
    /\ IF p \in Servers
         THEN /\ took' = [took EXCEPT ![p] = Head(inbox[p])]
              /\ got' = got
              /\ GoTo(p, IF asking THEN "reply" ELSE "close")
         ELSE /\ got' = [got EXCEPT ![p] = Head(inbox[p])]
              /\ took' = took
              /\ GoTo(p, "close")
    /\ UNCHANGED <<node, open, peer, dest, turns, kills>>

\* A closed socket's datagrams are gone; its path stays in the directory.
Discard(p) ==
    /\ open' = open \ {p}
    /\ inbox' = [inbox EXCEPT ![p] = <<>>]
    /\ UNCHANGED <<node, peer, took, got, dest, turns>>

\* close(sockfd) at the end or on the error path.
Close(p) ==
    /\ pc[p] \in {"close", "abort"}
    /\ Discard(p)
    /\ GoTo(p, IF pc[p] = "close" THEN "done" ELSE "failed")
    /\ UNCHANGED kills

Ended(p) == pc[p] \in {"done", "failed", "killed"}

Kill(p) ==
    /\ ~Ended(p)
    /\ kills < MaxKills
    /\ kills' = kills + 1
    /\ Discard(p)
    /\ GoTo(p, "killed")

Step(p) ==
    \/ Unlink(p) \/ Bind(p) \/ BindFails(p) \/ Block(p) \/ SendFails(p)
    \/ Receive(p) \/ Close(p)
    \/ p \in Clients /\ Request(p)
    \/ p \in Servers /\ Respond(p)

Next == \E p \in Procs : Step(p) \/ Kill(p)

Spec == Init /\ [][Next]_vars

\* The kernel schedules every process that was started, and wakes it when a
\* datagram or room for one arrives.
FairSpec == Spec /\ \A p \in Procs : WF_vars(Step(p))

-------------------------------------------------------------------------------
TypeOK ==
    /\ asking \in BOOLEAN
    /\ pc \in [Procs -> {"unlink", "bind", "send", "receive", "reply", "close", "abort",
                         "done", "failed", "killed"}]
    /\ node \in [Paths -> Procs \union {None}]
    /\ open \subseteq Procs
    /\ inbox \in [Procs -> Seq(Clients)]
    /\ \A p \in Procs : Len(inbox[p]) <= MaxQueue
    /\ peer \in [Procs -> Procs \union {None}]
    /\ took \in [Servers -> Clients \union {None}]
    /\ got \in [Clients -> Clients \union {None}]
    /\ dest \in [Clients -> Servers \union {None}]
    /\ turns \in Seq(Clients)
    /\ kills \in 0..MaxKills

InBox(c, q)  == \E i \in DOMAIN inbox[q] : inbox[q][i] = c
Held(c, s)   == took[s] = c /\ pc[s] = "reply"

\* The request of a client that waits is neither queued nor being answered, and
\* there is no reply for it to receive.
Abandoned(c) ==
    /\ pc[c] = "receive" /\ inbox[c] = <<>>
    /\ ~InBox(c, dest[c]) /\ ~Held(c, dest[c])

\* A client waits in vain only because of another process: another client took
\* its path, or the server it asked answered another client, or was killed.
AbandonedByRival ==
    \A c \in Clients : Abandoned(c) =>
        \/ node["client"] # c
        \/ took[dest[c]] \notin {None, c}
        \/ pc[dest[c]] = "killed"

\* A reply can reach another client than the one that asked, but only one that
\* took the path over after it, never an earlier one.
StrayOnlyToNewer ==
    \A c \in Clients : got[c] \notin {None, c} =>
        \E i, j \in DOMAIN turns : i < j /\ turns[i] = got[c] /\ turns[j] = c

\* Two servers never receive the same request and a request is received only
\* by the server it was sent to: the servers' queues are one mailbox.
Requests == UNION {{inbox[s][i] : i \in DOMAIN inbox[s]} : s \in Servers}
Box == INSTANCE Mailbox WITH Senders <- Clients, Receivers <- Servers,
                             pending <- Requests, got <- took, Nothing <- None
ImplementsMailbox == Box!Spec

\* A server that has the path is not left waiting while a client is sending that
\* is not blocked on an earlier server: it receives a datagram, or another
\* process takes its path.
ServerServed ==
    \A s \in Servers : \A c \in Clients :
        /\ pc[s] = "receive" /\ node["server"] = s
        /\ pc[c] = "send" /\ peer[c] \notin open \ {s}
        ~> Ended(s) \/ node["server"] # s \/ pc[c] = "killed"

\* A server blocked on a client whose queue is full of replies to others, while
\* that client is itself in sendto() and so does not look at its queue.
Wedged(s) ==
    /\ pc[s] = "reply" /\ peer[s] \in open /\ ~HasRoom(peer[s])
    /\ pc[peer[s]] = "send"

\* Every client ends or is abandoned: with AbandonedByRival, one that has no
\* rival ends, however many servers take the path from each other.  The one
\* exception are servers and clients that stay blocked on each other, for which
\* more servers must answer one client than its queue holds.
ClientEnds == \A c \in Clients :
                  \/ <>(Ended(c) \/ Abandoned(c))
                  \/ <>[](\E s \in Servers : Wedged(s))

\* The comments in do_server: the client's address is saved because the reply
\* must go back to it.
ReplyToRequester == \A c \in Clients : got[c] \in {None, c}
===============================================================================
