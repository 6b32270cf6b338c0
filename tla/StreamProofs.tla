------------------------------ MODULE StreamProofs ------------------------------
(***************************************************************************)
(* Proofs about Stream: any number of servers and clients, either program, *)
(* any backlog, any number of kills.                                       *)
(***************************************************************************)
EXTENDS Stream, SequenceTheorems, TLAPS

\* A server past accept() knows its client, and no process takes a call of the
\* other role.
Roles ==
    /\ \A s \in Servers : pc[s] \in {"recv", "reply"} => peer[s] \in Clients
    /\ \A s \in Servers : pc[s] \notin {"connect", "send"}
    /\ \A c \in Clients : pc[c] \notin {"unlink", "bind", "listen", "accept", "reply"}

\* Over TCP nothing is unlinked, and a socket that listens owns the port.
PortOwner ==
    inet => \A s \in Servers : pc[s] # "unlink" /\ (Listening(s) => node = s)

\* A client's connection: the server it leads to, how far the exchange on it
\* came, and what the client's end of it says about the server's.
Connection(c) ==
    /\ pc[c] = "connect" => conn[c] = None
    /\ pc[c] \in {"send", "recv", "close", "done"} => conn[c] \in Servers
    /\ conn[c] # None => pc[conn[c]] \notin {"unlink", "bind", "listen", "abort", "failed"}
    /\ pc[c] \in {"connect", "send"} => msg[c] = "none"
    /\ pc[c] = "recv" => msg[c] # "none" \/ pc[conn[c]] = "killed"
    /\ msg[c] = "read" => conn[c] \in Servers /\ peer[conn[c]] = c
    /\ c \in reply => msg[c] = "read"
    /\ pc[c] \in {"close", "done"} =>
           pc[conn[c]] = "killed" \/ (c \in got /\ msg[c] = "read")
    /\ pc[c] \in {"abort", "failed", "sigpipe"} /\ conn[c] # None =>
           \/ pc[conn[c]] = "killed"
           \/ pc[conn[c]] \in {"done", "sigpipe"} /\ peer[conn[c]] # c

\* A server's connection: whom it accepted and what it read and sent.
Service(s) ==
    /\ pc[s] \in {"unlink", "bind", "listen", "accept"} => peer[s] = None
    /\ pc[s] \in {"recv", "reply", "close", "done", "sigpipe"} => peer[s] \in Clients
    /\ peer[s] # None => conn[peer[s]] = s
    /\ \A i \in DOMAIN queue[s] : conn[queue[s][i]] = s
    /\ pc[s] \in {"reply", "close", "done", "sigpipe"} =>
           msg[peer[s]] = "read" \/ pc[peer[s]] = "killed"
    /\ pc[s] \in {"close", "done", "sigpipe"} => Ended(peer[s]) \/ peer[s] \in reply
    /\ pc[s] \in {"close", "done"} => inet \/ msg[peer[s]] = "read"

Exchange == /\ \A c \in Clients : Connection(c)
            /\ \A s \in Servers : Service(s)

Inv == TypeOK /\ Roles /\ PortOwner

-------------------------------------------------------------------------------
\* Setting a server up: the path or the port changes hands.
LEMMA SetupKeeps ==
    ASSUME Inv, NEW s \in Servers,
           \/ Unlink(s) \/ Bind(s) \/ BindFails(s) \/ Listen(s) \/ ListenFails(s)
    PROVE  Inv'
  <1>0. TypeOK /\ Roles /\ PortOwner /\ s \in Procs /\ s \notin Clients /\ s # None
    BY ProcsAssumption DEF Inv, Procs
  <1>1. /\ pc[s] \in {"unlink", "bind", "listen"}
        /\ pc[s] = "unlink" => pc' = [pc EXCEPT ![s] = "bind"] /\ node' = None
        /\ pc[s] = "bind" => pc' = [pc EXCEPT ![s] = "listen"]
                             \/ pc' = [pc EXCEPT ![s] = "abort"]
        /\ pc[s] = "bind" => node' \in {node, s} /\ (inet => node' = node)
        /\ pc[s] = "listen" =>
               \/ /\ pc' = [pc EXCEPT ![s] = "accept"]
                  /\ inet => node = None /\ node' = s
                  /\ node' \in {node, s}
               \/ pc' = [pc EXCEPT ![s] = "abort"] /\ node' = node
        /\ UNCHANGED <<inet, queue, wait, peer, conn, msg, reply, got, kills>>
    BY DEF Unlink, Bind, BindFails, Listen, ListenFails, GoTo
  <1>2. TypeOK'
    BY <1>0, <1>1 DEF TypeOK
  <1>3. Roles'
    BY <1>0, <1>1 DEF Roles, TypeOK, Procs
  <1>4. PortOwner'
    BY <1>0, <1>1, ProcsAssumption DEF PortOwner, Listening, TypeOK, Procs
  <1> QED
    BY <1>2, <1>3, <1>4 DEF Inv

\* Serving the accepted client.
LEMMA ServeKeeps ==
    ASSUME Inv, NEW s \in Servers, Accept(s) \/ Recv(s) \/ Reply(s)
    PROVE  Inv'
  <1>0. TypeOK /\ Roles /\ PortOwner /\ s \in Procs /\ s \notin Clients
    BY ProcsAssumption DEF Inv, Procs
  <1>1. CASE Accept(s)
    <2>1. /\ queue[s] \in Seq(Clients) /\ queue[s] # <<>> /\ Len(queue[s]) <= MaxQueue
      BY <1>0, <1>1 DEF Accept, TypeOK
    <2>2. /\ Head(queue[s]) \in Clients /\ Tail(queue[s]) \in Seq(Clients)
          /\ Len(Tail(queue[s])) <= MaxQueue
      BY <2>1, LimitAssumption
    <2>3. TypeOK'
      BY <1>0, <1>1, <2>2 DEF Accept, GoTo, TypeOK
    <2>4. Roles' /\ PortOwner'
      BY <1>0, <1>1, <2>2 DEF Accept, GoTo, TypeOK, Roles, PortOwner, Listening, Procs
    <2> QED
      BY <2>3, <2>4 DEF Inv
  <1>2. CASE Recv(s)
    <2>1. TypeOK'
      BY <1>0, <1>2 DEF Recv, GoTo, TypeOK, Roles
    <2>2. Roles' /\ PortOwner'
      BY <1>0, <1>2 DEF Recv, GoTo, TypeOK, Roles, PortOwner, Listening, Procs
    <2> QED
      BY <2>1, <2>2 DEF Inv
  <1>3. CASE Reply(s)
    <2>1. /\ reply \subseteq reply' /\ reply' \subseteq Clients
      BY <1>0, <1>3 DEF Reply, TypeOK, Roles
    <2>2. /\ queue' \in [Servers -> Seq(Clients)]
          /\ \A t \in Servers : Len(queue'[t]) <= MaxQueue
      <3>1. queue' = [queue EXCEPT ![s] = <<>>] \/ queue' = queue
        BY <1>3 DEF Reply
      <3>2. <<>> \in Seq(Clients) /\ Len(<<>>) = 0
        OBVIOUS
      <3>3. /\ queue \in [Servers -> Seq(Clients)] /\ MaxQueue \in Nat
            /\ \A t \in Servers : Len(queue[t]) <= MaxQueue
        BY <1>0, LimitAssumption DEF TypeOK
      <3>4. CASE queue' = [queue EXCEPT ![s] = <<>>]
        <4>1. \A t \in Servers : queue'[t] = IF t = s THEN <<>> ELSE queue[t]
          BY <3>3, <3>4
        <4> QED
          BY <3>2, <3>3, <3>4, <4>1
      <3> QED
        BY <3>1, <3>3, <3>4
    <2>3. TypeOK'
      BY <1>0, <1>3, <2>1, <2>2 DEF Reply, GoTo, TypeOK
    <2>4. Roles' /\ PortOwner'
      BY <1>0, <1>3 DEF Reply, GoTo, TypeOK, Roles, PortOwner, Listening, Procs
    <2> QED
      BY <2>3, <2>4 DEF Inv
  <1> QED
    BY <1>1, <1>2, <1>3

\* A client connects to the socket of the path or the port.
LEMMA ConnectKeeps ==
    ASSUME Inv, NEW c \in Clients, Connect(c) \/ Block(c)
    PROVE  Inv'
  <1>0. /\ TypeOK /\ Roles /\ PortOwner /\ c \in Procs /\ c \notin Servers
        /\ node \in Servers
    BY ProcsAssumption DEF Inv, Procs, Connect, Block, Listening
  <1>1. CASE Connect(c)
    <2>1. queue[node] \in Seq(Clients) /\ Len(queue[node]) < MaxQueue
      BY <1>0, <1>1, LimitAssumption DEF Connect, Full, TypeOK
    <2>2. /\ Append(queue[node], c) \in Seq(Clients)
          /\ Len(Append(queue[node], c)) <= MaxQueue
      BY <2>1, LimitAssumption
    <2>3. TypeOK'
      BY <1>0, <1>1, <2>2 DEF Connect, GoTo, TypeOK
    <2>4. Roles' /\ PortOwner'
      BY <1>0, <1>1 DEF Connect, GoTo, TypeOK, Roles, PortOwner, Listening, Procs
    <2> QED
      BY <2>3, <2>4 DEF Inv
  <1>2. CASE Block(c)
    <2>1. TypeOK'
      BY <1>0, <1>2 DEF Block, TypeOK
    <2>2. Roles' /\ PortOwner'
      BY <1>0, <1>2 DEF Block, Roles, PortOwner, Listening
    <2> QED
      BY <2>1, <2>2 DEF Inv
  <1> QED
    BY <1>1, <1>2

\* The other calls of a client.
LEMMA ClientKeeps ==
    ASSUME Inv, NEW c \in Clients,
           \/ ConnectFails(c) \/ ConnectTimesOut(c)
           \/ Send(c) \/ SendLost(c) \/ SendFails(c) \/ RecvReply(c) \/ RecvEnd(c)
    PROVE  Inv'
  <1>0. TypeOK /\ Roles /\ PortOwner /\ c \in Procs /\ c \notin Servers
    BY ProcsAssumption DEF Inv, Procs
  <1>1. /\ \E call \in {"abort", "recv", "sigpipe", "close"} : pc' = [pc EXCEPT ![c] = call]
        /\ msg' \in {msg, [msg EXCEPT ![c] = "sent"]}
        /\ got' = got \/ (c \in reply /\ got' = got \union {c})
        /\ UNCHANGED <<inet, node, queue, wait, peer, conn, reply, kills>>
    BY DEF ConnectFails, ConnectTimesOut, Send, SendLost, SendFails, RecvReply, RecvEnd, GoTo
  <1>2. TypeOK'
    BY <1>0, <1>1 DEF TypeOK
  <1>3. Roles' /\ PortOwner'
    BY <1>0, <1>1 DEF TypeOK, Roles, PortOwner, Listening, Procs
  <1> QED
    BY <1>2, <1>3 DEF Inv

\* The end of a process, by itself or killed.
LEMMA ReleaseKeeps ==
    ASSUME Inv, NEW p \in Procs, Close(p) \/ Kill(p)
    PROVE  Inv'
  <1>0. TypeOK /\ Roles /\ PortOwner
    BY DEF Inv
  <1>1. /\ \E how \in {"done", "failed", "killed"} : pc' = [pc EXCEPT ![p] = how]
        /\ Release(p)
        /\ inet' = inet
        /\ kills' \in 0..MaxKills
    BY <1>0, LimitAssumption DEF Close, Kill, GoTo, TypeOK
  <1>2. /\ node' \in {node, None}
        /\ queue' \in [Servers -> Seq(Clients)]
        /\ \A s \in Servers : Len(queue'[s]) <= MaxQueue
        /\ UNCHANGED <<wait, peer, conn, msg, reply, got>>
    BY <1>0, <1>1, LimitAssumption DEF Release, TypeOK
  <1>3. TypeOK'
    BY <1>0, <1>1, <1>2 DEF TypeOK
  <1>4. Roles'
    BY <1>0, <1>1, <1>2 DEF TypeOK, Roles, Procs
  <1>5. PortOwner'
    BY <1>0, <1>1, ProcsAssumption DEF Release, TypeOK, PortOwner, Listening, Procs
  <1> QED
    BY <1>3, <1>4, <1>5 DEF Inv

\* The invariant holds at the start.
LEMMA InvStart == Init => Inv
  <1> SUFFICES ASSUME Init PROVE Inv
    OBVIOUS
  <1>1. TypeOK
    BY InetAssumption, LimitAssumption DEF Init, TypeOK, Procs
  <1>2. Roles /\ PortOwner
    BY ProcsAssumption DEF Init, Roles, PortOwner, Listening, Procs
  <1> QED
    BY <1>1, <1>2 DEF Inv

\* Every step keeps the invariant.
LEMMA InvStep == Inv /\ [Next]_vars => Inv'
  <1> SUFFICES ASSUME Inv, [Next]_vars PROVE Inv'
    OBVIOUS
  <1>1. CASE UNCHANGED vars
    BY <1>1 DEF vars, Inv, TypeOK, Roles, PortOwner, Listening
  <1>2. ASSUME NEW s \in Servers, ServerStep(s) PROVE Inv'
    BY <1>2, SetupKeeps, ServeKeeps, ReleaseKeeps DEF ServerStep, Procs
  <1>3. ASSUME NEW c \in Clients, ClientStep(c) \/ ConnectTimesOut(c) PROVE Inv'
    BY <1>3, ConnectKeeps, ClientKeeps, ReleaseKeeps DEF ClientStep, Procs
  <1>4. ASSUME NEW p \in Procs, Kill(p) PROVE Inv'
    BY <1>4, ReleaseKeeps
  <1> QED
    BY <1>1, <1>2, <1>3, <1>4 DEF Next

\* The invariant holds in every state.
LEMMA Invariance == Spec => []Inv
  <1> QED
    BY InvStart, InvStep, PTL DEF Spec

-------------------------------------------------------------------------------
\* The variables of the stream programs keep their types; in particular a
\* backlog never holds more connections than listen() allowed.
THEOREM TypeCorrect == Spec => []TypeOK
  <1>1. Inv => TypeOK
    BY DEF Inv
  <1> QED
    BY <1>1, Invariance, PTL

\* Of all servers of 7_socket_stream_inet.c that bound the port at most one
\* listens on it, whichever of them end, fail or are killed.
THEOREM SingleListener == Spec => []OneListener
  <1>1. Inv => OneListener
    BY DEF Inv, PortOwner, OneListener, Listening
  <1> QED
    BY <1>1, Invariance, PTL

-------------------------------------------------------------------------------
(***************************************************************************)
(* What a connection's two ends know of each other.  Exchange is inductive *)
(* together with Inv.                                                      *)
(***************************************************************************)

\* No connection leads to a server that is not listening yet.
LEMMA SetupExchange ==
    ASSUME Inv, Exchange, NEW s \in Servers,
           \/ Unlink(s) \/ Bind(s) \/ BindFails(s) \/ Listen(s) \/ ListenFails(s)
    PROVE  Exchange'
  <1>0. TypeOK /\ s \in Procs /\ s \notin Clients /\ s # None
    BY ProcsAssumption DEF Inv, Procs
  <1>1. /\ pc[s] \in {"unlink", "bind", "listen"}
        /\ \E call \in {"bind", "listen", "accept", "abort"} :
               /\ pc' = [pc EXCEPT ![s] = call]
               /\ call = "accept" => pc[s] = "listen"
        /\ UNCHANGED <<inet, queue, wait, peer, conn, msg, reply, got, kills>>
    BY DEF Unlink, Bind, BindFails, Listen, ListenFails, GoTo
  <1>2. \A c \in Clients : conn[c] # s
    BY <1>0, <1>1 DEF Exchange, Connection
  <1>3. ASSUME NEW c \in Clients PROVE Connection(c)'
    BY <1>0, <1>1, <1>2 DEF Exchange, Connection, TypeOK, Procs
  <1>4. ASSUME NEW t \in Servers PROVE Service(t)'
    BY <1>0, <1>1, ProcsAssumption DEF Exchange, Service, TypeOK, Procs, Ended
  <1> QED
    BY <1>3, <1>4 DEF Exchange

\* Accepting: the server was free, and the queued client is connected to it.
LEMMA AcceptExchange ==
    ASSUME Inv, Exchange, NEW s \in Servers, Accept(s)
    PROVE  Exchange'
  <1>0. TypeOK /\ s \in Procs /\ s \notin Clients /\ s # None
    BY ProcsAssumption DEF Inv, Procs
  <1>1. /\ pc[s] = "accept" /\ peer[s] = None
        /\ queue[s] \in Seq(Clients) /\ queue[s] # <<>>
    BY <1>0 DEF Accept, TypeOK, Exchange, Service
  <1>2. /\ Head(queue[s]) \in Clients /\ Head(queue[s]) = queue[s][1]
        /\ 1 \in DOMAIN queue[s]
        /\ \A i \in DOMAIN Tail(queue[s]) :
               i + 1 \in DOMAIN queue[s] /\ Tail(queue[s])[i] = queue[s][i + 1]
    BY <1>1
  <1>3. conn[Head(queue[s])] = s
    BY <1>2 DEF Exchange, Service
  <1>4. /\ pc' = [pc EXCEPT ![s] = "recv"]
        /\ peer' = [peer EXCEPT ![s] = Head(queue[s])]
        /\ queue' = [queue EXCEPT ![s] = Tail(queue[s])]
        /\ UNCHANGED <<inet, conn, msg, reply, got>>
    BY DEF Accept, GoTo
  <1>5. ASSUME NEW c \in Clients PROVE Connection(c)'
    <2>1. Connection(c) /\ c \in Procs /\ c # s
      BY <1>0 DEF Exchange, Procs
    <2>2. conn[c] # s => conn[c] = None \/ peer'[conn[c]] = peer[conn[c]]
      BY <1>0, <1>4 DEF TypeOK
    <2>3. conn[c] # s => conn[c] = None \/ pc'[conn[c]] = pc[conn[c]]
      BY <1>0, <1>4 DEF TypeOK, Procs
    <2>4. conn[c] = s => msg[c] # "read" /\ pc'[s] = "recv" /\ pc[c] \notin {"close", "done"}
      BY <1>0, <1>1, <1>4, <2>1, ProcsAssumption DEF Connection, TypeOK
    <2> QED
      BY <1>0, <1>1, <1>4, <2>1, <2>2, <2>3, <2>4 DEF Connection, TypeOK
  <1>6. ASSUME NEW t \in Servers PROVE Service(t)'
    <2>1. CASE t = s
      BY <1>0, <1>2, <1>3, <1>4, <2>1 DEF Exchange, Service, TypeOK, Procs
    <2>2. CASE t # s
      BY <1>0, <1>4, <2>2, ProcsAssumption DEF Exchange, Service, TypeOK, Procs, Ended
    <2> QED
      BY <2>1, <2>2
  <1> QED
    BY <1>5, <1>6 DEF Exchange

\* The client of a server that is being served can have ended only by a kill,
\* unless its message was read.
LEMMA RecvExchange ==
    ASSUME Inv, Exchange, NEW s \in Servers, Recv(s)
    PROVE  Exchange'
  <1>0. TypeOK /\ s \in Procs /\ s \notin Clients /\ s # None
    BY ProcsAssumption DEF Inv, Procs
  <1>1. /\ pc[s] = "recv" /\ peer[s] \in Clients /\ conn[peer[s]] = s
        /\ peer[s] # None /\ peer[s] # s
    BY <1>0, ProcsAssumption DEF Recv, Exchange, Service, Procs
  <1>2. /\ pc' = [pc EXCEPT ![s] = "reply"]
        /\ UNCHANGED <<inet, queue, peer, conn, reply, got>>
    BY DEF Recv, GoTo
  <1>3. \/ msg' = [msg EXCEPT ![peer[s]] = "read"] /\ msg[peer[s]] = "sent"
        \/ msg' = msg /\ msg[peer[s]] = "none" /\ Ended(peer[s])
    BY DEF Recv
  <1>4. msg'[peer[s]] = "read" \/ pc'[peer[s]] = "killed"
    BY <1>0, <1>1, <1>2, <1>3 DEF Exchange, Connection, TypeOK, Procs, Ended
  <1>5. ASSUME NEW c \in Clients PROVE Connection(c)'
    BY <1>0, <1>1, <1>2, <1>3 DEF Exchange, Connection, TypeOK, Procs
  <1>6. ASSUME NEW t \in Servers PROVE Service(t)'
    <2>1. CASE t = s
      BY <1>0, <1>1, <1>2, <1>4, <2>1 DEF Exchange, Service, TypeOK, Procs
    <2>2. CASE t # s
      BY <1>0, <1>1, <1>2, <1>3, <2>2, ProcsAssumption
         DEF Exchange, Service, TypeOK, Procs, Ended
    <2> QED
      BY <2>1, <2>2
  <1> QED
    BY <1>5, <1>6 DEF Exchange

\* Replying: the message was read, or the client was killed.
LEMMA ReplyExchange ==
    ASSUME Inv, Exchange, NEW s \in Servers, Reply(s)
    PROVE  Exchange'
  <1>0. TypeOK /\ s \in Procs /\ s \notin Clients /\ s # None
    BY ProcsAssumption DEF Inv, Procs
  <1>1. /\ pc[s] = "reply" /\ peer[s] \in Clients /\ conn[peer[s]] = s
        /\ peer[s] # None /\ peer[s] # s
        /\ msg[peer[s]] = "read" \/ pc[peer[s]] = "killed"
    BY <1>0, ProcsAssumption DEF Reply, Exchange, Service, Procs
  <1>2. /\ reply' = IF Ended(peer[s]) THEN reply ELSE reply \union {peer[s]}
        /\ \/ /\ pc' = [pc EXCEPT ![s] = "sigpipe"]
              /\ queue' = [queue EXCEPT ![s] = <<>>]
           \/ /\ pc' = [pc EXCEPT ![s] = "close"]
              /\ queue' = queue
              /\ inet \/ ~Ended(peer[s])
        /\ UNCHANGED <<inet, peer, conn, msg, got>>
    BY <1>1 DEF Reply, GoTo
  <1>3. pc[peer[s]] = "killed" => Ended(peer[s])
    BY DEF Ended
  <1>4. ASSUME NEW c \in Clients PROVE Connection(c)'
    BY <1>0, <1>1, <1>2, <1>3 DEF Exchange, Connection, TypeOK, Procs
  <1>5. ASSUME NEW t \in Servers PROVE Service(t)'
    <2>1. CASE t = s
      BY <1>0, <1>1, <1>2, <1>3, <2>1 DEF Exchange, Service, TypeOK, Procs, Ended
    <2>2. CASE t # s
      BY <1>0, <1>1, <1>2, <2>2, ProcsAssumption
         DEF Exchange, Service, TypeOK, Procs, Ended
    <2> QED
      BY <2>1, <2>2
  <1> QED
    BY <1>4, <1>5 DEF Exchange

\* A new connection joins the queue of a listening server.
LEMMA ConnectExchange ==
    ASSUME Inv, Exchange, NEW c \in Clients, Connect(c) \/ Block(c)
    PROVE  Exchange'
  <1>0. TypeOK /\ c \in Procs /\ c \notin Servers /\ c # None /\ node \in Servers
    BY ProcsAssumption DEF Inv, Procs, Connect, Block, Listening
  <1>1. CASE Connect(c)
    <2>1. /\ pc[c] = "connect" /\ conn[c] = None /\ msg[c] = "none"
          /\ c \notin reply
      BY <1>1 DEF Connect, Exchange, Connection
    <2>2. /\ pc' = [pc EXCEPT ![c] = "send"]
          /\ conn' = [conn EXCEPT ![c] = node]
          /\ queue' = [queue EXCEPT ![node] = Append(queue[node], c)]
          /\ pc[node] \in {"accept", "recv", "reply", "close"}
          /\ UNCHANGED <<inet, peer, msg, reply, got>>
      BY <1>1 DEF Connect, GoTo, Listening
    <2>3. queue[node] \in Seq(Clients)
      BY <1>0 DEF TypeOK
    <2>4. \A i \in DOMAIN Append(queue[node], c) :
              \/ i \in DOMAIN queue[node] /\ Append(queue[node], c)[i] = queue[node][i]
              \/ Append(queue[node], c)[i] = c
      BY <2>3
    <2>5. \A t \in Servers : peer[t] # c
      BY <1>0, <2>1, ProcsAssumption DEF Exchange, Service, Procs
    <2>6. ASSUME NEW d \in Clients PROVE Connection(d)'
      BY <1>0, <2>1, <2>2, ProcsAssumption DEF Exchange, Connection, TypeOK, Procs
    <2>7. ASSUME NEW t \in Servers PROVE Service(t)'
      <3>1. Service(t) /\ t \in Procs /\ t # c
        BY <1>0 DEF Exchange, Procs
      <3>2. \A i \in DOMAIN queue'[t] : conn'[queue'[t][i]] = t
        <4>1. CASE t = node
          BY <1>0, <2>1, <2>2, <2>4, <3>1, <4>1 DEF Service, TypeOK
        <4>2. CASE t # node
          BY <1>0, <2>1, <2>2, <3>1, <4>2, ProcsAssumption DEF Service, TypeOK, Procs
        <4> QED
          BY <4>1, <4>2
      <3> QED
        BY <1>0, <2>1, <2>2, <2>5, <3>1, <3>2 DEF Service, TypeOK, Procs, Ended
    <2> QED
      BY <2>6, <2>7 DEF Exchange
  <1>2. CASE Block(c)
    BY <1>2 DEF Block, Exchange, Connection, Service, Ended
  <1> QED
    BY <1>1, <1>2


\* A connection that ends under a client was not the one its server served,
\* unless the server was killed or had answered.
LEMMA ClientExchange ==
    ASSUME Inv, Exchange, NEW c \in Clients,
           \/ ConnectFails(c) \/ ConnectTimesOut(c)
           \/ Send(c) \/ SendLost(c) \/ SendFails(c) \/ RecvReply(c) \/ RecvEnd(c)
    PROVE  Exchange'
  <1>0. TypeOK /\ c \in Procs /\ c \notin Servers /\ c # None
    BY ProcsAssumption DEF Inv, Procs
  <1>1. /\ \E call \in {"abort", "recv", "sigpipe", "close"} : pc' = [pc EXCEPT ![c] = call]
        /\ pc[c] \in {"connect", "send", "recv"}
        /\ msg' = msg \/ (pc[c] = "send" /\ msg' = [msg EXCEPT ![c] = "sent"])
        /\ got' = got \/ (got' = got \union {c})
        /\ UNCHANGED <<inet, queue, peer, conn, reply>>
    BY DEF ConnectFails, ConnectTimesOut, Send, SendLost, SendFails, RecvReply, RecvEnd, GoTo
  <1>2. Connection(c) /\ conn[c] \in Servers \union {None}
    BY <1>0 DEF Exchange, TypeOK
  <1>3. ASSUME conn[c] # None, Ended(conn[c]), pc[conn[c]] # "killed"
        PROVE  /\ pc[conn[c]] \in {"done", "sigpipe"}
               /\ peer[conn[c]] = c => msg[c] = "read" /\ c \in reply
    BY <1>1, <1>2, <1>3, ProcsAssumption DEF Exchange, Service, Connection, Ended
  <1>4. Connection(c)'
    <2>1. CASE ConnectFails(c) \/ ConnectTimesOut(c)
      BY <1>0, <1>2, <2>1 DEF ConnectFails, ConnectTimesOut, Connection, GoTo, TypeOK
    <2>2. CASE Send(c)
      BY <1>0, <1>2, <2>2, ProcsAssumption DEF Send, Connection, GoTo, TypeOK, Procs
    <2>3. CASE SendFails(c)
      BY <1>0, <1>2, <1>3, <2>3, ProcsAssumption
         DEF SendFails, Gone, Connection, GoTo, TypeOK, Procs
    <2>4. CASE SendLost(c)
      <3>1. pc[c] = "send" /\ Ended(conn[c]) /\ peer[conn[c]] = c /\ pc' = [pc EXCEPT ![c] = "recv"]
        BY <2>4 DEF SendLost, Closed, Gone, GoTo
      <3>2. conn[c] \in Servers /\ conn[c] # None /\ conn[c] # c /\ conn[c] \in Procs
        BY <1>0, <1>2, <3>1, ProcsAssumption DEF Connection, Procs
      <3>3. msg[c] = "none"
        BY <1>2, <3>1 DEF Connection
      <3>4. pc[conn[c]] = "killed"
        BY <1>3, <3>1, <3>2, <3>3
      <3> QED
        BY <1>0, <1>2, <2>4, <3>1, <3>2, <3>4 DEF SendLost, Connection, TypeOK
    <2>5. CASE RecvReply(c)
      BY <1>0, <1>2, <2>5, ProcsAssumption DEF RecvReply, Connection, GoTo, TypeOK, Procs
    <2>6. CASE RecvEnd(c)
      BY <1>0, <1>2, <1>3, <2>6, ProcsAssumption
         DEF RecvEnd, Gone, Connection, GoTo, TypeOK, Procs
    <2> QED
      BY <2>1, <2>2, <2>3, <2>4, <2>5, <2>6
  <1>5. ASSUME NEW d \in Clients, d # c PROVE Connection(d)'
    BY <1>0, <1>1, <1>5 DEF Exchange, Connection, TypeOK, Procs
  <1>6. ASSUME NEW t \in Servers PROVE Service(t)'
    <2>1. Service(t) /\ t \in Procs /\ t # c
      BY <1>0 DEF Exchange, Procs
    <2>2. ASSUME peer[t] # None
          PROVE  /\ msg[peer[t]] = "read" => msg'[peer[t]] = "read"
                 /\ pc[peer[t]] = "killed" => pc'[peer[t]] = "killed"
                 /\ Ended(peer[t]) => Ended(peer[t])'
      <3>1. peer[t] \in Clients /\ peer[t] \in Procs
        BY <1>0, <2>2 DEF TypeOK, Procs
      <3>2. pc[c] = "send" => msg[c] # "read"
        BY <1>2 DEF Connection
      <3> QED
        BY <1>0, <1>1, <3>1, <3>2 DEF Ended, TypeOK
    <2> QED
      BY <1>0, <1>1, <2>1, <2>2, ProcsAssumption DEF Service, TypeOK, Procs
  <1> QED
    BY <1>4, <1>5, <1>6 DEF Exchange

\* The end of a process changes no connection of another one's.
LEMMA ReleaseExchange ==
    ASSUME Inv, Exchange, NEW p \in Procs, Close(p) \/ Kill(p)
    PROVE  Exchange'
  <1>0. TypeOK
    BY DEF Inv
  <1>1. /\ \/ pc[p] = "close" /\ pc' = [pc EXCEPT ![p] = "done"]
           \/ pc[p] = "abort" /\ pc' = [pc EXCEPT ![p] = "failed"]
           \/ ~Ended(p) /\ pc' = [pc EXCEPT ![p] = "killed"]
        /\ queue' = queue \/ (p \in Servers /\ queue' = [queue EXCEPT ![p] = <<>>])
        /\ UNCHANGED <<inet, peer, conn, msg, reply, got>>
    BY DEF Close, Kill, Release, GoTo
  <1>2. ASSUME NEW c \in Clients PROVE Connection(c)'
    BY <1>0, <1>1, ProcsAssumption DEF Exchange, Connection, TypeOK, Procs, Ended
  <1>3. ASSUME NEW t \in Servers PROVE Service(t)'
    BY <1>0, <1>1, ProcsAssumption DEF Exchange, Service, TypeOK, Procs, Ended
  <1> QED
    BY <1>2, <1>3 DEF Exchange

\* There are no connections at the start.
LEMMA ExchangeStart == Init => Exchange
  <1> SUFFICES ASSUME Init PROVE Exchange
    OBVIOUS
  <1>1. ASSUME NEW c \in Clients PROVE Connection(c)
    BY <1>1, ProcsAssumption DEF Init, Connection, Procs
  <1>2. ASSUME NEW s \in Servers PROVE Service(s)
    BY <1>2, ProcsAssumption DEF Init, Service, Procs
  <1> QED
    BY <1>1, <1>2 DEF Exchange

\* Every step keeps Exchange.
LEMMA ExchangeStep == Inv /\ Exchange /\ [Next]_vars => Exchange'
  <1> SUFFICES ASSUME Inv, Exchange, [Next]_vars PROVE Exchange'
    OBVIOUS
  <1>1. CASE UNCHANGED vars
    BY <1>1 DEF vars, Exchange, Connection, Service, Ended
  <1>2. ASSUME NEW s \in Servers, ServerStep(s) PROVE Exchange'
    BY <1>2, SetupExchange, AcceptExchange, RecvExchange, ReplyExchange, ReleaseExchange
       DEF ServerStep, Procs
  <1>3. ASSUME NEW c \in Clients, ClientStep(c) \/ ConnectTimesOut(c) PROVE Exchange'
    BY <1>3, ConnectExchange, ClientExchange, ReleaseExchange DEF ClientStep, Procs
  <1>4. ASSUME NEW p \in Procs, Kill(p) PROVE Exchange'
    BY <1>4, ReleaseExchange
  <1> QED
    BY <1>1, <1>2, <1>3, <1>4 DEF Next

\* Inv and Exchange hold in every state.
LEMMA ExchangeInvariance == Spec => [](Inv /\ Exchange)
  <1> QED
    BY InvStart, InvStep, ExchangeStart, ExchangeStep, PTL DEF Spec

\* A client whose connection was reset has another client that its server
\* served, or the killing of its server, to blame.
THEOREM ResetCause == Spec => []ResetByRival
  <1>1. Inv /\ Exchange => ResetByRival
    <2> SUFFICES ASSUME Inv, Exchange, NEW c \in Clients,
                        pc[c] \in {"failed", "sigpipe"}, conn[c] # None
                 PROVE  peer[conn[c]] \notin {None, c} \/ pc[conn[c]] = "killed"
      BY DEF ResetByRival
    <2>1. Connection(c) /\ conn[c] \in Servers
      BY DEF Inv, TypeOK, Exchange
    <2>2. CASE pc[conn[c]] # "killed"
      <3>1. pc[conn[c]] \in {"done", "sigpipe"} /\ peer[conn[c]] # c
        BY <2>1, <2>2 DEF Connection
      <3>2. peer[conn[c]] \in Clients
        BY <2>1, <3>1 DEF Exchange, Service
      <3> QED
        BY <3>1, <3>2, ProcsAssumption DEF Procs
    <2> QED
      BY <2>2
  <1> QED
    BY <1>1, ExchangeInvariance, PTL

\* What a client or a server that reports success knows of the other one,
\* although neither program takes the end of a connection for an error.
THEOREM SuccessIsExchange == Spec => []SuccessMeansExchange
  <1>1. Inv /\ Exchange => SuccessMeansExchange
    <2> SUFFICES ASSUME Inv, Exchange PROVE SuccessMeansExchange
      OBVIOUS
    <2>1. ASSUME NEW c \in Clients, pc[c] = "done"
          PROVE  \/ c \in got /\ peer[conn[c]] = c /\ msg[c] = "read"
                 \/ pc[conn[c]] = "killed"
      BY <2>1 DEF Exchange, Connection
    <2>2. ASSUME NEW s \in Servers, pc[s] = "done"
          PROVE  msg[peer[s]] = "read" \/ (inet /\ pc[peer[s]] = "killed")
      BY <2>2 DEF Exchange, Service
    <2> QED
      BY <2>1, <2>2 DEF SuccessMeansExchange
  <1> QED
    BY <1>1, ExchangeInvariance, PTL

-------------------------------------------------------------------------------
(***************************************************************************)
(* Who waits for whom.                                                     *)
(***************************************************************************)
\* A server in recv() has not read the message yet, and one in accept() that a
\* client is connected to has a connection to take.
Pending ==
    /\ \A s \in Servers : pc[s] = "recv" => msg[peer[s]] # "read"
    /\ \A c \in Clients : conn[c] # None /\ pc[conn[c]] = "accept" => queue[conn[c]] # <<>>

\* What a process can do next: every call but accept(), connect() and recv() while
\* there is nothing to take, no room and nothing to read.
CanStep(p) ==
    \/ pc[p] \in {"unlink", "bind", "listen", "reply", "send", "close", "abort"}
    \/ pc[p] = "accept" /\ queue[p] # <<>>
    \/ /\ p \in Servers /\ pc[p] = "recv"
       /\ msg[peer[p]] = "sent" \/ (msg[peer[p]] = "none" /\ Ended(peer[p]))
    \/ p \in Clients /\ pc[p] = "recv" /\ (p \in reply \/ Gone(p))
    \/ pc[p] = "connect" /\ ~Held(p) /\ ~(inet /\ Listening(node) /\ Full(node))

GoesOn == (\E c \in Clients : ~Ended(c)) => \E p \in Procs : CanStep(p)

LEMMA PendingStep ==
    ASSUME Inv, Exchange, Inv', Exchange', Pending, [Next]_vars
    PROVE  Pending'
  <1>0. TypeOK /\ Roles /\ TypeOK' /\ Servers \subseteq Procs /\ Clients \subseteq Procs
    BY DEF Inv, Procs
  <1>1. ASSUME NEW s \in Servers, Unlink(s) \/ Bind(s) \/ BindFails(s) \/ Listen(s) \/ ListenFails(s)
        PROVE  Pending'
    <2>1. /\ pc[s] \in {"unlink", "bind", "listen"} /\ pc'[s] # "recv"
          /\ \A p \in Procs : p # s => pc'[p] = pc[p]
          /\ UNCHANGED <<queue, peer, conn, msg>>
      BY <1>0, <1>1 DEF Unlink, Bind, BindFails, Listen, ListenFails, GoTo, TypeOK
    <2>2. \A c \in Clients : conn[c] # s
      BY <2>1, ProcsAssumption DEF Exchange, Connection, Procs
    <2> QED
      BY <1>0, <2>1, <2>2 DEF Pending, TypeOK
  <1>2. ASSUME NEW s \in Servers, Accept(s)
        PROVE  Pending'
    <2>1. /\ pc[s] = "accept" /\ pc'[s] = "recv" /\ peer'[s] = Head(queue[s]) /\ queue[s] # <<>>
          /\ \A p \in Procs : p # s => pc'[p] = pc[p]
          /\ \A t \in Servers : t # s => queue'[t] = queue[t] /\ peer'[t] = peer[t]
          /\ UNCHANGED <<conn, msg>>
      BY <1>0, <1>2 DEF Accept, GoTo, TypeOK
    <2>2. queue[s] \in Seq(Clients) /\ 1 \in DOMAIN queue[s] /\ Head(queue[s]) = queue[s][1]
      BY <1>0, <2>1 DEF TypeOK
    <2>3. Head(queue[s]) \in Clients /\ conn[Head(queue[s])] = s
      BY <2>2, ElementOfSeq DEF Exchange, Service
    <2>4. peer[s] = None
      BY <2>1 DEF Exchange, Service
    <2>5. msg[peer'[s]] # "read"
      BY <2>1, <2>3, <2>4, ProcsAssumption DEF Exchange, Connection, Procs
    <2>7. \A t \in Servers : pc'[t] = "recv" => msg'[peer'[t]] # "read"
      BY <1>0, <2>1, <2>5 DEF Pending, TypeOK
    <2>8. \A c \in Clients : conn'[c] # None /\ pc'[conn'[c]] = "accept" => queue'[conn'[c]] # <<>>
      <3> SUFFICES ASSUME NEW c \in Clients, conn'[c] # None, pc'[conn'[c]] = "accept"
                   PROVE  queue'[conn'[c]] # <<>>
        OBVIOUS
      <3>1. conn[c] \in Servers /\ conn[c] \in Procs /\ conn[c] # s /\ conn'[c] = conn[c]
        BY <1>0, <2>1 DEF TypeOK
      <3> QED
        BY <2>1, <3>1 DEF Pending
    <2> QED
      BY <2>7, <2>8 DEF Pending
  <1>3. ASSUME NEW s \in Servers, Recv(s) \/ Reply(s)
        PROVE  Pending'
    <2>1. /\ pc[s] \in {"recv", "reply"} /\ pc'[s] \notin {"recv", "accept"}
          /\ \A p \in Procs : p # s => pc'[p] = pc[p]
          /\ \A t \in Servers : t # s => queue'[t] = queue[t]
          /\ UNCHANGED <<conn, peer>>
          /\ \A c \in Clients : c # peer[s] => msg'[c] = msg[c]
      BY <1>0, <1>3 DEF Recv, Reply, GoTo, TypeOK, Roles
    <2>2. \A t \in Servers : t # s /\ pc[t] = "recv" => peer[t] # peer[s] /\ peer[t] \in Clients
      BY <1>0, <2>1, ProcsAssumption DEF Exchange, Service, Roles, Procs
    <2>7. \A t \in Servers : pc'[t] = "recv" => msg'[peer'[t]] # "read"
      BY <1>0, <2>1, <2>2 DEF Pending, TypeOK
    <2>8. \A c \in Clients : conn'[c] # None /\ pc'[conn'[c]] = "accept" => queue'[conn'[c]] # <<>>
      <3> SUFFICES ASSUME NEW c \in Clients, conn'[c] # None, pc'[conn'[c]] = "accept"
                   PROVE  queue'[conn'[c]] # <<>>
        OBVIOUS
      <3>1. conn[c] \in Servers /\ conn[c] \in Procs /\ conn[c] # s /\ conn'[c] = conn[c]
        BY <1>0, <2>1 DEF TypeOK
      <3> QED
        BY <2>1, <3>1 DEF Pending
    <2> QED
      BY <2>7, <2>8 DEF Pending
  <1>4. ASSUME NEW c \in Clients, ClientStep(c) \/ ConnectTimesOut(c), ~Close(c)
        PROVE  Pending'
    <2>1. /\ \A s \in Servers : pc'[s] = pc[s]
          /\ peer' = peer
          /\ \A d \in Clients : msg'[d] = msg[d] \/ msg'[d] = "sent"
      BY <1>0, <1>4, ProcsAssumption DEF ClientStep, Connect, Block, ConnectFails, ConnectTimesOut,
         Send, SendLost, SendFails, RecvReply, RecvEnd, GoTo, TypeOK
    <2>2. CASE Connect(c)
      <3>1. /\ node \in Servers /\ conn' = [conn EXCEPT ![c] = node]
            /\ queue' = [queue EXCEPT ![node] = Append(@, c)]
        BY <2>2 DEF Connect, Listening
      <3>2. queue'[node] # <<>>
        <4>1. queue[node] \in Seq(Clients) /\ queue'[node] = Append(queue[node], c)
          BY <1>0, <3>1 DEF TypeOK
        <4> QED
          BY <4>1, AppendProperties
      <3>3. \A s \in Servers : queue[s] # <<>> => queue'[s] # <<>>
        BY <1>0, <3>1, <3>2 DEF TypeOK
      <3>4. \A d \in Clients : conn'[d] \in {conn[d], node}
        BY <1>0, <3>1 DEF TypeOK
      <3> QED
        BY <1>0, <2>1, <3>1, <3>2, <3>3, <3>4 DEF Pending, TypeOK, Roles
    <2>3. CASE ~Connect(c)
      <3>1. conn' = conn /\ queue' = queue
        BY <1>4, <2>3 DEF ClientStep, Block, ConnectFails, ConnectTimesOut,
           Send, SendLost, SendFails, RecvReply, RecvEnd
      <3> QED
        BY <1>0, <2>1, <3>1 DEF Pending, TypeOK, Roles
    <2> QED
      BY <2>2, <2>3
  <1>5. ASSUME NEW p \in Procs, Close(p) \/ Kill(p)
        PROVE  Pending'
    <2>1. /\ pc'[p] \in {"done", "failed", "killed"}
          /\ \A q \in Procs : q # p => pc'[q] = pc[q]
          /\ \A s \in Servers : s # p => queue'[s] = queue[s]
          /\ UNCHANGED <<conn, peer, msg>>
      BY <1>0, <1>5 DEF Close, Kill, Release, GoTo, TypeOK
    <2> QED
      BY <1>0, <2>1 DEF Pending, TypeOK
  <1>6. CASE UNCHANGED vars
    BY <1>6 DEF vars, Pending
  <1> QED
    BY <1>0, <1>1, <1>2, <1>3, <1>4, <1>5, <1>6 DEF Next, ServerStep, ClientStep

\* A server that somebody waits for can go on, or the client it accepted.
LEMMA ServerGoesOn ==
    ASSUME Inv, Exchange, Pending, NEW s \in Servers,
           pc[s] \in {"accept", "recv", "reply", "close"}, pc[s] = "accept" => queue[s] # <<>>
    PROVE  \E p \in Procs : CanStep(p)
  <1>1. s \in Procs
    BY DEF Procs
  <1>2. CASE pc[s] # "recv"
    BY <1>1, <1>2 DEF CanStep
  <1>3. CASE pc[s] = "recv"
    <2>1. peer[s] \in Clients /\ peer[s] \in Procs /\ conn[peer[s]] = s /\ s # None
      BY <1>3, ProcsAssumption DEF Exchange, Service, Procs
    <2>2. msg[peer[s]] \in {"none", "sent"}
      BY <1>3, <2>1 DEF Pending, Inv, TypeOK
    <2>3. CASE msg[peer[s]] = "sent" \/ Ended(peer[s])
      BY <1>1, <1>3, <2>2, <2>3 DEF CanStep
    <2>4. CASE msg[peer[s]] = "none" /\ ~Ended(peer[s])
      <3>1. pc[peer[s]] \notin {"connect", "recv"}
        BY <1>3, <2>1, <2>4 DEF Exchange, Connection
      <3>2. pc[peer[s]] \in {"send", "close", "abort"}
        BY <2>1, <2>4, <3>1 DEF Inv, TypeOK, Roles, Ended
      <3> QED
        BY <2>1, <3>2 DEF CanStep
    <2> QED
      BY <2>2, <2>3, <2>4
  <1> QED
    BY <1>2, <1>3

LEMMA SomebodyGoesOn == Inv /\ Exchange /\ Pending => GoesOn
  <1> SUFFICES ASSUME Inv, Exchange, Pending, NEW c \in Clients, ~Ended(c)
               PROVE  \E p \in Procs : CanStep(p)
    BY DEF GoesOn
  <1>0. c \in Procs /\ TypeOK /\ Roles
    BY DEF Procs, Inv
  <1>1. CASE CanStep(c)
    BY <1>0, <1>1
  <1>2. ASSUME NEW s \in Procs \union {None}, Listening(s), Full(s)
        PROVE  \E p \in Procs : CanStep(p)
    <2>1. s \in Servers /\ pc[s] \in {"accept", "recv", "reply", "close"}
      BY <1>2 DEF Listening
    <2>2. queue[s] \in Seq(Clients) /\ Len(queue[s]) >= MaxQueue
      BY <1>0, <1>2, <2>1 DEF Full, TypeOK
    <2>3. ASSUME queue[s] = <<>> PROVE FALSE
      <3>1. Len(queue[s]) = 0
        BY <2>3, EmptySeq
      <3> QED
        BY <2>2, <3>1, LimitAssumption
    <2> QED
      BY <2>1, <2>3, ServerGoesOn
  <1>3. CASE pc[c] = "connect" /\ ~CanStep(c)
    <2>1. (Listening(wait[c]) /\ Full(wait[c])) \/ (Listening(node) /\ Full(node))
      BY <1>3 DEF CanStep, Held
    <2>2. wait[c] \in Procs \union {None} /\ node \in Procs \union {None}
      BY <1>0 DEF TypeOK, Procs
    <2> QED
      BY <1>2, <2>1, <2>2
  <1>4. CASE pc[c] = "recv" /\ ~CanStep(c)
    <2>1. ~Ended(conn[c]) /\ conn[c] \in Servers /\ conn[c] # None
      BY <1>4, ProcsAssumption DEF CanStep, Gone, Exchange, Connection, Procs
    <2>2. pc[conn[c]] \notin {"unlink", "bind", "listen", "abort", "failed"}
      BY <2>1 DEF Exchange, Connection
    <2>3. pc[conn[c]] \in {"accept", "recv", "reply", "close"}
      BY <1>0, <2>1, <2>2 DEF TypeOK, Roles, Ended, Procs
    <2>4. pc[conn[c]] = "accept" => queue[conn[c]] # <<>>
      BY <2>1 DEF Pending
    <2> QED
      BY <2>1, <2>3, <2>4, ServerGoesOn
  <1>5. pc[c] \in {"connect", "send", "recv", "close", "abort"}
    BY <1>0 DEF TypeOK, Roles, Ended
  <1> QED
    BY <1>1, <1>3, <1>4, <1>5 DEF CanStep

\* As long as a client has not ended, some process can make its next call: nobody
\* waits in a circle, and no connection is lost sight of.
THEOREM NoDeadlock == Spec => []GoesOn
  <1>1. Init => Pending
    BY DEF Init, Pending, Procs
  <1>2. Inv /\ Exchange /\ Inv' /\ Exchange' /\ Pending /\ [Next]_vars => Pending'
    BY PendingStep
  <1> QED
    BY <1>1, <1>2, ExchangeInvariance, SomebodyGoesOn, PTL DEF Spec

-------------------------------------------------------------------------------
(***************************************************************************)
(* Every step uses something up.                                           *)
(***************************************************************************)
\* The calls a process has before it, and the servers a connect() can still be
\* blocked on: the one it would find now, and those that do not listen yet.
Calls(p) ==
    CASE pc[p] = "unlink"  -> 7
      [] pc[p] = "bind"    -> 6
      [] pc[p] \in {"listen", "connect"} -> 5
      [] pc[p] \in {"accept", "send"} -> 4
      [] pc[p] = "recv"    -> 3
      [] pc[p] = "reply"   -> 2
      [] pc[p] \in {"close", "abort"} -> 1
      [] OTHER -> 0

Coming   == {s \in Servers : pc[s] \in {"unlink", "bind", "listen"}}
Ahead(c) == Coming \union ({node} \ {wait[c], None})

UsesUp ==
    /\ \A p \in Procs : Calls(p)' <= Calls(p)
    /\ \A c \in Clients : Ahead(c)' \subseteq Ahead(c)
    /\ \/ \E p \in Procs : Calls(p)' < Calls(p)
       \/ \E c \in Clients : Ahead(c)' # Ahead(c)

\* The processes make finitely many calls, whoever runs when.
THEOREM StepsRunOut == Spec => [][UsesUp]_vars
  <1>0. Servers \subseteq Procs /\ Clients \subseteq Procs
    BY DEF Procs
  <1>1. ASSUME Inv, NEW c \in Clients, Block(c)
        PROVE  UsesUp
    <2>1. /\ pc' = pc /\ node' = node /\ wait'[c] = node /\ wait[c] # node
          /\ node \in Servers /\ pc[node] \in {"accept", "recv", "reply", "close"}
          /\ \A d \in Clients : d # c => wait'[d] = wait[d]
      BY <1>1 DEF Block, Held, Listening, Inv, TypeOK
    <2>2. \A q \in Procs : Calls(q)' = Calls(q) /\ Calls(q) \in 0..7
      BY <2>1 DEF Calls
    <2>3. \A d \in Clients : Ahead(d)' \subseteq Ahead(d)
      BY <2>1 DEF Ahead, Coming
    <2>4. node \in Ahead(c) /\ node \notin Ahead(c)'
      BY <2>1, ProcsAssumption DEF Ahead, Coming, Procs
    <2> QED
      BY <2>2, <2>3, <2>4 DEF UsesUp
  <1>2. ASSUME Inv, NEW p \in Procs,
               \/ p \in Servers /\ ServerStep(p)
               \/ p \in Clients /\ (ClientStep(p) \/ ConnectTimesOut(p)) /\ ~Block(p)
               \/ Kill(p)
        PROVE  UsesUp
    <2>0. TypeOK
      BY <1>2 DEF Inv
    <2>1. /\ wait' = wait
          /\ \A q \in Procs : q # p => pc'[q] = pc[q]
          /\ Calls(p)' < Calls(p)
      <3>1. CASE p \in Servers /\ ServerStep(p)
        BY <2>0, <3>1 DEF Calls, ServerStep, Unlink, Bind, BindFails, Listen, ListenFails,
           Accept, Recv, Reply, Close, Release, GoTo, TypeOK
      <3>2. CASE p \in Clients /\ (ClientStep(p) \/ ConnectTimesOut(p)) /\ ~Block(p)
        BY <2>0, <3>2 DEF Calls, ClientStep, Connect, ConnectFails, ConnectTimesOut, Send,
           SendLost, SendFails, RecvReply, RecvEnd, Close, Release, GoTo, TypeOK
      <3>3. CASE Kill(p)
        BY <2>0, <3>3 DEF Calls, Kill, Release, GoTo, Ended, TypeOK
      <3> QED
        BY <1>2, <3>1, <3>2, <3>3
    <2>2. /\ Coming' \subseteq Coming
          /\ node' \in {node, None} \/ (node' = p /\ p \in Coming)
      <3>1. CASE p \in Servers /\ ServerStep(p)
        BY <2>0, <3>1 DEF Coming, ServerStep, Unlink, Bind, BindFails, Listen, ListenFails,
           Accept, Recv, Reply, Close, Release, GoTo, TypeOK, Procs
      <3>2. CASE p \in Clients /\ (ClientStep(p) \/ ConnectTimesOut(p)) /\ ~Block(p)
        BY <1>0, <2>0, <2>1, <3>2, ProcsAssumption DEF Coming, ClientStep, Connect, ConnectFails,
           ConnectTimesOut, Send, SendLost, SendFails, RecvReply, RecvEnd, Close, Release, GoTo, TypeOK
      <3>3. CASE Kill(p)
        BY <2>0, <3>3 DEF Coming, Kill, Release, GoTo, TypeOK, Procs
      <3> QED
        BY <1>2, <3>1, <3>2, <3>3
    <2>3. \A c \in Clients : Ahead(c)' \subseteq Ahead(c)
      BY <2>1, <2>2 DEF Ahead
    <2>4. \A q \in Procs : Calls(q) \in 0..7 /\ Calls(q)' \in 0..7
      BY DEF Calls
    <2>5. \A q \in Procs : q # p => Calls(q)' = Calls(q)
      BY <2>1 DEF Calls
    <2>6. \A q \in Procs : Calls(q)' <= Calls(q)
      BY <2>1, <2>4, <2>5
    <2> QED
      BY <2>1, <2>3, <2>6 DEF UsesUp
  <1>3. Inv /\ [Next]_vars => [UsesUp]_vars
    BY <1>0, <1>1, <1>2 DEF Next
  <1> QED
    BY <1>3, Invariance, PTL DEF Spec
===============================================================================
