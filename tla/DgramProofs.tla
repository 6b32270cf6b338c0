------------------------------ MODULE DgramProofs ------------------------------
(***************************************************************************)
(* Proofs about Dgram: any number of servers and clients of either         *)
(* program, any queue length, any number of kills.                         *)
(***************************************************************************)
EXTENDS Dgram, FiniteSetTheorems, SequenceTheorems, TLAPS

\* Servers deal with clients and clients with servers.
Roles ==
    /\ node["server"] \in Servers \union {None}
    /\ node["client"] \in Clients \union {None}
    /\ \A s \in Servers : peer[s] \in Clients \union {None} /\ pc[s] # "send"
    /\ \A c \in Clients : peer[c] \in Servers \union {None} /\ pc[c] # "reply"

\* A client's own request: sent once, to dest, where it stays until the server
\* takes a request.  Only a client that asks binds its path, and waits.
Asker(c) ==
    /\ pc[c] \in {"unlink", "bind"} => asking
    /\ pc[c] \in {"unlink", "bind", "send"} => dest[c] = None
    /\ pc[c] = "receive" => asking /\ dest[c] # None
    /\ asking /\ pc[c] \in {"send", "receive"} => c \in open
    /\ dest[c] # None =>
           /\ pc[dest[c]] = "receive" => InBox(c, dest[c])
           /\ took[dest[c]] = None => pc[dest[c]] \in {"receive", "killed"}

\* A server takes one request, and keeps none twice.
Server(s) ==
    /\ pc[s] \in {"unlink", "bind", "receive"} => took[s] = None /\ peer[s] = None
    /\ pc[s] = "reply" => asking /\ took[s] # None
    /\ pc[s] \in {"receive", "reply"} => s \in open
    /\ s \in open => pc[s] \in {"receive", "reply", "close", "abort"}
    /\ s \in open => pc[s] = "receive" \/ took[s] # None
    /\ took[s] # None => dest[took[s]] = s
    /\ \A i \in DOMAIN inbox[s] :
           /\ dest[inbox[s][i]] = s /\ inbox[s][i] # took[s]
           /\ \A j \in DOMAIN inbox[s] : inbox[s][i] = inbox[s][j] => i = j

\* While the path still names the client, the answer comes to it.
Returned(c) ==
    node["client"] = c =>
        /\ \A s \in Servers : took[s] = c => peer[s] \in {None, c}
        /\ pc[c] = "receive" /\ took[dest[c]] = c /\ pc[dest[c]] \notin {"reply", "killed"}
              => inbox[c] # <<>>

Basic == /\ TypeOK /\ Roles
         /\ \A c \in Clients : Asker(c)
         /\ \A s \in Servers : Server(s)
Inv == Basic /\ \A c \in Clients : Returned(c)

\* c bound its path, and then d did, or c is d.
Turn(c)       == \E i \in DOMAIN turns : turns[i] = c
Precedes(c, d) == c = d \/ \E i, j \in DOMAIN turns :
                               i < j /\ turns[i] = c /\ turns[j] = d

\* The path names the client that bound it last, and a reply goes to the client
\* that asked or to one that bound the path after it.
Turns ==
    /\ node["client"] # None => turns # <<>> /\ turns[Len(turns)] = node["client"]
    /\ asking => \A c \in Clients : c \in open \/ dest[c] # None => Turn(c)
    /\ \A s \in Servers : peer[s] # None => took[s] # None /\ Precedes(took[s], peer[s])
    /\ \A c \in Clients : \A i \in DOMAIN inbox[c] : Precedes(inbox[c][i], c)
    /\ \A c \in Clients : got[c] # None => Precedes(got[c], c)

-------------------------------------------------------------------------------
(***************************************************************************)
(* Basic is inductive.                                                     *)
(***************************************************************************)
\* Binding a path, or failing to: nobody has sent anything to a server before.
LEMMA BindBasic ==
    ASSUME Basic, NEW p \in Procs, Unlink(p) \/ Bind(p) \/ BindFails(p)
    PROVE  Basic'
  <1>0. TypeOK /\ Roles /\ p # None
    BY ProcsAssumption DEF Basic, Procs
  <1>1. /\ pc[p] \in {"unlink", "bind"}
        /\ \/ pc[p] = "unlink" /\ pc' = [pc EXCEPT ![p] = "bind"] /\ open' = open
           \/ pc[p] = "bind" /\ pc' = [pc EXCEPT ![p] = "abort"] /\ open' = open
           \/ /\ pc[p] = "bind" /\ open' = open \union {p}
              /\ pc' = [pc EXCEPT ![p] = IF p \in Servers THEN "receive" ELSE "send"]
        /\ node' = node \/ node' = [node EXCEPT ![PathOf(p)] = None]
                        \/ node' = [node EXCEPT ![PathOf(p)] = p]
        /\ turns' = turns \/ (p \in Clients /\ turns' = Append(turns, p))
        /\ UNCHANGED <<asking, inbox, peer, took, got, dest, kills>>
    BY DEF Unlink, Bind, BindFails, GoTo
  <1>2. TypeOK'
    <2>1. node' \in [Paths -> Procs \union {None}]
      <3>1. PathOf(p) \in Paths /\ node \in [Paths -> Procs \union {None}]
        BY <1>0 DEF TypeOK, PathOf, Paths
      <3> QED
        BY <1>1, <3>1
    <2>2. turns' \in Seq(Clients)
      <3>1. turns \in Seq(Clients)
        BY <1>0 DEF TypeOK
      <3>2. \A c \in Clients : Append(turns, c) \in Seq(Clients)
        BY <3>1
      <3> QED
        BY <1>1, <3>1, <3>2
    <2> QED
      BY <1>0, <1>1, <2>1, <2>2 DEF TypeOK
  <1>3. Roles'
    <2>1. node'["server"] \in Servers \union {None} /\ node'["client"] \in Clients \union {None}
      BY <1>0, <1>1, ProcsAssumption DEF Roles, TypeOK, PathOf, Paths, Procs
    <2> QED
      BY <1>0, <1>1, <2>1, ProcsAssumption DEF Roles, TypeOK, Procs
  <1>4. ASSUME NEW c \in Clients PROVE Asker(c)'
    <2>1. Asker(c) /\ c \in Procs /\ dest[c] \in Servers \union {None}
      BY <1>0 DEF Basic, TypeOK, Procs
    <2>2. dest[c] # None => dest[c] # p
      <3> SUFFICES ASSUME dest[c] = p, p \in Servers PROVE FALSE
        BY <1>0, <2>1
      <3>1. took[p] = None
        BY <1>1 DEF Basic, Server
      <3> QED
        BY <1>0, <1>1, <2>1, <3>1 DEF Asker
    <2> QED
      BY <1>0, <1>1, <2>1, <2>2, ProcsAssumption DEF Asker, TypeOK, Procs, InBox
  <1>5. ASSUME NEW s \in Servers PROVE Server(s)'
    BY <1>0, <1>1, ProcsAssumption DEF Basic, Server, TypeOK, Procs
  <1> QED
    BY <1>2, <1>3, <1>4, <1>5 DEF Basic

\* What an operation on a queue that has room leaves in it.
LEMMA Appended ==
    ASSUME TypeOK, NEW q \in Procs, HasRoom(q), NEW d \in Clients, Deliver(q, d)
    PROVE  /\ inbox' \in [Procs -> Seq(Clients)]
           /\ \A p \in Procs : Len(inbox'[p]) <= MaxQueue
           /\ inbox'[q] # <<>>
           /\ \A i \in DOMAIN inbox'[q] :
                  \/ i \in DOMAIN inbox[q] /\ inbox'[q][i] = inbox[q][i]
                  \/ i = Len(inbox[q]) + 1 /\ inbox'[q][i] = d
           /\ \A e \in Clients : InBox(e, q) => InBox(e, q)'
           /\ InBox(d, q)'
           /\ \A p \in Procs \ {q} : inbox'[p] = inbox[p]
  <1>1. /\ inbox \in [Procs -> Seq(Clients)] /\ inbox[q] \in Seq(Clients)
        /\ Len(inbox[q]) < MaxQueue /\ MaxQueue \in Nat /\ Len(inbox[q]) \in Nat
    BY LimitAssumption DEF TypeOK, HasRoom
  <1>2. /\ inbox' = [inbox EXCEPT ![q] = Append(inbox[q], d)]
        /\ inbox'[q] = Append(inbox[q], d)
    BY <1>1 DEF Deliver
  <1>3. /\ Append(inbox[q], d) \in Seq(Clients)
        /\ Len(Append(inbox[q], d)) = Len(inbox[q]) + 1
        /\ DOMAIN inbox[q] = 1..Len(inbox[q])
        /\ DOMAIN Append(inbox[q], d) = 1..(Len(inbox[q]) + 1)
        /\ \A i \in 1..Len(inbox[q]) : Append(inbox[q], d)[i] = inbox[q][i]
        /\ Append(inbox[q], d)[Len(inbox[q]) + 1] = d
    BY <1>1
  <1>4. /\ inbox' \in [Procs -> Seq(Clients)]
        /\ \A p \in Procs \ {q} : inbox'[p] = inbox[p]
    BY <1>1, <1>2, <1>3
  <1>5. \A p \in Procs : Len(inbox'[p]) <= MaxQueue
    BY <1>1, <1>2, <1>3, <1>4 DEF TypeOK
  <1>6. inbox'[q] # <<>>
    BY <1>1, <1>2, <1>3
  <1>7. \A i \in DOMAIN inbox'[q] :
            \/ i \in DOMAIN inbox[q] /\ inbox'[q][i] = inbox[q][i]
            \/ i = Len(inbox[q]) + 1 /\ inbox'[q][i] = d
    BY <1>1, <1>2, <1>3
  <1>8. (\A e \in Clients : InBox(e, q) => InBox(e, q)') /\ InBox(d, q)'
    <2>1. Len(inbox[q]) + 1 \in DOMAIN inbox'[q] /\ inbox'[q][Len(inbox[q]) + 1] = d
      BY <1>1, <1>2, <1>3
    <2>2. \A i \in DOMAIN inbox[q] : i \in DOMAIN inbox'[q] /\ inbox'[q][i] = inbox[q][i]
      BY <1>1, <1>2, <1>3
    <2> QED
      BY <2>1, <2>2 DEF InBox
  <1> QED
    BY <1>4, <1>5, <1>6, <1>7, <1>8

\* A request is new and goes to an open socket of a server.
LEMMA RequestBasic ==
    ASSUME Basic, NEW c \in Clients, Request(c)
    PROVE  Basic' /\ dest'[c] \in open \intersect Servers /\ dest[c] = None
  <1>0. /\ TypeOK /\ Roles /\ c \in Procs /\ c \notin Servers /\ c # None /\ Asker(c)
    BY ProcsAssumption DEF Basic, Procs
  <1>a. Target(c, "server") \in open \intersect Servers
    BY <1>0, ProcsAssumption DEF Request, HasRoom, Target, Roles, TypeOK, Procs
  <1>b. PICK s \in Servers : s = Target(c, "server")
    BY <1>a
  <1>1. /\ pc[c] = "send" /\ HasRoom(s) /\ Deliver(s, c)
        /\ dest' = [dest EXCEPT ![c] = s]
        /\ pc' = [pc EXCEPT ![c] = IF asking THEN "receive" ELSE "close"]
        /\ UNCHANGED <<asking, node, open, peer, took, got, turns, kills>>
    BY <1>b DEF Request, GoTo
  <1>2. s \in open /\ s \in Procs /\ s # None /\ s # c
    BY <1>0, <1>a, <1>b, ProcsAssumption DEF Procs
  <1>3. dest[c] = None
    BY <1>0, <1>1 DEF Asker
  <1>4. /\ inbox' \in [Procs -> Seq(Clients)]
        /\ \A p \in Procs : Len(inbox'[p]) <= MaxQueue
        /\ \A i \in DOMAIN inbox'[s] :
                  \/ i \in DOMAIN inbox[s] /\ inbox'[s][i] = inbox[s][i]
                  \/ i = Len(inbox[s]) + 1 /\ inbox'[s][i] = c
        /\ \A e \in Clients : InBox(e, s) => InBox(e, s)'
        /\ InBox(c, s)'
        /\ \A p \in Procs \ {s} : inbox'[p] = inbox[p]
    BY <1>0, <1>1, <1>2, Appended
  <1>5. TypeOK'
    BY <1>0, <1>1, <1>2, <1>4 DEF TypeOK
  <1>6. Roles'
    BY <1>0, <1>1 DEF Roles, TypeOK, Procs
  <1>7. ASSUME NEW d \in Clients PROVE Asker(d)'
    <2>1. Asker(d) /\ d \in Procs /\ dest[d] \in Servers \union {None}
      BY <1>0 DEF Basic, TypeOK, Procs
    <2>2. CASE d = c
      <3>1. dest'[d] = s /\ took'[s] = took[s] /\ pc'[s] = pc[s]
        BY <1>0, <1>1, <1>2, <2>2 DEF TypeOK
      <3>2. pc[s] = "receive" \/ took[s] # None
        BY <1>2 DEF Basic, Server
      <3>3. InBox(d, dest[d])'
        BY <1>4, <2>2, <3>1 DEF InBox
      <3>4. pc'[d] \in {"receive", "close"} /\ (pc'[d] = "receive" => asking /\ d \in open)
        BY <1>0, <1>1, <2>1, <2>2 DEF Asker, TypeOK
      <3> QED
        BY <1>1, <1>2, <3>1, <3>2, <3>3, <3>4 DEF Asker
    <2>3. CASE d # c
      <3>1. dest'[d] = dest[d] /\ pc'[d] = pc[d]
        BY <1>0, <1>1, <2>1, <2>3 DEF TypeOK
      <3>2. dest[d] # None => /\ pc'[dest[d]] = pc[dest[d]]
                              /\ InBox(d, dest[d]) => InBox(d, dest[d])'
        <4>1. ASSUME dest[d] # None
              PROVE  pc'[dest[d]] = pc[dest[d]] /\ dest[d] \in Procs
          BY <1>0, <1>1, <2>1, <4>1 DEF TypeOK, Procs
        <4>2. ASSUME dest[d] # None, InBox(d, dest[d])
              PROVE  \E i \in DOMAIN inbox'[dest[d]] : inbox'[dest[d]][i] = d
          <5>1. CASE dest[d] = s
            BY <1>4, <4>2, <5>1 DEF InBox
          <5>2. CASE dest[d] # s
            BY <1>4, <4>1, <4>2, <5>2 DEF InBox
          <5> QED
            BY <5>1, <5>2
        <4> QED
          BY <3>1, <4>1, <4>2 DEF InBox
      <3>3. dest[d] # None => (InBox(d, dest[d]) => InBox(d, dest[d])')
        BY <3>2
      <3> QED
        BY <1>1, <2>1, <3>1, <3>2, <3>3 DEF Asker
    <2> QED
      BY <2>2, <2>3
  <1>8. ASSUME NEW t \in Servers PROVE Server(t)'
    <2>1. Server(t) /\ t \in Procs /\ t # c /\ pc'[t] = pc[t]
      BY <1>0, <1>1 DEF Basic, TypeOK, Procs
    <2>2. took[t] # c
      BY <1>0, <1>2, <1>3, <2>1, ProcsAssumption DEF Server, Procs
    <2>3. took[t] # None => dest'[took[t]] = t
      BY <1>0, <1>1, <2>1, <2>2 DEF Server, TypeOK
    <2>4. \A i \in DOMAIN inbox[t] : inbox[t][i] # c /\ dest'[inbox[t][i]] = t
      <3> TAKE i \in DOMAIN inbox[t]
      <3>1. inbox[t] \in Seq(Clients) /\ inbox[t][i] \in Clients /\ dest[inbox[t][i]] = t
        BY <1>0, <2>1 DEF Server, TypeOK
      <3> QED
        BY <1>0, <1>1, <1>3, <3>1, ProcsAssumption DEF TypeOK, Procs
    <2>5. \A i \in DOMAIN inbox'[t] :
              /\ dest'[inbox'[t][i]] = t /\ inbox'[t][i] # took[t]
              /\ \A j \in DOMAIN inbox'[t] : inbox'[t][i] = inbox'[t][j] => i = j
      <3>1. CASE t = s
        <4>1. dest'[c] = s
          BY <1>0, <1>1 DEF TypeOK
        <4> QED
          BY <1>4, <2>1, <2>2, <2>4, <3>1, <4>1 DEF Server
      <3>2. CASE t # s
        BY <1>4, <2>1, <2>4, <3>2 DEF Server
      <3> QED
        BY <3>1, <3>2
    <2> QED
      BY <1>1, <2>1, <2>3, <2>5 DEF Server
  <1>9. dest'[c] = s
    BY <1>0, <1>1 DEF TypeOK
  <1> QED
    BY <1>2, <1>3, <1>5, <1>6, <1>7, <1>8, <1>9 DEF Basic

\* A reply goes to an open socket of a client.
LEMMA RespondBasic ==
    ASSUME Basic, NEW s \in Servers, Respond(s)
    PROVE  /\ Basic'
           /\ Target(s, "client") \in open \intersect Clients
           /\ took[s] \in Clients
  <1>0. /\ TypeOK /\ Roles /\ s \in Procs /\ s \notin Clients /\ s # None /\ Server(s)
    BY ProcsAssumption DEF Basic, Procs
  <1>a. Target(s, "client") \in open \intersect Clients
    BY <1>0, ProcsAssumption DEF Respond, HasRoom, Target, Roles, TypeOK, Procs
  <1>b. PICK q \in Clients : q = Target(s, "client")
    BY <1>a
  <1>1. /\ pc[s] = "reply" /\ HasRoom(q) /\ Deliver(q, took[s])
        /\ pc' = [pc EXCEPT ![s] = "close"]
        /\ UNCHANGED <<asking, node, open, peer, took, got, dest, turns, kills>>
    BY <1>b DEF Respond, GoTo
  <1>2. q \in open /\ q \in Procs /\ q # s /\ took[s] \in Clients
    BY <1>0, <1>1, <1>a, <1>b, ProcsAssumption DEF Server, TypeOK, Procs
  <1>4. /\ inbox' \in [Procs -> Seq(Clients)]
        /\ \A p \in Procs : Len(inbox'[p]) <= MaxQueue
        /\ \A p \in Procs \ {q} : inbox'[p] = inbox[p]
    BY <1>0, <1>1, <1>2, Appended
  <1>5. TypeOK'
    BY <1>0, <1>1, <1>4 DEF TypeOK
  <1>6. Roles'
    BY <1>0, <1>1 DEF Roles, TypeOK, Procs
  <1>7. ASSUME NEW c \in Clients PROVE Asker(c)'
    <2>1. Asker(c) /\ c \in Procs /\ c # s /\ dest[c] \in Servers \union {None}
      BY <1>0 DEF Basic, TypeOK, Procs
    <2>2. dest[c] # None => inbox'[dest[c]] = inbox[dest[c]] /\ dest[c] \in Procs
      BY <1>4, <2>1, ProcsAssumption DEF Procs
    <2> QED
      BY <1>0, <1>1, <1>2, <2>1, <2>2 DEF Asker, TypeOK, InBox
  <1>8. ASSUME NEW t \in Servers PROVE Server(t)'
    <2>1. Server(t) /\ t \in Procs /\ inbox'[t] = inbox[t]
      BY <1>4, ProcsAssumption DEF Basic, Procs
    <2> QED
      BY <1>0, <1>1, <2>1 DEF Server, TypeOK
  <1> QED
    BY <1>2, <1>5, <1>6, <1>7, <1>8, <1>a DEF Basic

\* Blocking in sendto(), or failing there.
LEMMA WaitBasic ==
    ASSUME Basic, NEW p \in Procs, Block(p) \/ SendFails(p)
    PROVE  Basic'
  <1>0. TypeOK /\ Roles /\ p # None
    BY ProcsAssumption DEF Basic, Procs
  <1>1. /\ pc[p] \in {"send", "reply"}
        /\ \/ /\ pc' = pc /\ peer' = [peer EXCEPT ![p] = node[PathTo(p)]]
              /\ node[PathTo(p)] \in open
           \/ /\ pc' = [pc EXCEPT ![p] = "abort"] /\ peer' = peer
        /\ UNCHANGED <<asking, node, open, inbox, took, got, dest, turns, kills>>
    BY DEF Block, SendFails, GoTo
  <1>2. p \in Servers => pc[p] = "reply" /\ node[PathTo(p)] = node["client"]
    BY <1>0, <1>1 DEF Roles, PathTo
  <1>3. p \in Clients => pc[p] = "send" /\ node[PathTo(p)] = node["server"]
    BY <1>0, <1>1 DEF Roles, PathTo
  <1>4. TypeOK' /\ Roles'
    BY <1>0, <1>1, <1>2, <1>3, ProcsAssumption DEF TypeOK, Roles, Procs
  <1>5. ASSUME NEW c \in Clients PROVE Asker(c)'
    <2>1. Asker(c) /\ c \in Procs /\ dest[c] \in Servers \union {None}
      BY <1>0 DEF Basic, TypeOK, Procs
    <2>2. p \in Servers => took[p] # None
      BY <1>2 DEF Basic, Server
    <2> QED
      BY <1>0, <1>1, <1>2, <1>3, <2>1, <2>2, ProcsAssumption
         DEF Asker, TypeOK, InBox, Procs
  <1>6. ASSUME NEW s \in Servers PROVE Server(s)'
    <2>1. Server(s) /\ s \in Procs
      BY DEF Basic, Procs
    <2> QED
      BY <1>0, <1>1, <2>1 DEF Server, TypeOK
  <1> QED
    BY <1>4, <1>5, <1>6 DEF Basic

\* What recvfrom() leaves in a queue.
LEMMA Taken ==
    ASSUME TypeOK, NEW p \in Procs, inbox[p] # <<>>,
           inbox' = [inbox EXCEPT ![p] = Tail(@)]
    PROVE  /\ inbox' \in [Procs -> Seq(Clients)]
           /\ \A q \in Procs : Len(inbox'[q]) <= MaxQueue
           /\ Head(inbox[p]) \in Clients
           /\ 1 \in DOMAIN inbox[p] /\ Head(inbox[p]) = inbox[p][1]
           /\ \A i \in DOMAIN inbox'[p] :
                  i \in Nat \ {0} /\ i + 1 \in DOMAIN inbox[p] /\ inbox'[p][i] = inbox[p][i + 1]
           /\ \A i \in DOMAIN inbox[p] : i = 1 \/ (i - 1 \in DOMAIN inbox'[p]
                                                   /\ inbox'[p][i - 1] = inbox[p][i])
           /\ \A q \in Procs \ {p} : inbox'[q] = inbox[q]
  <1>1. /\ inbox \in [Procs -> Seq(Clients)] /\ inbox[p] \in Seq(Clients)
        /\ Len(inbox[p]) \in Nat /\ Len(inbox[p]) > 0
        /\ Len(inbox[p]) <= MaxQueue /\ MaxQueue \in Nat
    BY LimitAssumption DEF TypeOK
  <1>2. /\ Tail(inbox[p]) \in Seq(Clients)
        /\ Len(Tail(inbox[p])) = Len(inbox[p]) - 1
        /\ Head(inbox[p]) \in Clients /\ Head(inbox[p]) = inbox[p][1]
        /\ \A i \in 1..(Len(inbox[p]) - 1) : Tail(inbox[p])[i] = inbox[p][i + 1]
        /\ DOMAIN inbox[p] = 1..Len(inbox[p])
        /\ DOMAIN Tail(inbox[p]) = 1..(Len(inbox[p]) - 1)
    BY <1>1
  <1>3. /\ inbox'[p] = Tail(inbox[p])
        /\ \A q \in Procs \ {p} : inbox'[q] = inbox[q]
        /\ inbox' \in [Procs -> Seq(Clients)]
    BY <1>1, <1>2
  <1>4. \A q \in Procs : Len(inbox'[q]) <= MaxQueue
    BY <1>1, <1>2, <1>3 DEF TypeOK
  <1>5. \A i \in DOMAIN inbox'[p] :
            i \in Nat \ {0} /\ i + 1 \in DOMAIN inbox[p] /\ inbox'[p][i] = inbox[p][i + 1]
    BY <1>1, <1>2, <1>3
  <1>6. \A i \in DOMAIN inbox[p] : i = 1 \/ (i - 1 \in DOMAIN inbox'[p]
                                             /\ inbox'[p][i - 1] = inbox[p][i])
    <2> TAKE i \in DOMAIN inbox[p]
    <2>1. CASE i # 1
      <3>1. i - 1 \in 1..(Len(inbox[p]) - 1) /\ (i - 1) + 1 = i
        BY <1>1, <1>2, <2>1
      <3> QED
        BY <1>2, <1>3, <3>1
    <2> QED
      BY <2>1
  <1> QED
    BY <1>1, <1>2, <1>3, <1>4, <1>5, <1>6

\* A server takes the first request that waits.
LEMMA ServeBasic ==
    ASSUME Basic, NEW s \in Servers, Receive(s)
    PROVE  Basic'
  <1>0. /\ TypeOK /\ Roles /\ s \in Procs /\ s \notin Clients /\ s # None /\ Server(s)
    BY ProcsAssumption DEF Basic, Procs
  <1>1. /\ pc[s] = "receive" /\ inbox[s] # <<>>
        /\ inbox' = [inbox EXCEPT ![s] = Tail(@)]
        /\ took' = [took EXCEPT ![s] = Head(inbox[s])] /\ got' = got
        /\ pc' = [pc EXCEPT ![s] = IF asking THEN "reply" ELSE "close"]
        /\ UNCHANGED <<asking, node, open, peer, dest, turns, kills>>
    BY DEF Receive, GoTo
  <1>2. /\ inbox' \in [Procs -> Seq(Clients)]
        /\ \A q \in Procs : Len(inbox'[q]) <= MaxQueue
        /\ Head(inbox[s]) \in Clients
        /\ 1 \in DOMAIN inbox[s] /\ Head(inbox[s]) = inbox[s][1]
        /\ \A i \in DOMAIN inbox'[s] :
               i \in Nat \ {0} /\ i + 1 \in DOMAIN inbox[s] /\ inbox'[s][i] = inbox[s][i + 1]
        /\ \A q \in Procs \ {s} : inbox'[q] = inbox[q]
    BY <1>0, <1>1, Taken
  <1>3. took'[s] = Head(inbox[s]) /\ took'[s] # None /\ dest[took'[s]] = s
    BY <1>0, <1>1, <1>2, ProcsAssumption DEF Server, TypeOK, Procs
  <1>4. TypeOK'
    BY <1>0, <1>1, <1>2 DEF TypeOK
  <1>5. Roles'
    BY <1>0, <1>1 DEF Roles, TypeOK, Procs
  <1>6. ASSUME NEW c \in Clients PROVE Asker(c)'
    <2>1. Asker(c) /\ c \in Procs /\ c # s /\ dest[c] \in Servers \union {None}
      BY <1>0 DEF Basic, TypeOK, Procs
    <2>2. CASE dest[c] = s
      BY <1>0, <1>1, <1>3, <2>1, <2>2 DEF Asker, TypeOK
    <2>3. CASE dest[c] # s
      <3>1. dest[c] # None => /\ inbox'[dest[c]] = inbox[dest[c]]
                              /\ pc'[dest[c]] = pc[dest[c]]
                              /\ took'[dest[c]] = took[dest[c]]
        BY <1>0, <1>1, <1>2, <2>1, <2>3 DEF TypeOK, Procs
      <3> QED
        BY <1>0, <1>1, <2>1, <3>1 DEF Asker, TypeOK, InBox
    <2> QED
      BY <2>2, <2>3
  <1>7. ASSUME NEW t \in Servers PROVE Server(t)'
    <2>1. Server(t) /\ t \in Procs
      BY DEF Basic, Procs
    <2>2. CASE t = s
      <3>1. \A i \in DOMAIN inbox'[s] :
                /\ dest[inbox'[s][i]] = s /\ inbox'[s][i] # took'[s]
                /\ \A j \in DOMAIN inbox'[s] : inbox'[s][i] = inbox'[s][j] => i = j
        <4> TAKE i \in DOMAIN inbox'[s]
        <4>1. /\ i \in Nat /\ i + 1 \in DOMAIN inbox[s] /\ inbox'[s][i] = inbox[s][i + 1]
              /\ i + 1 # 1
          BY <1>2
        <4>2. dest[inbox'[s][i]] = s /\ inbox'[s][i] # took'[s]
          <5>1. dest[inbox[s][i + 1]] = s
            BY <1>0, <4>1 DEF Server
          <5>2. inbox[s][i + 1] # inbox[s][1]
            BY <1>0, <1>2, <4>1 DEF Server
          <5> QED
            BY <1>2, <1>3, <4>1, <5>1, <5>2
        <4>3. ASSUME NEW j \in DOMAIN inbox'[s], inbox'[s][i] = inbox'[s][j] PROVE i = j
          <5>1. j \in Nat /\ j + 1 \in DOMAIN inbox[s] /\ inbox'[s][j] = inbox[s][j + 1]
            BY <1>2
          <5>2. i + 1 = j + 1
            BY <1>0, <4>1, <4>3, <5>1 DEF Server
          <5> QED
            BY <4>1, <5>1, <5>2
        <4> QED
          BY <4>2, <4>3
      <3>2. pc'[s] \in {"reply", "close"} /\ (pc'[s] = "reply" => asking) /\ s \in open
        BY <1>0, <1>1 DEF Server, TypeOK
      <3> QED
        BY <1>1, <1>3, <2>2, <3>1, <3>2 DEF Server
    <2>3. CASE t # s
      BY <1>0, <1>1, <1>2, <2>1, <2>3 DEF Server, TypeOK
    <2> QED
      BY <2>2, <2>3
  <1> QED
    BY <1>4, <1>5, <1>6, <1>7 DEF Basic

\* A client takes a reply.
LEMMA AnsweredBasic ==
    ASSUME Basic, NEW c \in Clients, Receive(c)
    PROVE  Basic'
  <1>0. TypeOK /\ Roles /\ c \in Procs /\ c \notin Servers /\ c # None
    BY ProcsAssumption DEF Basic, Procs
  <1>1. /\ pc[c] = "receive" /\ inbox[c] # <<>>
        /\ inbox' = [inbox EXCEPT ![c] = Tail(@)]
        /\ got' = [got EXCEPT ![c] = Head(inbox[c])]
        /\ pc' = [pc EXCEPT ![c] = "close"]
        /\ UNCHANGED <<asking, node, open, peer, took, dest, turns, kills>>
    BY <1>0 DEF Receive, GoTo
  <1>2. /\ inbox' \in [Procs -> Seq(Clients)]
        /\ \A q \in Procs : Len(inbox'[q]) <= MaxQueue
        /\ Head(inbox[c]) \in Clients
        /\ \A q \in Procs \ {c} : inbox'[q] = inbox[q]
    BY <1>0, <1>1, Taken
  <1>3. TypeOK'
    BY <1>0, <1>1, <1>2 DEF TypeOK
  <1>4. Roles'
    BY <1>0, <1>1 DEF Roles, TypeOK, Procs
  <1>5. ASSUME NEW d \in Clients PROVE Asker(d)'
    <2>1. Asker(d) /\ d \in Procs /\ dest[d] \in Servers \union {None}
      BY <1>0 DEF Basic, TypeOK, Procs
    <2>2. dest[d] # None => /\ inbox'[dest[d]] = inbox[dest[d]]
                            /\ pc'[dest[d]] = pc[dest[d]]
      BY <1>0, <1>1, <1>2, <2>1 DEF TypeOK, Procs
    <2> QED
      BY <1>0, <1>1, <2>1, <2>2 DEF Asker, TypeOK, InBox
  <1>6. ASSUME NEW s \in Servers PROVE Server(s)'
    <2>1. Server(s) /\ s \in Procs /\ s # c /\ inbox'[s] = inbox[s]
      BY <1>0, <1>2 DEF Basic, Procs
    <2> QED
      BY <1>0, <1>1, <2>1 DEF Server, TypeOK
  <1> QED
    BY <1>3, <1>4, <1>5, <1>6 DEF Basic

\* The end of a process, by itself or killed.
LEMMA ReleaseBasic ==
    ASSUME Basic, NEW p \in Procs, Close(p) \/ Kill(p)
    PROVE  Basic'
  <1>0. TypeOK /\ Roles /\ p # None
    BY ProcsAssumption DEF Basic, Procs
  <1>1. /\ \/ pc[p] = "close" /\ pc' = [pc EXCEPT ![p] = "done"]
           \/ pc[p] = "abort" /\ pc' = [pc EXCEPT ![p] = "failed"]
           \/ pc' = [pc EXCEPT ![p] = "killed"]
        /\ open' = open \ {p}
        /\ inbox' = [inbox EXCEPT ![p] = <<>>]
        /\ kills' \in 0..MaxKills
        /\ UNCHANGED <<asking, node, peer, took, got, dest, turns>>
    BY <1>0, LimitAssumption DEF Close, Kill, Discard, GoTo, TypeOK
  <1>2. /\ inbox' \in [Procs -> Seq(Clients)]
        /\ inbox'[p] = <<>> /\ \A q \in Procs \ {p} : inbox'[q] = inbox[q]
        /\ \A q \in Procs : Len(inbox'[q]) <= MaxQueue
    <2>1. <<>> \in Seq(Clients) /\ Len(<<>>) = 0 /\ MaxQueue \in Nat
      BY LimitAssumption
    <2>2. inbox \in [Procs -> Seq(Clients)] /\ \A q \in Procs : Len(inbox[q]) <= MaxQueue
      BY <1>0 DEF TypeOK
    <2>3. /\ inbox' \in [Procs -> Seq(Clients)]
          /\ inbox'[p] = <<>> /\ \A q \in Procs \ {p} : inbox'[q] = inbox[q]
      BY <1>1, <2>1, <2>2
    <2> QED
      BY <2>1, <2>2, <2>3
  <1>3. TypeOK'
    BY <1>0, <1>1, <1>2 DEF TypeOK
  <1>4. Roles'
    BY <1>0, <1>1 DEF Roles, TypeOK, Procs
  <1>5. ASSUME NEW c \in Clients PROVE Asker(c)'
    <2>1. Asker(c) /\ c \in Procs /\ dest[c] \in Servers \union {None}
      BY <1>0 DEF Basic, TypeOK, Procs
    <2>2. dest[c] = p => pc'[dest[c]] # "receive" /\
                         (took[dest[c]] = None => pc'[dest[c]] = "killed")
      BY <1>0, <1>1, <2>1 DEF Asker, TypeOK
    <2>3. dest[c] \notin {p, None} => /\ inbox'[dest[c]] = inbox[dest[c]]
                                      /\ pc'[dest[c]] = pc[dest[c]]
      BY <1>0, <1>1, <1>2, <2>1 DEF TypeOK, Procs
    <2> QED
      BY <1>0, <1>1, <2>1, <2>2, <2>3 DEF Asker, TypeOK, InBox
  <1>6. ASSUME NEW s \in Servers PROVE Server(s)'
    <2>1. Server(s) /\ s \in Procs
      BY DEF Basic, Procs
    <2>2. CASE s = p
      BY <1>0, <1>1, <1>2, <2>1, <2>2 DEF Server, TypeOK
    <2>3. CASE s # p
      BY <1>0, <1>1, <1>2, <2>1, <2>3 DEF Server, TypeOK
    <2> QED
      BY <2>2, <2>3
  <1> QED
    BY <1>3, <1>4, <1>5, <1>6 DEF Basic

\* Basic holds at the start.
LEMMA BasicStart == Init => Basic
  <1> SUFFICES ASSUME Init PROVE Basic
    OBVIOUS
  <1>1. TypeOK
    BY LimitAssumption, AskingAssumption DEF Init, TypeOK, Procs
  <1>2. Roles
    BY ProcsAssumption DEF Init, Roles, Paths, Procs
  <1>3. ASSUME NEW c \in Clients PROVE Asker(c)
    BY ProcsAssumption DEF Init, Asker, Procs
  <1>4. ASSUME NEW s \in Servers PROVE Server(s)
    BY ProcsAssumption DEF Init, Server, Procs
  <1> QED
    BY <1>1, <1>2, <1>3, <1>4 DEF Basic

\* Which of the steps of a process are a server's and which a client's.
LEMMA Steps ==
    ASSUME Basic, NEW p \in Procs, Step(p) \/ Kill(p)
    PROVE  \/ Unlink(p) \/ Bind(p) \/ BindFails(p)
           \/ Block(p) \/ SendFails(p)
           \/ p \in Servers /\ (Receive(p) \/ Respond(p))
           \/ p \in Clients /\ (Receive(p) \/ Request(p))
           \/ Close(p) \/ Kill(p)
  BY DEF Step, Procs

\* Every step keeps Basic.
LEMMA BasicStep == Basic /\ [Next]_vars => Basic'
  <1> SUFFICES ASSUME Basic, [Next]_vars PROVE Basic'
    OBVIOUS
  <1>1. CASE UNCHANGED vars
    BY <1>1 DEF vars, Basic, TypeOK, Roles, Asker, Server, InBox
  <1>2. ASSUME NEW p \in Procs, Step(p) \/ Kill(p) PROVE Basic'
    BY <1>2, Steps, BindBasic, WaitBasic, ServeBasic, RespondBasic, AnsweredBasic,
       RequestBasic, ReleaseBasic
  <1> QED
    BY <1>1, <1>2 DEF Next

-------------------------------------------------------------------------------
(***************************************************************************)
(* Returned is inductive together with Basic.                              *)
(***************************************************************************)

\* While the path names the client that asked, the server answers to it.
LEMMA TargetIsAsker ==
    ASSUME Inv, NEW c \in Clients, NEW s \in Servers, node["client"] = c, took[s] = c
    PROVE  Target(s, "client") = c
  <1>1. peer[s] \in {None, c}
    BY DEF Inv, Returned
  <1>2. None \notin open
    BY ProcsAssumption DEF Inv, Basic, TypeOK
  <1> QED
    BY <1>1, <1>2 DEF Target

\* Every step keeps Returned of the client that the path names after it.
LEMMA ReturnedStep ==
    ASSUME Inv, NEW p \in Procs, Step(p) \/ Kill(p), NEW c \in Clients,
           node'["client"] = c
    PROVE  Returned(c)'
  <1>0. /\ TypeOK /\ Roles /\ Asker(c) /\ Returned(c)
        /\ c \in Procs /\ c \notin Servers /\ c # None /\ p # None
        /\ dest[c] \in Servers \union {None}
        /\ \A s \in Servers : s \in Procs /\ s # c /\ Server(s)
        /\ None \notin Procs
    BY ProcsAssumption DEF Inv, Basic, TypeOK, Procs
  <1>1. CASE Unlink(p) \/ Bind(p) \/ BindFails(p)
    <2>1. /\ pc[p] \in {"unlink", "bind"}
          /\ pc' = [pc EXCEPT ![p] = "bind"] \/ pc' = [pc EXCEPT ![p] = "abort"]
             \/ pc' = [pc EXCEPT ![p] = IF p \in Servers THEN "receive" ELSE "send"]
          /\ node' = node \/ node' = [node EXCEPT ![PathOf(p)] = None]
                \/ /\ pc[p] = "bind"
                   /\ pc' = [pc EXCEPT ![p] = IF p \in Servers THEN "receive" ELSE "send"]
                   /\ node' = [node EXCEPT ![PathOf(p)] = p]
          /\ UNCHANGED <<inbox, peer, took, dest>>
      BY <1>1 DEF Unlink, Bind, BindFails, GoTo
    <2>2. node["client"] = c \/ p = c
      BY <1>0, <2>1 DEF TypeOK, PathOf, Paths
    <2>3. CASE p = c
      <3>1. dest[c] = None
        BY <1>0, <2>1, <2>3 DEF Asker
      <3>2. \A s \in Servers : took[s] # c
        BY <1>0, <3>1 DEF Server
      <3>3. pc'[c] # "receive"
        BY <1>0, <2>1, <2>3 DEF TypeOK
      <3> QED
        BY <2>1, <3>2, <3>3 DEF Returned
    <2>4. CASE p # c
      <3>1. pc'[c] = pc[c]
        BY <1>0, <2>1, <2>4 DEF TypeOK
      <3>2. took[dest[c]] = c /\ dest[c] # None => pc'[dest[c]] = pc[dest[c]]
        BY <1>0, <2>1 DEF TypeOK, Server
      <3>3. pc[c] = "receive" => dest[c] # None
        BY <1>0 DEF Asker
      <3> QED
        BY <2>1, <2>2, <2>4, <3>1, <3>2, <3>3, <1>0 DEF Returned
    <2> QED
      BY <2>3, <2>4
  <1>2. CASE p \in Clients /\ Request(p)
    <2>1. PICK t \in Servers : HasRoom(t) /\ Deliver(t, p) /\ dest' = [dest EXCEPT ![p] = t]
      BY <1>2, RequestBasic, <1>0 DEF Inv, Request, Basic, TypeOK
    <2>2. /\ dest[p] = None
          /\ pc[p] = "send"
          /\ pc' = [pc EXCEPT ![p] = IF asking THEN "receive" ELSE "close"]
          /\ UNCHANGED <<node, peer, took>>
      BY <1>2, RequestBasic DEF Inv, Request, GoTo
    <2>3. inbox'[c] = inbox[c]
      BY <1>0, <2>1, Appended, <1>2
    <2>4. CASE p = c
      <3>1. \A s \in Servers : took[s] # c
        BY <1>0, <2>2, <2>4 DEF Server
      <3>2. dest'[c] = t
        BY <1>0, <2>1, <2>4 DEF TypeOK
      <3> QED
        BY <2>2, <3>1, <3>2 DEF Returned
    <2>5. CASE p # c
      <3>1. /\ pc'[c] = pc[c] /\ dest'[c] = dest[c]
            /\ dest[c] # None => pc'[dest[c]] = pc[dest[c]]
        BY <1>0, <2>1, <2>2, <2>5, <1>2, ProcsAssumption DEF TypeOK
      <3>2. pc[c] = "receive" => dest[c] # None
        BY <1>0 DEF Asker
      <3> QED
        BY <1>0, <2>2, <2>3, <3>1, <3>2 DEF Returned
    <2> QED
      BY <2>4, <2>5
  <1>3. CASE p \in Servers /\ Respond(p)
    <2>1. PICK q \in Clients : q = Target(p, "client")
      BY <1>3, RespondBasic DEF Inv
    <2>2. /\ HasRoom(q) /\ Deliver(q, took[p]) /\ took[p] \in Clients
          /\ pc' = [pc EXCEPT ![p] = "close"]
          /\ UNCHANGED <<node, peer, took, dest>>
      BY <1>3, <2>1, RespondBasic DEF Inv, Respond, GoTo
    <2>3. inbox'[q] # <<>> /\ \A r \in Procs \ {q} : inbox'[r] = inbox[r]
      BY <1>0, <2>2, Appended DEF Procs
    <2>4. took[p] = c => q = c
      BY <1>3, <2>1, <2>2, TargetIsAsker
    <2>5. inbox[c] # <<>> => inbox'[c] # <<>>
      BY <1>0, <2>3
    <2>6. dest[c] \notin {p, None} => pc'[dest[c]] = pc[dest[c]]
      BY <1>0, <2>2 DEF TypeOK
    <2>7. pc'[c] = pc[c] /\ (pc[c] = "receive" => dest[c] # None)
      BY <1>0, <1>3, <2>2 DEF TypeOK, Asker
    <2> QED
      BY <1>0, <2>2, <2>3, <2>4, <2>5, <2>6, <2>7 DEF Returned
  <1>4. CASE Block(p)
    <2>1. /\ pc[p] \in {"send", "reply"} /\ peer' = [peer EXCEPT ![p] = node[PathTo(p)]]
          /\ UNCHANGED <<pc, node, inbox, took, dest>>
      BY <1>4 DEF Block
    <2>2. p \in Servers => peer' = [peer EXCEPT ![p] = c]
      BY <1>0, <2>1 DEF Roles, PathTo
    <2>3. ASSUME NEW s \in Servers, took'[s] = c PROVE peer'[s] \in {None, c}
      BY <1>0, <2>1, <2>2, <2>3 DEF Returned, TypeOK
    <2> QED
      BY <1>0, <2>1, <2>3 DEF Returned
  <1>5. CASE SendFails(p)
    <2>1. /\ pc[p] \in {"send", "reply"} /\ Target(p, PathTo(p)) \notin open
          /\ pc' = [pc EXCEPT ![p] = "abort"]
          /\ UNCHANGED <<node, inbox, peer, took, dest>>
      BY <1>5 DEF SendFails, GoTo
    <2>2. p \in Servers /\ took[p] = c => pc[c] # "receive"
      <3> SUFFICES ASSUME p \in Servers, took[p] = c PROVE pc[c] # "receive"
        OBVIOUS
      <3>1. PathTo(p) = "client"
        BY <1>0, <2>1 DEF Roles, PathTo
      <3>2. c \notin open
        BY <2>1, <3>1, TargetIsAsker
      <3> QED
        BY <1>0, <3>2 DEF Asker
    <2>3. dest[c] \notin {p, None} => pc'[dest[c]] = pc[dest[c]]
      BY <1>0, <2>1 DEF TypeOK
    <2>4. pc'[c] = "receive" => pc[c] = "receive" /\ dest[c] # None
      BY <1>0, <2>1 DEF TypeOK, Asker
    <2> QED
      BY <1>0, <2>1, <2>2, <2>3, <2>4 DEF Returned
  <1>6. CASE p \in Servers /\ Receive(p)
    <2>1. /\ pc[p] = "receive" /\ inbox[p] # <<>>
          /\ inbox' = [inbox EXCEPT ![p] = Tail(@)]
          /\ took' = [took EXCEPT ![p] = Head(inbox[p])]
          /\ pc' = [pc EXCEPT ![p] = IF asking THEN "reply" ELSE "close"]
          /\ UNCHANGED <<node, peer, dest>>
      BY <1>6 DEF Receive, GoTo
    <2>2. peer[p] = None
      BY <1>0, <1>6, <2>1 DEF Server
    <2>3. inbox'[c] = inbox[c] /\ pc'[c] = pc[c]
      BY <1>0, <1>6, <2>1 DEF TypeOK
    <2>4. pc[c] = "receive" => asking /\ dest[c] # None
      BY <1>0 DEF Asker
    <2>5. dest[c] \notin {p, None} => took'[dest[c]] = took[dest[c]]
                                      /\ pc'[dest[c]] = pc[dest[c]]
      BY <1>0, <2>1 DEF TypeOK
    <2>6. asking => pc'[p] = "reply"
      BY <2>1, <1>0 DEF TypeOK
    <2>7. ASSUME NEW s \in Servers, took'[s] = c PROVE peer'[s] \in {None, c}
      BY <1>0, <2>1, <2>2, <2>7 DEF Returned, TypeOK
    <2> QED
      BY <1>0, <2>1, <2>3, <2>4, <2>5, <2>6, <2>7 DEF Returned
  <1>7. CASE p \in Clients /\ Receive(p)
    <2>1. /\ inbox' = [inbox EXCEPT ![p] = Tail(@)]
          /\ pc' = [pc EXCEPT ![p] = "close"]
          /\ UNCHANGED <<node, peer, took, dest>>
      BY <1>0, <1>7, ProcsAssumption DEF Receive, GoTo
    <2>2. p # c => inbox'[c] = inbox[c] /\ pc'[c] = pc[c]
      BY <1>0, <2>1 DEF TypeOK
    <2>3. p = c => pc'[c] # "receive"
      BY <1>0, <2>1 DEF TypeOK
    <2>4. dest[c] # None => pc'[dest[c]] = pc[dest[c]]
      BY <1>0, <1>7, <2>1, ProcsAssumption DEF TypeOK
    <2>5. pc[c] = "receive" => dest[c] # None
      BY <1>0 DEF Asker
    <2> QED
      BY <1>0, <2>1, <2>2, <2>3, <2>4, <2>5 DEF Returned
  <1>8. CASE Close(p) \/ Kill(p)
    <2>1. /\ \/ pc[p] = "close" /\ pc' = [pc EXCEPT ![p] = "done"]
             \/ pc[p] = "abort" /\ pc' = [pc EXCEPT ![p] = "failed"]
             \/ pc' = [pc EXCEPT ![p] = "killed"]
          /\ inbox' = [inbox EXCEPT ![p] = <<>>]
          /\ UNCHANGED <<node, peer, took, dest>>
      BY <1>8 DEF Close, Kill, Discard, GoTo
    <2>2. p = c => pc'[c] # "receive"
      BY <1>0, <2>1 DEF TypeOK
    <2>3. p # c => inbox'[c] = inbox[c] /\ pc'[c] = pc[c]
      BY <1>0, <2>1 DEF TypeOK
    <2>4. dest[c] # None => pc'[dest[c]] \in {"reply", "killed"}
                            \/ pc[dest[c]] \notin {"reply", "killed"}
      BY <1>0, <2>1 DEF TypeOK
    <2>5. pc[c] = "receive" => dest[c] # None
      BY <1>0 DEF Asker
    <2> QED
      BY <1>0, <2>1, <2>2, <2>3, <2>4, <2>5 DEF Returned
  <1> QED
    BY <1>1, <1>2, <1>3, <1>4, <1>5, <1>6, <1>7, <1>8, Steps DEF Inv

\* The invariant holds at the start.
LEMMA InvStart == Init => Inv
  <1>1. ASSUME Init, NEW c \in Clients PROVE Returned(c)
    BY <1>1, ProcsAssumption DEF Init, Returned, Paths, Procs
  <1> QED
    BY <1>1, BasicStart DEF Inv

\* Every step keeps the invariant.
LEMMA InvStep == Inv /\ [Next]_vars => Inv'
  <1> SUFFICES ASSUME Inv, [Next]_vars PROVE Inv'
    OBVIOUS
  <1>1. Basic'
    BY BasicStep DEF Inv
  <1>2. ASSUME NEW c \in Clients PROVE Returned(c)'
    <2>1. CASE UNCHANGED vars
      BY <2>1 DEF vars, Inv, Returned
    <2>2. CASE node'["client"] # c
      BY <2>2 DEF Returned
    <2> QED
      BY <2>1, <2>2, ReturnedStep DEF Next
  <1> QED
    BY <1>1, <1>2 DEF Inv

\* The invariant holds in every state.
LEMMA Invariance == Spec => []Inv
  <1> QED
    BY InvStart, InvStep, PTL DEF Spec

\* The variables of the datagram programs keep their types, and a queue never
\* holds more datagrams than fit into it.
THEOREM TypeCorrect == Spec => []TypeOK
  <1>1. Inv => TypeOK
    BY DEF Inv, Basic
  <1> QED
    BY <1>1, Invariance, PTL

\* Whatever the servers and clients do and whoever is killed, a client waits in
\* vain only when its path was taken, or when the server it asked answered
\* another client or was killed.
THEOREM RivalToBlame == Spec => []AbandonedByRival
  <1>1. Inv => AbandonedByRival
    <2> SUFFICES ASSUME Inv, NEW c \in Clients, Abandoned(c), node["client"] = c,
                        took[dest[c]] \in {None, c}
                 PROVE  pc[dest[c]] = "killed"
      BY DEF AbandonedByRival
    <2>1. Asker(c) /\ Returned(c) /\ pc[c] = "receive"
      BY DEF Inv, Basic, Abandoned
    <2>2. CASE took[dest[c]] = None
      BY <2>1, <2>2 DEF Asker, Abandoned
    <2>3. CASE took[dest[c]] = c
      BY <2>1, <2>3 DEF Returned, Abandoned, Held
    <2> QED
      BY <2>2, <2>3
  <1> QED
    BY <1>1, Invariance, PTL

-------------------------------------------------------------------------------
(***************************************************************************)
(* Turns is inductive together with Inv.                                   *)
(***************************************************************************)

\* Binding the path puts a client after all those that had it before.
LEMMA Later ==
    ASSUME TypeOK, NEW p \in Clients, turns' = Append(turns, p)
    PROVE  /\ turns' # <<>> /\ turns'[Len(turns')] = p
           /\ Turn(p)'
           /\ \A c \in Clients : Turn(c) => Turn(c)'
           /\ \A c, d \in Clients : Precedes(c, d) => Precedes(c, d)'
  <1>1. /\ turns \in Seq(Clients) /\ Len(turns) \in Nat
        /\ DOMAIN turns = 1..Len(turns) /\ DOMAIN turns' = 1..(Len(turns) + 1)
        /\ Len(turns') = Len(turns) + 1
        /\ \A i \in 1..Len(turns) : turns'[i] = turns[i]
        /\ turns'[Len(turns) + 1] = p
    BY DEF TypeOK
  <1>2. Len(turns) + 1 \in DOMAIN turns' /\ turns' # <<>>
    BY <1>1
  <1>3. \A i \in DOMAIN turns : i \in DOMAIN turns' /\ turns'[i] = turns[i]
    BY <1>1
  <1>4. Turn(p)'
    BY <1>1, <1>2 DEF Turn
  <1>5. ASSUME NEW c \in Clients, Turn(c) PROVE Turn(c)'
    BY <1>3, <1>5 DEF Turn
  <1>6. ASSUME NEW c \in Clients, NEW d \in Clients, Precedes(c, d) PROVE Precedes(c, d)'
    BY <1>3, <1>6 DEF Precedes
  <1> QED
    BY <1>1, <1>2, <1>4, <1>5, <1>6

\* The client that has the path now had it after every client that asked.
LEMMA Latest ==
    ASSUME TypeOK, Turns, NEW c \in Clients, Turn(c), node["client"] # None
    PROVE  Precedes(c, node["client"])
  <1>1. /\ turns \in Seq(Clients) /\ turns # <<>> /\ turns[Len(turns)] = node["client"]
        /\ Len(turns) \in Nat /\ DOMAIN turns = 1..Len(turns)
    BY DEF TypeOK, Turns
  <1>2. PICK i \in DOMAIN turns : turns[i] = c
    BY DEF Turn
  <1>3. CASE i = Len(turns)
    BY <1>1, <1>2, <1>3 DEF Precedes
  <1>4. CASE i # Len(turns)
    <2>1. i < Len(turns) /\ Len(turns) \in DOMAIN turns
      BY <1>1, <1>2, <1>4
    <2> QED
      BY <1>1, <1>2, <2>1 DEF Precedes
  <1> QED
    BY <1>3, <1>4

\* Nobody had a turn at the start.
LEMMA TurnsStart == Init => Turns
  BY ProcsAssumption DEF Init, Turns, Paths, Procs

\* Every step keeps Turns.
LEMMA TurnsStep == Inv /\ Turns /\ [Next]_vars => Turns'
  <1> SUFFICES ASSUME Inv, Turns, [Next]_vars PROVE Turns'
    OBVIOUS
  <1>0. /\ Basic /\ TypeOK /\ Roles /\ None \notin Procs
        /\ \A c \in Clients : c \in Procs /\ Asker(c) /\ c \notin Servers
        /\ \A s \in Servers : s \in Procs /\ Server(s) /\ s \notin Clients
    BY ProcsAssumption DEF Inv, Basic, Procs
  <1>1. CASE UNCHANGED vars
    BY <1>1 DEF vars, Turns, Turn, Precedes
  <1>2. ASSUME turns' = turns
        PROVE  /\ \A c \in Clients : Turn(c) => Turn(c)'
               /\ \A c, d \in Clients : Precedes(c, d) => Precedes(c, d)'
    BY <1>2 DEF Turn, Precedes
  <1>3. ASSUME NEW p \in Procs, Unlink(p) \/ BindFails(p) PROVE Turns'
    <2>1. /\ node' = node \/ node' = [node EXCEPT ![PathOf(p)] = None]
          /\ UNCHANGED <<asking, open, inbox, peer, took, got, dest, turns>>
      BY <1>3 DEF Unlink, BindFails, GoTo
    <2>2. node'["client"] \in {node["client"], None}
      BY <1>0, <2>1 DEF TypeOK, Paths, PathOf
    <2> QED
      BY <1>0, <2>1, <2>2 DEF Turns, Turn, Precedes
  <1>4. ASSUME NEW p \in Servers, Bind(p) PROVE Turns'
    <2>1. /\ node' = [node EXCEPT !["server"] = p] /\ open' = open \union {p}
          /\ UNCHANGED <<asking, inbox, peer, took, got, dest, turns>>
      BY <1>0, <1>4 DEF Bind, GoTo, PathOf
    <2>2. node'["client"] = node["client"]
      BY <1>0, <2>1 DEF TypeOK
    <2>3. \A c \in Clients : c \in open' => c \in open
      BY <1>0, <2>1
    <2> QED
      BY <1>0, <2>1, <2>2, <2>3 DEF Turns, Turn, Precedes
  <1>5. ASSUME NEW p \in Clients, Bind(p) PROVE Turns'
    <2>1. /\ node' = [node EXCEPT !["client"] = p] /\ open' = open \union {p}
          /\ turns' = Append(turns, p)
          /\ UNCHANGED <<asking, inbox, peer, took, got, dest>>
      BY <1>0, <1>5 DEF Bind, GoTo, PathOf
    <2>2. node'["client"] = p
      BY <1>0, <2>1 DEF TypeOK, Paths
    <2>3. /\ turns' # <<>> /\ turns'[Len(turns')] = p
          /\ Turn(p)'
          /\ \A c \in Clients : Turn(c) => Turn(c)'
          /\ \A c, d \in Clients : Precedes(c, d) => Precedes(c, d)'
      BY <1>0, <2>1, Later
    <2>4. asking' => \A c \in Clients : c \in open' \/ dest'[c] # None => Turn(c)'
      BY <2>1, <2>3 DEF Turns
    <2>5. \A s \in Servers : peer'[s] # None => took'[s] # None /\ Precedes(took[s], peer[s])'
      BY <1>0, <2>1, <2>3 DEF Turns, Roles, TypeOK
    <2>6. \A c \in Clients : \A i \in DOMAIN inbox'[c] : Precedes(inbox[c][i], c)'
      <3> TAKE c \in Clients
      <3>1. inbox[c] \in Seq(Clients)
        BY <1>0 DEF TypeOK
      <3>2. \A i \in DOMAIN inbox[c] : inbox[c][i] \in Clients
        BY <3>1
      <3> QED
        BY <2>1, <2>3, <3>2 DEF Turns
    <2>7. \A c \in Clients : got'[c] # None => Precedes(got[c], c)'
      BY <1>0, <2>1, <2>3 DEF Turns, TypeOK
    <2> QED
      BY <2>2, <2>3, <2>4, <2>5, <2>6, <2>7 DEF Turns
  <1>6. ASSUME NEW c \in Clients, Request(c) PROVE Turns'
    <2>1. PICK s \in Servers : s \in open /\ HasRoom(s) /\ Deliver(s, c)
                               /\ dest' = [dest EXCEPT ![c] = s]
      BY <1>0, <1>6, RequestBasic DEF Request, TypeOK
    <2>2. pc[c] = "send" /\ UNCHANGED <<asking, node, open, peer, took, got, turns>>
      BY <1>6 DEF Request, GoTo
    <2>3. \A d \in Clients : inbox'[d] = inbox[d]
      BY <1>0, <2>1, Appended
    <2>4. asking => Turn(c)
      BY <1>0, <2>2 DEF Asker, Turns
    <2>5. \A d \in Clients : d # c => dest'[d] = dest[d]
      BY <1>0, <2>1 DEF TypeOK
    <2>6. asking' => \A d \in Clients : d \in open' \/ dest'[d] # None => Turn(d)'
      BY <2>2, <2>4, <2>5 DEF Turns, Turn
    <2> QED
      BY <2>2, <2>3, <2>6 DEF Turns, Turn, Precedes
  <1>7. ASSUME NEW s \in Servers, Respond(s) PROVE Turns'
    <2>1. PICK q \in Clients : q = Target(s, "client")
      BY <1>0, <1>7, RespondBasic
    <2>2. /\ HasRoom(q) /\ Deliver(q, took[s]) /\ took[s] \in Clients /\ pc[s] = "reply"
          /\ UNCHANGED <<asking, node, open, peer, took, got, dest, turns>>
      BY <1>0, <1>7, <2>1, RespondBasic DEF Respond, GoTo
    <2>3. Precedes(took[s], q)
      <3>1. asking /\ dest[took[s]] = s /\ s # None
        BY <1>0, <2>2 DEF Server
      <3>2. Turn(took[s])
        BY <2>2, <3>1 DEF Turns
      <3>3. CASE peer[s] \in open
        BY <1>0, <2>1, <3>3 DEF Target, Turns, TypeOK
      <3>4. CASE peer[s] \notin open
        BY <1>0, <2>1, <2>2, <3>2, <3>4, Latest DEF Target
      <3> QED
        BY <3>3, <3>4
    <2>4. /\ \A i \in DOMAIN inbox'[q] :
                 \/ i \in DOMAIN inbox[q] /\ inbox'[q][i] = inbox[q][i]
                 \/ inbox'[q][i] = took[s]
          /\ \A p \in Procs \ {q} : inbox'[p] = inbox[p]
      BY <1>0, <2>2, Appended
    <2>5. \A c \in Clients : \A i \in DOMAIN inbox'[c] : Precedes(inbox'[c][i], c)
      <3> TAKE c \in Clients
      <3>1. CASE c = q
        BY <2>3, <2>4, <3>1 DEF Turns
      <3>2. CASE c # q
        BY <1>0, <2>4, <3>2 DEF Turns
      <3> QED
        BY <3>1, <3>2
    <2> QED
      BY <2>2, <2>5 DEF Turns, Turn, Precedes
  <1>8. ASSUME NEW p \in Procs, Block(p) \/ SendFails(p) PROVE Turns'
    <2>1. /\ pc[p] \in {"send", "reply"}
          /\ \/ /\ peer' = [peer EXCEPT ![p] = node[PathTo(p)]]
                /\ node[PathTo(p)] \in open
             \/ peer' = peer
          /\ UNCHANGED <<asking, node, open, inbox, took, got, dest, turns>>
      BY <1>8 DEF Block, SendFails, GoTo
    <2>2. ASSUME NEW s \in Servers, peer'[s] # None
          PROVE  took[s] # None /\ Precedes(took[s], peer'[s])
      <3>1. CASE peer'[s] = peer[s]
        BY <2>2, <3>1 DEF Turns
      <3>2. CASE peer'[s] # peer[s]
        <4>1. p = s /\ pc[s] = "reply"
          BY <1>0, <2>1, <3>2 DEF TypeOK, Roles
        <4>2. peer'[s] = node["client"] /\ node["client"] # None
          BY <1>0, <2>1, <2>2, <3>2, <4>1 DEF TypeOK, PathTo
        <4>3. asking /\ took[s] \in Clients /\ dest[took[s]] = s /\ s # None
          BY <1>0, <4>1 DEF Server, TypeOK
        <4>4. Turn(took[s])
          BY <4>3 DEF Turns
        <4> QED
          BY <1>0, <4>2, <4>3, <4>4, Latest
      <3> QED
        BY <3>1, <3>2
    <2> QED
      BY <2>1, <2>2 DEF Turns, Turn, Precedes
  <1>9. ASSUME NEW s \in Servers, Receive(s) PROVE Turns'
    <2>1. /\ pc[s] = "receive"
          /\ inbox' = [inbox EXCEPT ![s] = Tail(@)]
          /\ took' = [took EXCEPT ![s] = Head(inbox[s])]
          /\ UNCHANGED <<asking, node, open, peer, got, dest, turns>>
      BY <1>9 DEF Receive, GoTo
    <2>2. peer[s] = None
      BY <1>0, <2>1 DEF Server
    <2>3. \A t \in Servers : t # s => took'[t] = took[t]
      BY <1>0, <2>1 DEF TypeOK
    <2>4. \A c \in Clients : inbox'[c] = inbox[c]
      BY <1>0, <2>1 DEF TypeOK
    <2> QED
      BY <2>1, <2>2, <2>3, <2>4 DEF Turns, Turn, Precedes
  <1>10. ASSUME NEW c \in Clients, Receive(c) PROVE Turns'
    <2>1. /\ inbox[c] # <<>>
          /\ inbox' = [inbox EXCEPT ![c] = Tail(@)]
          /\ got' = [got EXCEPT ![c] = Head(inbox[c])]
          /\ UNCHANGED <<asking, node, open, peer, took, dest, turns>>
      BY <1>0, <1>10 DEF Receive, GoTo
    <2>2. /\ 1 \in DOMAIN inbox[c] /\ Head(inbox[c]) = inbox[c][1]
          /\ \A i \in DOMAIN inbox'[c] :
                 i \in Nat \ {0} /\ i + 1 \in DOMAIN inbox[c] /\ inbox'[c][i] = inbox[c][i + 1]
          /\ \A q \in Procs \ {c} : inbox'[q] = inbox[q]
      BY <1>0, <2>1, Taken
    <2>3. \A d \in Clients : \A i \in DOMAIN inbox'[d] : Precedes(inbox'[d][i], d)
      <3> TAKE d \in Clients
      <3>1. CASE d = c
        BY <2>2, <3>1 DEF Turns
      <3>2. CASE d # c
        BY <1>0, <2>2, <3>2 DEF Turns
      <3> QED
        BY <3>1, <3>2
    <2>4. \A d \in Clients : got'[d] # None => Precedes(got'[d], d)
      <3>1. Precedes(Head(inbox[c]), c)
        BY <2>2 DEF Turns
      <3> QED
        BY <1>0, <2>1, <3>1 DEF Turns, TypeOK
    <2> QED
      BY <2>1, <2>3, <2>4 DEF Turns, Turn, Precedes
  <1>11. ASSUME NEW p \in Procs, Close(p) \/ Kill(p) PROVE Turns'
    <2>1. /\ open' = open \ {p}
          /\ inbox' = [inbox EXCEPT ![p] = <<>>]
          /\ UNCHANGED <<asking, node, peer, took, got, dest, turns>>
      BY <1>11 DEF Close, Kill, Discard, GoTo
    <2>2. \A c \in Clients : \A i \in DOMAIN inbox'[c] : i \in DOMAIN inbox[c]
                                                         /\ inbox'[c] = inbox[c]
      <3> TAKE c \in Clients
      <3>1. CASE c = p
        <4>1. inbox'[c] = <<>>
          BY <1>0, <2>1, <3>1 DEF TypeOK
        <4> QED
          BY <4>1
      <3>2. CASE c # p
        BY <1>0, <2>1, <3>2 DEF TypeOK
      <3> QED
        BY <3>1, <3>2
    <2> QED
      BY <2>1, <2>2 DEF Turns, Turn, Precedes
  <1> QED
    BY <1>0, <1>1, <1>3, <1>4, <1>5, <1>6, <1>7, <1>8, <1>9, <1>10, <1>11, Steps
       DEF Next, Procs

\* A reply that does not reach the client that asked reaches one that bound the
\* path after it, for any number of servers and clients.
THEOREM NeverToEarlier == Spec => []StrayOnlyToNewer
  <1>1. Inv /\ Turns => StrayOnlyToNewer
    <2> SUFFICES ASSUME Turns, NEW c \in Clients, got[c] \notin {None, c}
                 PROVE  \E i, j \in DOMAIN turns : i < j /\ turns[i] = got[c] /\ turns[j] = c
      BY DEF StrayOnlyToNewer
    <2> QED
      BY DEF Turns, Precedes
  <1>2. Init => Inv /\ Turns
    BY InvStart, TurnsStart
  <1>3. Inv /\ Turns /\ [Next]_vars => (Inv /\ Turns)'
    BY InvStep, TurnsStep
  <1> QED
    BY <1>1, <1>2, <1>3, PTL DEF Spec

-------------------------------------------------------------------------------
(***************************************************************************)
(* The servers' queues are one mailbox.                                    *)
(***************************************************************************)
Content(s) == {inbox[s][i] : i \in DOMAIN inbox[s]}

\* A request waits only at the server it was sent to.
LEMMA StepMaps == Basic /\ [Next]_vars => [Box!Next]_<<Requests, took>>
  <1> SUFFICES ASSUME Basic, [Next]_vars PROVE [Box!Next]_<<Requests, took>>
    OBVIOUS
  <1>0. /\ TypeOK /\ Roles /\ None \notin Procs
        /\ \A c \in Clients : c \in Procs /\ c \notin Servers /\ Asker(c)
        /\ \A s \in Servers : s \in Procs /\ s \notin Clients /\ Server(s)
    BY ProcsAssumption DEF Basic, Procs
  <1>a. /\ Requests = UNION {Content(s) : s \in Servers}
        /\ Requests' = UNION {Content(s)' : s \in Servers}
    BY DEF Requests, Content
  <1>1. ASSUME took' = took, \A s \in Servers : inbox'[s] = inbox[s]
        PROVE  UNCHANGED <<Requests, took>>
    BY <1>1 DEF Requests
  <1>2. CASE UNCHANGED vars
    BY <1>1, <1>2 DEF vars
  <1>3. ASSUME NEW p \in Procs, Unlink(p) \/ Bind(p) \/ BindFails(p) \/ Block(p) \/ SendFails(p)
        PROVE  UNCHANGED <<Requests, took>>
    BY <1>1, <1>3 DEF Unlink, Bind, BindFails, Block, SendFails
  <1>4. ASSUME NEW c \in Clients, Request(c) PROVE Box!Put(c)
    <2>1. PICK s \in Servers : s \in open /\ HasRoom(s) /\ Deliver(s, c)
      BY <1>0, <1>4, RequestBasic DEF Request, TypeOK
    <2>2. took' = took /\ dest[c] = None
      BY <1>4, RequestBasic DEF Request
    <2>3. c \notin Requests /\ \A t \in Servers : took[t] # c
      BY <1>0, <2>2 DEF Server, Requests
    <2>4. /\ \A i \in DOMAIN inbox'[s] :
                 \/ i \in DOMAIN inbox[s] /\ inbox'[s][i] = inbox[s][i]
                 \/ inbox'[s][i] = c
          /\ \A d \in Clients : InBox(d, s) => InBox(d, s)'
          /\ InBox(c, s)'
          /\ \A q \in Procs \ {s} : inbox'[q] = inbox[q]
      BY <1>0, <2>1, Appended
    <2>5. \A i \in DOMAIN inbox[s] : inbox[s][i] \in Clients
      <3>1. inbox[s] \in Seq(Clients)
        BY <1>0 DEF TypeOK
      <3> QED
        BY <3>1
    <2>6. Content(s)' = Content(s) \union {c}
      BY <2>4, <2>5 DEF Content, InBox
    <2>7. \A t \in Servers \ {s} : Content(t)' = Content(t)
      BY <1>0, <2>4 DEF Content
    <2>8. Requests' = Requests \union {c}
      BY <1>a, <2>6, <2>7
    <2> QED
      BY <2>2, <2>3, <2>8 DEF Box!Put
  <1>5. ASSUME NEW s \in Servers, Receive(s) PROVE \E c \in Clients : Box!Take(s, c)
    <2> DEFINE c == Head(inbox[s])
    <2>1. /\ pc[s] = "receive" /\ inbox[s] # <<>>
          /\ inbox' = [inbox EXCEPT ![s] = Tail(@)]
          /\ took' = [took EXCEPT ![s] = c]
      BY <1>5 DEF Receive
    <2>2. /\ c \in Clients /\ 1 \in DOMAIN inbox[s] /\ c = inbox[s][1]
          /\ \A i \in DOMAIN inbox'[s] :
                 i \in Nat \ {0} /\ i + 1 \in DOMAIN inbox[s] /\ inbox'[s][i] = inbox[s][i + 1]
          /\ \A i \in DOMAIN inbox[s] : i = 1 \/ (i - 1 \in DOMAIN inbox'[s]
                                                  /\ inbox'[s][i - 1] = inbox[s][i])
          /\ \A q \in Procs \ {s} : inbox'[q] = inbox[q]
      BY <1>0, <2>1, Taken
    <2>3. took[s] = None
      BY <1>0, <2>1 DEF Server
    <2>4. \A i \in DOMAIN inbox[s] : inbox[s][i] = c => i = 1
      BY <1>0, <2>2 DEF Server
    <2>5. \A i \in DOMAIN inbox'[s] : inbox'[s][i] # c
      BY <2>2, <2>4
    <2> HIDE DEF c
    <2>6. Content(s)' = Content(s) \ {c}
      <3>1. ASSUME NEW d \in Content(s)' PROVE d \in Content(s) /\ d # c
        BY <2>2, <2>5, <3>1 DEF Content
      <3>2. ASSUME NEW d \in Content(s), d # c PROVE d \in Content(s)'
        <4>1. PICK i \in DOMAIN inbox[s] : d = inbox[s][i]
          BY <3>2 DEF Content
        <4>2. i - 1 \in DOMAIN inbox'[s] /\ inbox'[s][i - 1] = d
          BY <2>2, <3>2, <4>1
        <4> QED
          BY <4>2 DEF Content
      <3> QED
        BY <3>1, <3>2
    <2>7. \A t \in Servers \ {s} : Content(t)' = Content(t) /\ c \notin Content(t)
      <3> TAKE t \in Servers \ {s}
      <3>1. dest[c] = s
        BY <1>0, <2>2 DEF Server
      <3>2. \A i \in DOMAIN inbox[t] : dest[inbox[t][i]] = t
        BY <1>0 DEF Server
      <3> QED
        BY <1>0, <2>2, <3>1, <3>2 DEF Content
    <2>8. Requests' = Requests \ {c} /\ c \in Requests
      <3>1. c \in Content(s)
        BY <2>2 DEF Content
      <3> QED
        BY <1>a, <2>6, <2>7, <3>1
    <2> QED
      BY <2>1, <2>2, <2>3, <2>8 DEF Box!Take
  <1>6. ASSUME NEW s \in Servers, Respond(s) PROVE UNCHANGED <<Requests, took>>
    <2>1. PICK q \in Clients : q = Target(s, "client")
      BY <1>0, <1>6, RespondBasic
    <2>2. /\ HasRoom(q) /\ Deliver(q, took[s]) /\ took[s] \in Clients /\ took' = took
      BY <1>0, <1>6, <2>1, RespondBasic DEF Respond
    <2>3. \A p \in Procs \ {q} : inbox'[p] = inbox[p]
      BY <1>0, <2>2, Appended
    <2> QED
      BY <1>0, <1>1, <2>2, <2>3
  <1>7. ASSUME NEW c \in Clients, Receive(c) PROVE UNCHANGED <<Requests, took>>
    <2>1. inbox' = [inbox EXCEPT ![c] = Tail(@)] /\ took' = took
      BY <1>0, <1>7 DEF Receive
    <2> QED
      BY <1>0, <1>1, <2>1 DEF TypeOK
  <1>8. ASSUME NEW p \in Procs, Close(p) \/ Kill(p) PROVE Box!Drop
    <2>1. inbox' = [inbox EXCEPT ![p] = <<>>] /\ took' = took
      BY <1>8 DEF Close, Kill, Discard
    <2>2. \A s \in Servers : Content(s)' \subseteq Content(s)
      <3> TAKE s \in Servers
      <3>1. inbox'[s] = <<>> \/ inbox'[s] = inbox[s]
        BY <1>0, <2>1 DEF TypeOK
      <3>2. DOMAIN <<>> = {}
        OBVIOUS
      <3> QED
        BY <3>1, <3>2 DEF Content
    <2>3. Requests' \subseteq Requests
      BY <1>a, <2>2
    <2> QED
      BY <2>1, <2>3 DEF Box!Drop
  <1> QED
    BY <1>0, <1>2, <1>3, <1>4, <1>5, <1>6, <1>7, <1>8, Steps DEF Next, Procs, Box!Next

\* The requests of either datagram program are put once, received by at most one
\* server, only after they were sent, and lost only with a closed socket.
THEOREM Implementation == Spec => ImplementsMailbox
  <1>1. Init => Box!Init
    <2> SUFFICES ASSUME Init PROVE Box!Init
      OBVIOUS
    <2>1. \A s \in Servers : inbox[s] = <<>>
      BY DEF Init, Procs
    <2>2. DOMAIN <<>> = {}
      OBVIOUS
    <2>3. Requests = {}
      BY <2>1, <2>2 DEF Requests
    <2> QED
      BY <2>3 DEF Init, Box!Init
  <1>2. Spec => []Basic
    BY BasicStart, BasicStep, PTL DEF Spec
  <1> QED
    BY <1>1, <1>2, StepMaps, PTL DEF Spec, ImplementsMailbox, Box!Spec

-------------------------------------------------------------------------------
(***************************************************************************)
(* Who waits for whom.                                                     *)
(***************************************************************************)
\* Only an open socket has datagrams, and only a running process a socket.
Sockets ==
    \A p \in Procs : /\ inbox[p] # <<>> => p \in open
                     /\ p \in open => ~Ended(p)

LEMMA SocketsStep == ASSUME Basic, Sockets, [Next]_vars PROVE Sockets'
  <1>0. TypeOK
    BY DEF Basic
  <1>1. CASE UNCHANGED vars
    BY <1>1 DEF vars, Sockets, Ended
  <1>2. ASSUME NEW p \in Procs, Unlink(p) \/ Bind(p) \/ BindFails(p) \/ Block(p) \/ SendFails(p)
        PROVE  Sockets'
    BY <1>0, <1>2 DEF Unlink, Bind, BindFails, Block, SendFails, GoTo, Sockets, Ended, TypeOK
  <1>3. ASSUME NEW p \in Procs, Close(p) \/ Kill(p)
        PROVE  Sockets'
    BY <1>0, <1>3 DEF Close, Kill, Discard, GoTo, Sockets, Ended, TypeOK
  <1>4. ASSUME NEW p \in Procs, Receive(p)
        PROVE  Sockets'
    <2>1. p \in open /\ open' = open
      BY <1>4 DEF Receive, Sockets
    <2>2. \A q \in Procs : q # p => inbox'[q] = inbox[q] /\ pc'[q] = pc[q]
      BY <1>0, <1>4 DEF Receive, GoTo, TypeOK
    <2>3. pc'[p] \in {"reply", "close"}
      BY <1>0, <1>4 DEF Receive, GoTo, TypeOK
    <2> QED
      BY <2>1, <2>2, <2>3 DEF Sockets, Ended
  <1>5. ASSUME NEW p \in Procs, (p \in Clients /\ Request(p)) \/ (p \in Servers /\ Respond(p))
        PROVE  Sockets'
    <2>1. PICK q \in open : inbox' = [inbox EXCEPT ![q] = inbox'[q]]
      BY <1>0, <1>5 DEF Request, Respond, HasRoom, Deliver, TypeOK
    <2>2. open' = open /\ \A x \in Procs : Ended(x)' => Ended(x)
      BY <1>0, <1>5 DEF Request, Respond, GoTo, Ended, TypeOK
    <2>3. \A x \in Procs : x # q => inbox'[x] = inbox[x]
      BY <1>0, <2>1 DEF TypeOK
    <2> QED
      BY <2>1, <2>2, <2>3 DEF Sockets
  <1> QED
    BY <1>1, <1>2, <1>3, <1>4, <1>5, Steps DEF Next

\* What a process can do next: every call but a recvfrom() on an empty queue and a
\* sendto() on a full one.
CanStep(p) ==
    \/ pc[p] \in {"unlink", "bind", "close", "abort"}
    \/ pc[p] = "receive" /\ inbox[p] # <<>>
    \/ pc[p] \in {"send", "reply"} /\ ~(peer[p] \in open /\ ~HasRoom(peer[p]))

\* Unless a client ended or is abandoned, somebody can go on or is wedged.
GoesOn ==
    (\E c \in Clients : ~Ended(c) /\ ~Abandoned(c)) =>
        \/ \E p \in Procs : CanStep(p)
        \/ \E s \in Servers : Wedged(s)

\* A full queue is an open one that is not empty.
LEMMA FullQueue ==
    ASSUME Basic, Sockets, NEW p \in open, ~HasRoom(p)
    PROVE  p \in Procs /\ inbox[p] # <<>> /\ ~Ended(p)
  <1>1. p \in Procs /\ inbox[p] \in Seq(Clients)
    BY DEF Basic, TypeOK
  <1>2. Len(inbox[p]) >= MaxQueue /\ MaxQueue >= 1 /\ Len(inbox[p]) \in Nat
    BY <1>1, LimitAssumption DEF HasRoom
  <1>3. ASSUME inbox[p] = <<>> PROVE FALSE
    <2>1. Len(inbox[p]) = 0
      BY <1>1, <1>3, EmptySeq
    <2> QED
      BY <1>2, <2>1, LimitAssumption
  <1> QED
    BY <1>1, <1>3 DEF Sockets

\* A server that has a request, queued or taken, can go on, or somebody else.
LEMMA ServerGoesOn ==
    ASSUME Basic, Sockets, NEW s \in Servers, inbox[s] # <<>> \/ pc[s] = "reply"
    PROVE  (\E p \in Procs : CanStep(p)) \/ Wedged(s)
  <1>0. TypeOK /\ Roles /\ s \in Procs
    BY DEF Basic, Procs
  <1>1. CASE pc[s] # "reply"
    <2>1. s \in open
      BY <1>0, <1>1 DEF Sockets
    <2>2. pc[s] \in {"receive", "close", "abort"}
      BY <1>1, <2>1 DEF Basic, Server
    <2>3. CanStep(s)
      BY <1>1, <2>2 DEF CanStep
    <2> QED
      BY <1>0, <2>3
  <1>2. CASE pc[s] = "reply" /\ ~CanStep(s)
    <2>1. peer[s] \in open /\ ~HasRoom(peer[s])
      BY <1>2 DEF CanStep
    <2>2. peer[s] \in Procs /\ inbox[peer[s]] # <<>> /\ ~Ended(peer[s])
      BY <2>1, FullQueue
    <2>3. peer[s] \in Clients /\ pc[peer[s]] # "reply"
      BY <1>0, <2>2, ProcsAssumption DEF Roles, Procs
    <2>4. pc[peer[s]] \in {"unlink", "bind", "send", "receive", "close", "abort"}
      BY <1>0, <2>2, <2>3 DEF TypeOK, Ended
    <2>5. CASE pc[peer[s]] = "send"
      BY <1>2, <2>1, <2>5 DEF Wedged
    <2>6. CASE pc[peer[s]] # "send"
      <3>1. CanStep(peer[s])
        BY <2>2, <2>4, <2>6 DEF CanStep
      <3> QED
        BY <2>2, <3>1
    <2> QED
      BY <2>5, <2>6
  <1> QED
    BY <1>0, <1>1, <1>2

LEMMA SomebodyGoesOn == Basic /\ Sockets => GoesOn
  <1> SUFFICES ASSUME Basic, Sockets, NEW c \in Clients, ~Ended(c), ~Abandoned(c)
               PROVE  (\E p \in Procs : CanStep(p)) \/ \E s \in Servers : Wedged(s)
    BY DEF GoesOn
  <1>0. TypeOK /\ Roles /\ c \in Procs /\ Asker(c)
    BY DEF Basic, Procs
  <1>1. CASE CanStep(c)
    BY <1>0, <1>1
  <1>2. CASE pc[c] = "receive" /\ ~CanStep(c)
    <2>1. inbox[c] = <<>>
      BY <1>2 DEF CanStep
    <2>2. InBox(c, dest[c]) \/ Held(c, dest[c])
      BY <1>2, <2>1 DEF Abandoned
    <2>3. dest[c] \in Servers
      BY <1>0, <1>2 DEF Asker, TypeOK
    <2>4. inbox[dest[c]] # <<>> \/ pc[dest[c]] = "reply"
      BY <2>2 DEF InBox, Held
    <2> QED
      BY <2>3, <2>4, ServerGoesOn
  <1>3. CASE pc[c] = "send" /\ ~CanStep(c)
    <2>1. peer[c] \in open /\ ~HasRoom(peer[c])
      BY <1>3 DEF CanStep
    <2>2. inbox[peer[c]] # <<>> /\ peer[c] \in Procs
      BY <2>1, FullQueue
    <2>3. peer[c] \in Servers
      BY <1>0, <2>2, ProcsAssumption DEF Roles, Procs
    <2> QED
      BY <2>2, <2>3, ServerGoesOn
  <1>4. pc[c] \in {"unlink", "bind", "send", "receive", "close", "abort"}
    BY <1>0 DEF TypeOK, Ended, Roles
  <1> QED
    BY <1>1, <1>2, <1>3, <1>4 DEF CanStep

\* Nobody waits in a circle without a wedged server in it: as long as a client is
\* neither at its end nor abandoned, some process can make its next call.
THEOREM NoDeadlock == Spec => []GoesOn
  <1>1. Init => Sockets
    BY DEF Init, Sockets
  <1>2. Basic /\ Sockets /\ [Next]_vars => Sockets'
    BY SocketsStep
  <1> QED
    BY <1>1, <1>2, BasicStart, BasicStep, SomebodyGoesOn, PTL DEF Spec

-------------------------------------------------------------------------------
\* The servers that have answered, or will not: a client has at most one reply of
\* each in its queue.
Past == {s \in Servers : pc[s] \notin {"unlink", "bind", "receive", "reply"}}
Replies == \A c \in Clients : Len(inbox[c]) <= Cardinality(Past)

LEMMA RepliesStep ==
    ASSUME IsFiniteSet(Servers), Basic, Basic', Replies, [Next]_vars
    PROVE  Replies'
  <1>0. /\ TypeOK /\ Roles
        /\ IsFiniteSet(Past) /\ Cardinality(Past) \in Nat
        /\ IsFiniteSet(Past') /\ Cardinality(Past') \in Nat
    <2>1. Past \in SUBSET Servers /\ Past' \in SUBSET Servers
      BY DEF Past
    <2>2. IsFiniteSet(Past) /\ IsFiniteSet(Past')
      BY <2>1, FS_Subset
    <2> QED
      BY <2>2, FS_CardinalityType DEF Basic
  <1>1. \A c \in Clients : c \in Procs /\ inbox[c] \in Seq(Clients) /\ Len(inbox[c]) \in Nat
    BY <1>0 DEF TypeOK, Procs
  <1>2. Past \subseteq Past'
    <2>1. CASE UNCHANGED vars
      BY <2>1 DEF vars, Past
    <2>2. ASSUME NEW p \in Procs, Step(p) \/ Kill(p),
                 NEW s \in Servers, pc[s] \notin {"unlink", "bind", "receive", "reply"}
          PROVE  pc'[s] \notin {"unlink", "bind", "receive", "reply"}
      <3>1. s \in Procs /\ pc[s] # "send" /\ s \notin Clients
        BY <1>0, ProcsAssumption DEF Procs, Roles
      <3>2. CASE s # p
        <4>1. pc'[s] = pc[s]
          BY <1>0, <2>2, <3>1, <3>2 DEF Step, Kill, Unlink, Bind, BindFails, Block, SendFails,
             Receive, Close, Request, Respond, GoTo, TypeOK
        <4> QED
          BY <2>2, <4>1
      <3>3. CASE s = p
        BY <1>0, <2>2, <3>1, <3>3 DEF Step, Kill, Unlink, Bind, BindFails, Block, SendFails,
           Receive, Close, Request, Respond, GoTo, TypeOK
      <3> QED
        BY <3>2, <3>3
    <2> QED
      BY <2>1, <2>2 DEF Next, Past
  <1>3. Cardinality(Past) <= Cardinality(Past')
    BY <1>0, <1>2, FS_Subset
  <1>4. ASSUME NEW c \in Clients, Len(inbox'[c]) <= Len(inbox[c]), Len(inbox'[c]) \in Nat
        PROVE  Len(inbox'[c]) <= Cardinality(Past')
    BY <1>0, <1>1, <1>3, <1>4 DEF Replies
  <1>5. \A c \in Clients : Len(inbox'[c]) \in Nat
    BY DEF Basic, TypeOK, Procs
  <1>6. CASE UNCHANGED vars
    BY <1>1, <1>4, <1>5, <1>6 DEF vars, Replies
  <1>7. ASSUME NEW p \in Procs, Unlink(p) \/ Bind(p) \/ BindFails(p) \/ Block(p) \/ SendFails(p)
        PROVE  Replies'
    <2>1. inbox' = inbox
      BY <1>7 DEF Unlink, Bind, BindFails, Block, SendFails
    <2> QED
      BY <1>1, <1>4, <1>5, <2>1 DEF Replies
  <1>8. ASSUME NEW p \in Procs, Close(p) \/ Kill(p) \/ Receive(p)
        PROVE  Replies'
    <2>1. ASSUME NEW c \in Clients PROVE Len(inbox'[c]) <= Len(inbox[c])
      <3>1. CASE Close(p) \/ Kill(p)
        <4>1. inbox'[c] \in {<<>>, inbox[c]}
          BY <1>0, <1>1, <3>1 DEF Close, Kill, Discard, TypeOK
        <4> QED
          BY <1>1, <4>1
      <3>2. CASE Receive(p)
        <4>1. inbox'[c] = inbox[c] \/ (inbox[c] # <<>> /\ inbox'[c] = Tail(inbox[c]))
          BY <1>0, <1>1, <3>2 DEF Receive, TypeOK
        <4>2. inbox[c] # <<>> => Len(Tail(inbox[c])) = Len(inbox[c]) - 1
          BY <1>1, HeadTailProperties
        <4>3. Len(inbox'[c]) \in {Len(inbox[c]), Len(inbox[c]) - 1}
          BY <4>1, <4>2
        <4> QED
          BY <1>1, <4>3
      <3> QED
        BY <1>8, <3>1, <3>2
    <2> QED
      BY <1>4, <1>5, <2>1 DEF Replies
  <1>9. ASSUME NEW p \in Clients, Request(p) PROVE Replies'
    <2>1. PICK q : q \in Servers \union {None} \union (Servers \intersect open) /\ inbox' = [inbox EXCEPT ![q] = Append(@, p)]
      BY <1>0, <1>9 DEF Request, Target, Deliver, Roles
    <2>2. \A c \in Clients : inbox'[c] = inbox[c]
      BY <1>0, <1>1, <2>1, ProcsAssumption DEF TypeOK, Procs
    <2> QED
      BY <1>1, <1>4, <1>5, <2>2 DEF Replies
  <1>10. ASSUME NEW s \in Servers, Respond(s) PROVE Replies'
    <2>1. pc[s] = "reply" /\ pc' = [pc EXCEPT ![s] = "close"] /\ s \in Procs
      BY <1>10 DEF Respond, GoTo, Procs
    <2>2. Past' = Past \union {s} /\ s \notin Past
      BY <1>0, <2>1 DEF Past, TypeOK, Procs
    <2>3. Cardinality(Past') = Cardinality(Past) + 1
      BY <1>0, <2>2, FS_AddElement
    <2>4. ASSUME NEW c \in Clients PROVE Len(inbox'[c]) <= Len(inbox[c]) + 1
      <3>1. inbox'[c] = inbox[c] \/ inbox'[c] = Append(inbox[c], took[s])
        BY <1>0, <1>1, <1>10 DEF Respond, Deliver, TypeOK
      <3>2. took[s] \in Clients
        BY <2>1 DEF Basic, Server, TypeOK
      <3> QED
        BY <1>1, <3>1, <3>2, AppendProperties
    <2> QED
      BY <1>0, <1>1, <1>5, <2>3, <2>4 DEF Replies
  <1> QED
    BY <1>6, <1>7, <1>8, <1>9, <1>10, Steps DEF Next

\* Where there are no more servers than datagrams fit into a queue, no reply finds
\* a full queue, and nobody is wedged.
THEOREM NeverWedged ==
    ASSUME IsFiniteSet(Servers), Cardinality(Servers) <= MaxQueue
    PROVE  Spec => [](\A s \in Servers : ~Wedged(s))
  <1>1. Init => Replies
    <2>1. Past \in SUBSET Servers
      BY DEF Past
    <2>2. Cardinality(Past) \in Nat
      BY <2>1, FS_Subset, FS_CardinalityType
    <2> QED
      BY <2>2 DEF Init, Replies, Procs
  <1>2. Basic /\ Basic' /\ Replies /\ [Next]_vars => Replies'
    BY RepliesStep
  <1>3. Basic /\ Replies => \A s \in Servers : ~Wedged(s)
    <2> SUFFICES ASSUME Basic, Replies, NEW s \in Servers, Wedged(s) PROVE FALSE
      OBVIOUS
    <2>1. /\ pc[s] = "reply" /\ peer[s] \in open /\ ~HasRoom(peer[s]) /\ peer[s] \in Procs
          /\ peer[s] \in Clients
      BY ProcsAssumption DEF Wedged, Basic, TypeOK, Roles, Procs
    <2>2. inbox[peer[s]] \in Seq(Clients) /\ Len(inbox[peer[s]]) \in Nat /\ MaxQueue \in Nat
      BY <2>1, LimitAssumption DEF Basic, TypeOK
    <2>3. Len(inbox[peer[s]]) >= MaxQueue
      BY <2>1, <2>2 DEF HasRoom
    <2>4. Past \union {s} \in SUBSET Servers /\ Past \in SUBSET Servers /\ s \notin Past
      BY <2>1 DEF Past
    <2>5. IsFiniteSet(Past) /\ Cardinality(Past) \in Nat /\ Cardinality(Servers) \in Nat
      BY <2>4, FS_Subset, FS_CardinalityType
    <2>6. Cardinality(Past \union {s}) = Cardinality(Past) + 1
      BY <2>4, <2>5, FS_AddElement
    <2>7. Cardinality(Past \union {s}) <= Cardinality(Servers)
      BY <2>4, FS_Subset
    <2>8. Len(inbox[peer[s]]) <= Cardinality(Past)
      BY <2>1 DEF Replies
    <2> QED
      BY <2>2, <2>3, <2>5, <2>6, <2>7, <2>8
  <1> QED
    BY <1>1, <1>2, <1>3, BasicStart, BasicStep, PTL DEF Spec

-------------------------------------------------------------------------------
(***************************************************************************)
(* Every step uses something up.                                           *)
(***************************************************************************)
\* The calls a process has before it, and the sockets it can still be blocked on:
\* those that are open or will be, without the one it is blocked on.
Calls(p) ==
    CASE pc[p] = "unlink"  -> 6
      [] pc[p] = "bind"    -> 5
      [] pc[p] = "send"    -> 4
      [] pc[p] = "receive" -> 3
      [] pc[p] = "reply"   -> 2
      [] pc[p] \in {"close", "abort"} -> 1
      [] OTHER -> 0

Ahead(p) == {q \in Procs : q \in open \/ pc[q] \in {"unlink", "bind"}} \ ({peer[p]} \intersect open)

\* No step gives anything back, and each takes a call or a socket.
UsesUp ==
    /\ \A p \in Procs : Calls(p)' <= Calls(p) /\ Ahead(p)' \subseteq Ahead(p)
    /\ \E p \in Procs : Calls(p)' < Calls(p) \/ Ahead(p)' # Ahead(p)

\* The processes make finitely many calls, whoever runs when: with NoDeadlock, a
\* client that is neither at its end nor abandoned has a wedged server to blame.
THEOREM StepsRunOut == Spec => [][UsesUp]_vars
  <1>1. ASSUME TypeOK, NEW p \in Procs, Block(p)
        PROVE  UsesUp
    <2>1. /\ pc' = pc /\ open' = open
          /\ peer[p] \notin open /\ peer'[p] \in open
          /\ \A q \in Procs : q # p => peer'[q] = peer[q]
      BY <1>1 DEF Block, TypeOK
    <2>2. \A q \in Procs : Calls(q)' = Calls(q) /\ Calls(q) \in 0..6
      BY <2>1 DEF Calls
    <2>3. \A q \in Procs : Ahead(q)' \subseteq Ahead(q)
      BY <2>1 DEF Ahead
    <2>4. peer'[p] \in Ahead(p) /\ peer'[p] \notin Ahead(p)'
      BY <1>1, <2>1 DEF Ahead, TypeOK
    <2> QED
      BY <2>2, <2>3, <2>4 DEF UsesUp
  <1>2. ASSUME TypeOK, NEW p \in Procs,
               \/ Unlink(p) \/ Bind(p) \/ BindFails(p) \/ SendFails(p) \/ Receive(p)
               \/ Close(p) \/ Request(p) \/ Respond(p) \/ Kill(p)
        PROVE  UsesUp
    <2>1. /\ peer' = peer
          /\ \A q \in Procs : q # p => pc'[q] = pc[q]
      BY <1>2 DEF Unlink, Bind, BindFails, SendFails, Receive, Close, Discard, Request,
         Respond, Kill, GoTo, TypeOK
    <2>2. Calls(p)' < Calls(p)
      BY <1>2 DEF Calls, Unlink, Bind, BindFails, SendFails, Receive, Close, Discard, Request,
         Respond, Kill, GoTo, Ended, TypeOK
    <2>3. \/ open' = open /\ (pc'[p] \in {"unlink", "bind"} => pc[p] \in {"unlink", "bind"})
          \/ open' = open \ {p} /\ pc'[p] \notin {"unlink", "bind"}
          \/ open' = open \union {p} /\ pc[p] = "bind"
      BY <1>2 DEF Unlink, Bind, BindFails, SendFails, Receive, Close, Discard, Request,
         Respond, Kill, GoTo, TypeOK
    <2>4. \A q \in Procs : Ahead(q)' \subseteq Ahead(q)
      BY <2>1, <2>3 DEF Ahead
    <2>5. \A q \in Procs : Calls(q) \in 0..6 /\ Calls(q)' \in 0..6
      BY DEF Calls
    <2>6. \A q \in Procs : q # p => Calls(q)' = Calls(q)
      BY <2>1 DEF Calls
    <2>7. \A q \in Procs : Calls(q)' <= Calls(q)
      BY <2>2, <2>5, <2>6
    <2> QED
      BY <2>2, <2>4, <2>7 DEF UsesUp
  <1>3. TypeOK /\ [Next]_vars => [UsesUp]_vars
    BY <1>1, <1>2 DEF Next, Step
  <1> QED
    BY <1>3, TypeCorrect, PTL DEF Spec
===============================================================================
