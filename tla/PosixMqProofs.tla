----------------------------- MODULE PosixMqProofs -----------------------------
(***************************************************************************)
(* Proofs about PosixMq: any number of senders, receivers and removing     *)
(* programs, any priorities, any capacity.                                 *)
(***************************************************************************)
EXTENDS PosixMq, FiniteSetTheorems, TLAPS

\* Who has a descriptor, and who is waiting in which call.
Descriptors ==
    /\ \A p \in Users :
          /\ pc[p] \in {"send", "receive", "close", "abort"} <=> fd[p] # None
          /\ pc[p] # "unlink"
          /\ pc[p] = "send" => p \in Senders
          /\ pc[p] = "receive" => p \in Receivers
    /\ \A p \in Removers : fd[p] = None /\ pc[p] \in {"unlink", "done", "failed"}
    /\ \A s \in Senders : pc[s] \in {"open", "send"} => sent[s] = 0
    /\ \A r \in Receivers : pc[r] \in {"open", "receive"} => got[r] = None

\* A process that has not opened the queue has not created one either.
Uncreated ==
    \A p \in Procs : pc[p] \in {"open", "unlink"} =>
        ~Exists(p) /\ \A s \in Senders : home[s] # p

\* Arrival numbers count up.
Numbered ==
    /\ \A s \in Senders : sent[s] <= Arrivals
    /\ \A m, n \in Senders : sent[m] = sent[n] /\ Sent(m) => m = n
    /\ \A s \in Senders : Sent(s) => home[s] \in Procs
    /\ \A r \in Receivers : got[r] # None => Sent(got[r])

Inv == TypeOK /\ Descriptors /\ Uncreated /\ Numbered /\ Accounted /\ InOrder

-------------------------------------------------------------------------------
\* A number that an unsigned int holds is the priority.
LEMMA NotAboveIs ==
    ASSUME NEW m \in Senders, NEW n \in Senders, NotAbove(n, m)
    PROVE  Prio(n) <= Prio(m)
  <1>1. CASE Arg[n] <= Arg[m] /\ Arg[m] < UIntMod
    <2>1. Arg[n] \in 0..(UIntMod - 1) /\ Arg[m] \in 0..(UIntMod - 1) /\ UIntMod \in Nat
      BY <1>1, ArgAssumption
    <2>2. Arg[n] % UIntMod = Arg[n] /\ Arg[m] % UIntMod = Arg[m]
      BY <2>1
    <2> QED
      BY <1>1, <2>2 DEF Prio
  <1> QED
    BY <1>1 DEF NotAbove

\* Opening the queue, or a new one, for a call or to close it again.
LEMMA OpenKeeps ==
    ASSUME Inv, NEW p \in Users, Opens(p), NEW call \in {"send", "receive", "abort"},
           call = "send" => p \in Senders, call = "receive" => p \in Receivers,
           GoTo(p, call), faults' \in 0..MaxFaults
    PROVE  Inv'
  <1>0. /\ TypeOK /\ Descriptors /\ Uncreated /\ Numbered /\ Accounted /\ InOrder
        /\ p \in Procs
    BY DEF Inv, Procs
  <1>1. /\ pc[p] = "open" /\ name' = (IF name = None THEN p ELSE name)
        /\ fd' = [fd EXCEPT ![p] = name']
        /\ pc' = [pc EXCEPT ![p] = call]
        /\ UNCHANGED <<queue, sent, home, got>>
    BY DEF Opens, GoTo
  <1>2. name' \in Procs
    BY <1>0, <1>1 DEF TypeOK
  <1>3. \A q \in Procs : Exists(q)' => Exists(q) \/ (q = p /\ name = None)
    BY <1>0, <1>1, <1>2, ProcsAssumption DEF Exists, TypeOK
  <1>3a. \A q \in Procs : Exists(q) => Exists(q)'
    BY <1>0, <1>1, ProcsAssumption DEF Exists, TypeOK, Descriptors, Procs, Users
  <1>4. TypeOK'
    BY <1>0, <1>1, <1>2 DEF TypeOK
  <1>5. Descriptors'
    BY <1>0, <1>1, <1>2, ProcsAssumption DEF Descriptors, TypeOK, Procs, Users
  <1>6. Uncreated'
    BY <1>0, <1>1, <1>3 DEF Uncreated, TypeOK
  <1>7. Numbered'
    BY <1>0, <1>1 DEF Numbered, Arrivals, Sent
  <1>8. Accounted'
    <2>1. \A s \in Senders : home[s] # p
      BY <1>0, <1>1 DEF Uncreated
    <2> QED
      BY <1>0, <1>1, <1>3, <1>3a, <2>1 DEF Accounted, Sent, Received, Numbered
  <1>9. InOrder'
    BY <1>0, <1>1 DEF InOrder, Sent, Received
  <1> QED
    BY <1>4, <1>5, <1>6, <1>7, <1>8, <1>9 DEF Inv

\* Steps that fail before they touch a queue.
LEMMA FailKeeps ==
    ASSUME Inv, NEW p \in Procs,
           \/ p \in Users /\ OpenFails(p) /\ ~Opens(p)
           \/ p \in Senders /\ SendInvalid(p)
           \/ p \in Removers /\ UnlinkFails(p)
    PROVE  Inv'
  <1>0. TypeOK /\ Descriptors /\ Uncreated /\ Numbered /\ Accounted /\ InOrder
    BY DEF Inv
  <1>1. /\ UNCHANGED <<fd, name, queue, sent, home, got>>
        /\ faults' \in {faults, faults + 1} /\ (faults' = faults \/ faults < MaxFaults)
        /\ \/ p \in Users /\ pc[p] = "open" /\ pc' = [pc EXCEPT ![p] = "failed"]
           \/ p \in Users /\ pc[p] = "send" /\ pc' = [pc EXCEPT ![p] = "abort"]
           \/ p \in Removers /\ pc' = [pc EXCEPT ![p] = "failed"]
    BY DEF OpenFails, SendInvalid, UnlinkFails, GoTo, Users
  <1>2. TypeOK'
    BY <1>0, <1>1, LimitAssumption DEF TypeOK
  <1>3. Descriptors'
    <2>1. CASE p \in Users
      BY <1>0, <1>1, <2>1, ProcsAssumption DEF Descriptors, TypeOK, Procs, Users
    <2>2. CASE p \in Removers
      BY <1>0, <1>1, <2>2, ProcsAssumption DEF Descriptors, TypeOK, Procs, Users
    <2> QED
      BY <2>1, <2>2 DEF Procs
  <1>4. Uncreated'
    BY <1>0, <1>1 DEF Uncreated, Exists, TypeOK
  <1>5. Numbered' /\ Accounted' /\ InOrder'
    BY <1>0, <1>1 DEF Numbered, Accounted, InOrder, Arrivals, Sent, Received, Exists
  <1> QED
    BY <1>2, <1>3, <1>4, <1>5 DEF Inv

\* mq_send: the new message has the highest number and is in one queue.
LEMMA SendKeeps ==
    ASSUME Inv, NEW p \in Senders, Send(p) PROVE Inv'
  <1>0. /\ TypeOK /\ Descriptors /\ Uncreated /\ Numbered /\ Accounted /\ InOrder
        /\ p \in Users /\ p \in Procs
    BY DEF Inv, Procs, Users
  <1> DEFINE q == fd[p]
             old == {s \in Senders : sent[s] # 0}
  <1>1. /\ pc[p] = "send" /\ pc' = [pc EXCEPT ![p] = "close"]
        /\ Cardinality(queue[q]) < MaxMsg
        /\ queue' = [queue EXCEPT ![q] = @ \union {p}]
        /\ sent' = [sent EXCEPT ![p] = Arrivals + 1]
        /\ home' = [home EXCEPT ![p] = q]
        /\ UNCHANGED <<fd, name, got, faults>>
    BY DEF Send, SendWhen, GoTo
  <1>2. q \in Procs /\ sent[p] = 0 /\ Exists(q)
    BY <1>0, <1>1 DEF Descriptors, TypeOK, Exists
  <1>3. IsFiniteSet(old) /\ Arrivals \in Nat /\ IsFiniteSet(queue[q])
        /\ Cardinality(queue[q]) \in Nat
    <2>1. old \in SUBSET Senders /\ queue[q] \in SUBSET Senders
      BY <1>0, <1>2 DEF TypeOK
    <2>2. IsFiniteSet(old) /\ IsFiniteSet(queue[q])
      BY <2>1, ProcsAssumption, FS_Subset
    <2>3. Arrivals = Cardinality(old)
      BY DEF Arrivals
    <2> HIDE DEF old, q
    <2> QED
      BY <2>2, <2>3, FS_CardinalityType
  <1>4. Arrivals' = Arrivals + 1
    <2>1. \A s \in Senders : sent'[s] # 0 <=> (sent[s] # 0 \/ s = p)
      BY <1>0, <1>1, <1>3 DEF TypeOK
    <2>2. p \notin old
      BY <1>2
    <2>3. Arrivals = Cardinality(old) /\ Arrivals' = Cardinality(old \union {p})
      <3>1. {s \in Senders : sent'[s] # 0} = old \union {p}
        BY <2>1
      <3> QED
        BY <3>1 DEF Arrivals
    <2> HIDE DEF old
    <2> QED
      BY <1>3, <2>2, <2>3, FS_AddElement
  <1>5. /\ sent'[p] = Arrivals + 1 /\ home'[p] = q
        /\ \A s \in Senders \ {p} : sent'[s] = sent[s] /\ home'[s] = home[s]
        /\ \A s \in Senders : sent[s] \in Nat /\ sent[s] <= Arrivals
    BY <1>0, <1>1 DEF TypeOK, Numbered
  <1>6. /\ queue'[q] = queue[q] \union {p}
        /\ \A x \in Procs \ {q} : queue'[x] = queue[x]
    BY <1>0, <1>1, <1>2 DEF TypeOK
  <1>7. ~Received(p) /\ (\A s \in Senders : Received(s)' <=> Received(s))
        /\ (\A x \in Procs : Exists(x)' <=> Exists(x))
    BY <1>0, <1>1, <1>2, ProcsAssumption DEF Received, Exists, Numbered, Sent, Procs, Users
  <1>8. TypeOK'
    <2>1. Cardinality(queue[q] \union {p}) <= MaxMsg
      <3>1. p \notin queue[q]
        BY <1>0, <1>2 DEF Accounted, Sent
      <3>2. Cardinality(queue[q]) + 1 <= MaxMsg
        BY <1>1, <1>3, LimitAssumption
      <3> HIDE DEF q
      <3>3. Cardinality(queue[q] \union {p}) = Cardinality(queue[q]) + 1
        BY <1>3, <3>1, FS_AddElement
      <3> QED
        BY <3>2, <3>3
    <2>2. \A x \in Procs : Cardinality(queue'[x]) <= MaxMsg
      <3>1. \A x \in Procs : Cardinality(queue[x]) <= MaxMsg
        BY <1>0 DEF TypeOK
      <3> QED
        BY <1>6, <2>1, <3>1
    <2>3. queue' \in [Procs -> SUBSET Senders]
      BY <1>0, <1>1, <1>2 DEF TypeOK
    <2>4. /\ sent' \in [Senders -> Nat] /\ home' \in [Senders -> Procs \union {None}]
          /\ pc' \in [Procs -> {"open", "send", "receive", "close", "abort", "unlink",
                                "done", "failed", "killed"}]
      BY <1>0, <1>1, <1>2, <1>3 DEF TypeOK
    <2> QED
      BY <1>0, <1>1, <2>2, <2>3, <2>4 DEF TypeOK
  <1>9. Descriptors'
    BY <1>0, <1>1, <1>2, ProcsAssumption DEF Descriptors, TypeOK, Procs, Users
  <1>10. Uncreated'
    <2>1. ASSUME NEW x \in Procs, pc'[x] \in {"open", "unlink"}
          PROVE  ~Exists(x)' /\ \A s \in Senders : home'[s] # x
      <3>1. pc[x] \in {"open", "unlink"}
        BY <1>0, <1>1, <2>1 DEF TypeOK
      <3>2. ~Exists(x) /\ x # q
        BY <1>0, <1>2, <3>1 DEF Uncreated
      <3> QED
        BY <1>0, <1>5, <1>7, <3>1, <3>2 DEF Uncreated
    <2> QED
      BY <2>1 DEF Uncreated
  <1>11. Numbered'
    <2>1. \A s \in Senders : sent'[s] <= Arrivals'
      BY <1>3, <1>4, <1>5
    <2>2. \A m, n \in Senders : sent'[m] = sent'[n] /\ Sent(m)' => m = n
      BY <1>0, <1>3, <1>5 DEF Numbered, Sent
    <2>3. \A s \in Senders : Sent(s)' => home'[s] \in Procs
      BY <1>0, <1>2, <1>5 DEF Numbered, Sent
    <2>4. \A r \in Receivers : got'[r] # None => sent'[got'[r]] # 0
      BY <1>0, <1>1, <1>2, <1>5 DEF Numbered, Sent, TypeOK
    <2> QED
      BY <2>1, <2>2, <2>3, <2>4 DEF Numbered, Sent
  <1>12. Accounted'
    <2>1. ASSUME NEW s \in Senders, NEW x \in Procs, s \in queue'[x]
          PROVE  Sent(s)' /\ ~Received(s)' /\ home'[s] = x /\ Exists(x)'
      <3>1. CASE s = p
        <4>1. x = q
          BY <1>0, <1>2, <1>6, <2>1, <3>1 DEF Accounted, Sent
        <4> QED
          BY <1>2, <1>3, <1>5, <1>7, <3>1, <4>1 DEF Sent
      <3>2. CASE s # p
        BY <1>0, <1>5, <1>6, <1>7, <2>1, <3>2 DEF Accounted, Sent
      <3> QED
        BY <3>1, <3>2
    <2>2. ASSUME NEW s \in Senders, Sent(s)', ~Received(s)', Exists(home[s])'
          PROVE  s # p => s \in queue'[home'[s]]
      BY <1>0, <1>1, <1>5, <1>6, <1>7, <2>2 DEF Accounted, Sent, Numbered
    <2> QED
      BY <1>0, <1>1, <1>2, <1>5, <1>6, <2>1, <2>2 DEF Accounted
  <1>13. InOrder'
    <2> SUFFICES ASSUME NEW m \in Senders, NEW n \in Senders,
                        Sent(m)', Sent(n)', home'[m] = home'[n], sent'[m] < sent'[n],
                        NotAbove(n, m), Received(n)'
                 PROVE  Received(m)'
      BY DEF InOrder
    <2>1. n # p /\ Received(n)
      BY <1>7
    <2>2. m # p
      BY <1>3, <1>5, <2>1
    <2> QED
      BY <1>0, <1>5, <1>7, <2>1, <2>2 DEF InOrder, Sent
  <1> QED
    BY <1>8, <1>9, <1>10, <1>11, <1>12, <1>13 DEF Inv

\* mq_receive: nothing sent earlier with at least that priority is left.
LEMMA ReceiveKeeps ==
    ASSUME Inv, NEW r \in Receivers, Receive(r) PROVE Inv'
  <1>0. /\ TypeOK /\ Descriptors /\ Uncreated /\ Numbered /\ Accounted /\ InOrder
        /\ r \in Users /\ r \in Procs
    BY DEF Inv, Procs, Users
  <1> DEFINE q == fd[r]
  <1>1. PICK m \in queue[q] :
            /\ IsFirst(m, q)
            /\ got' = [got EXCEPT ![r] = m]
            /\ queue' = [queue EXCEPT ![q] = @ \ {m}]
    BY DEF Receive
  <1>2. /\ pc[r] = "receive" /\ pc' = [pc EXCEPT ![r] = "close"]
        /\ UNCHANGED <<fd, name, sent, home, faults>>
    BY DEF Receive, GoTo
  <1>3. /\ q \in Procs /\ got[r] = None /\ Exists(q) /\ m \in Senders
        /\ Sent(m) /\ ~Received(m) /\ home[m] = q /\ m # None
    BY <1>0, <1>1, <1>2, ProcsAssumption
    DEF Descriptors, TypeOK, Exists, Accounted, Procs, Users
  <1>4. /\ \A s \in Senders : Received(s)' <=> Received(s) \/ s = m
        /\ \A x \in Procs : Exists(x)' <=> Exists(x)
    <2>1. \A x \in Receivers : got'[x] = IF x = r THEN m ELSE got[x]
      BY <1>0, <1>1 DEF TypeOK
    <2>2. \A s \in Senders : s # None
      BY ProcsAssumption DEF Procs, Users
    <2> QED
      BY <1>2, <1>3, <2>1, <2>2 DEF Received, Exists
  <1>5. /\ queue'[q] = queue[q] \ {m}
        /\ \A x \in Procs \ {q} : queue'[x] = queue[x]
    BY <1>0, <1>1, <1>3 DEF TypeOK
  <1>6. TypeOK'
    <2>1. IsFiniteSet(queue[q])
      <3>1. queue[q] \in SUBSET Senders
        BY <1>0, <1>3 DEF TypeOK
      <3> QED
        BY <3>1, ProcsAssumption, FS_Subset
    <2>2. Cardinality(queue[q] \ {m}) <= MaxMsg
      <3>1. Cardinality(queue[q]) <= MaxMsg /\ m \in queue[q]
        BY <1>0, <1>1, <1>3 DEF TypeOK
      <3> HIDE DEF q
      <3>2. Cardinality(queue[q]) \in Nat /\ Cardinality(queue[q] \ {m}) = Cardinality(queue[q]) - 1
        BY <2>1, <3>1, FS_CardinalityType, FS_RemoveElement
      <3> QED
        BY <3>1, <3>2, LimitAssumption
    <2>3. \A x \in Procs : Cardinality(queue'[x]) <= MaxMsg
      BY <1>0, <1>5, <2>2 DEF TypeOK
    <2> QED
      BY <1>0, <1>1, <1>2, <1>3, <2>3 DEF TypeOK
  <1>7. Descriptors'
    BY <1>0, <1>1, <1>2, <1>3, ProcsAssumption DEF Descriptors, TypeOK, Procs, Users
  <1>8. Uncreated'
    BY <1>0, <1>2, <1>4 DEF Uncreated, TypeOK
  <1>9. Numbered'
    BY <1>0, <1>1, <1>2, <1>3 DEF Numbered, Arrivals, Sent, TypeOK
  <1>10. Accounted'
    <2>1. ASSUME NEW s \in Senders, NEW x \in Procs, s \in queue'[x]
          PROVE  Sent(s)' /\ ~Received(s)' /\ home'[s] = x /\ Exists(x)'
      <3>1. s \in queue[x] /\ s # m
        BY <1>0, <1>3, <1>5, <2>1 DEF Accounted
      <3> QED
        BY <1>0, <1>2, <1>4, <3>1 DEF Accounted, Sent
    <2>2. \A r1, r2 \in Receivers : got'[r1] = got'[r2] /\ got'[r1] # None => r1 = r2
      BY <1>0, <1>1, <1>3 DEF Accounted, Received, TypeOK
    <2>3. ASSUME NEW s \in Senders, Sent(s)', ~Received(s)', Exists(home[s])'
          PROVE  s \in queue'[home'[s]]
      BY <1>0, <1>2, <1>4, <1>5, <2>3 DEF Accounted, Sent, Numbered
    <2> QED
      BY <1>2, <2>1, <2>2, <2>3 DEF Accounted
  <1>11. InOrder'
    <2> SUFFICES ASSUME NEW a \in Senders, NEW b \in Senders,
                        Sent(a), Sent(b), home[a] = home[b], sent[a] < sent[b],
                        NotAbove(b, a), Received(b)', ~Received(a)'
                 PROVE  FALSE
      BY <1>2 DEF InOrder, Sent
    <2>1. b = m
      BY <1>0, <1>4 DEF InOrder
    <2>2. a \in queue[q] /\ a # m
      BY <1>0, <1>3, <1>4, <2>1 DEF Accounted
    <2>3. Before(m, a)
      BY <1>1, <2>2 DEF IsFirst
    <2>4. Prio(a) \in Int /\ Prio(m) \in Int /\ sent[a] \in Int /\ sent[m] \in Int
      BY <1>0, <1>3, ArgAssumption DEF Prio, TypeOK
    <2>5. Prio(b) <= Prio(a)
      BY NotAboveIs
    <2> QED
      BY <2>1, <2>3, <2>4, <2>5 DEF Before
  <1> QED
    BY <1>6, <1>7, <1>8, <1>9, <1>10, <1>11 DEF Inv

\* Closing, killing and unlinking: a queue goes with all its messages or stays
\* with all of them.
LEMMA ReleaseKeeps ==
    ASSUME Inv, NEW p \in Procs,
           \/ p \in Users /\ (Close(p) \/ Kill(p))
           \/ p \in Removers /\ Unlink(p)
    PROVE  Inv'
  <1>0. /\ TypeOK /\ Descriptors /\ Uncreated /\ Numbered /\ Accounted /\ InOrder
    BY DEF Inv
  <1>1. /\ UNCHANGED <<sent, home, got>> /\ name' \in {name, None}
        /\ Purge(name', fd')
        /\ faults' \in {faults, faults + 1} /\ (faults' = faults \/ faults < MaxFaults)
        /\ \/ /\ p \in Users /\ fd' = [fd EXCEPT ![p] = None]
              /\ \E end \in {"done", "failed", "killed"} : pc' = [pc EXCEPT ![p] = end]
           \/ /\ p \in Removers /\ fd' = fd /\ pc' = [pc EXCEPT ![p] = "done"]
        /\ pc[p] \notin {"open", "send"} \/ fd'[p] = None
    <2>1. CASE p \in Users /\ Close(p)
      BY <1>0, <2>1 DEF Close, GoTo, TypeOK
    <2>2. CASE p \in Users /\ Kill(p)
      BY <1>0, <2>2 DEF Kill, GoTo, TypeOK
    <2>3. CASE p \in Removers /\ Unlink(p)
      BY <1>0, <2>3 DEF Unlink, GoTo, TypeOK
    <2> QED
      BY <2>1, <2>2, <2>3
  <1>2. ASSUME NEW x \in Procs
        PROVE  /\ Exists(x)' => Exists(x)
               /\ queue'[x] = IF Exists(x)' THEN queue[x] ELSE {}
    <2>1. Exists(x)' => Exists(x)
      BY <1>0, <1>1, ProcsAssumption DEF Exists, TypeOK
    <2> QED
      BY <1>1, <2>1 DEF Purge, Reclaimed, Exists
  <1>3. queue' \in [Procs -> SUBSET Senders]
    BY <1>0, <1>1 DEF Purge, TypeOK
  <1>4. TypeOK'
    <2>1. Cardinality({}) = 0
      BY FS_EmptySet
    <2>2. \A x \in Procs : Cardinality(queue'[x]) <= MaxMsg
      BY <1>0, <1>2, <2>1, LimitAssumption DEF TypeOK
    <2> QED
      BY <1>0, <1>1, <1>3, <2>2, LimitAssumption DEF TypeOK
  <1>5. Descriptors'
    <2>1. CASE p \in Users
      BY <1>0, <1>1, <2>1, ProcsAssumption DEF Descriptors, TypeOK, Procs, Users
    <2>2. CASE p \in Removers
      BY <1>0, <1>1, <2>2, ProcsAssumption DEF Descriptors, TypeOK, Procs, Users
    <2> QED
      BY <2>1, <2>2 DEF Procs
  <1>6. Uncreated'
    BY <1>0, <1>1, <1>2 DEF Uncreated, TypeOK
  <1>7. Numbered' /\ InOrder'
    BY <1>0, <1>1 DEF Numbered, InOrder, Arrivals, Sent, Received
  <1>8. Accounted'
    <2>1. ASSUME NEW s \in Senders, NEW x \in Procs, s \in queue'[x]
          PROVE  Sent(s)' /\ ~Received(s)' /\ home'[s] = x /\ Exists(x)'
      BY <1>0, <1>1, <1>2, <2>1 DEF Accounted, Sent, Received
    <2>2. ASSUME NEW s \in Senders, Sent(s)', ~Received(s)', Exists(home[s])'
          PROVE  s \in queue'[home'[s]]
      <3>1. Sent(s) /\ ~Received(s) /\ home[s] \in Procs
        BY <1>0, <1>1, <2>2 DEF Numbered, Sent, Received
      <3> QED
        BY <1>0, <1>1, <1>2, <2>2, <3>1 DEF Accounted
    <2> QED
      BY <1>0, <1>1, <2>1, <2>2 DEF Accounted
  <1> QED
    BY <1>4, <1>5, <1>6, <1>7, <1>8 DEF Inv

\* Nothing has happened yet.
LEMMA InvStart == Init => Inv
  <1> SUFFICES ASSUME Init PROVE Inv
    OBVIOUS
  <1>1. /\ pc = [p \in Procs |-> IF p \in Removers THEN "unlink" ELSE "open"]
        /\ fd = [p \in Procs |-> None] /\ name = None
        /\ queue = [q \in Procs |-> {}] /\ sent = [s \in Senders |-> 0]
        /\ home = [s \in Senders |-> None] /\ got = [r \in Receivers |-> None]
        /\ faults = 0
    BY DEF Init
  <1>2. \A q \in Procs : ~Exists(q)
    BY <1>1, ProcsAssumption DEF Exists
  <1>3. TypeOK
    <2>1. Cardinality({}) = 0
      BY FS_EmptySet
    <2>2. \A q \in Procs : Cardinality(queue[q]) <= MaxMsg
      BY <1>1, <2>1, LimitAssumption
    <2> QED
      BY <1>1, <2>2, LimitAssumption DEF TypeOK
  <1>4. Descriptors /\ Uncreated
    BY <1>1, <1>2, ProcsAssumption DEF Descriptors, Uncreated, Procs, Users
  <1>5. Numbered
    <2>1. Arrivals = 0
      <3>1. {s \in Senders : sent[s] # 0} = {}
        BY <1>1
      <3> QED
        BY <3>1, FS_EmptySet DEF Arrivals
    <2> QED
      BY <1>1, <2>1 DEF Numbered, Sent
  <1>6. Accounted /\ InOrder
    BY <1>1 DEF Accounted, InOrder, Sent
  <1> QED
    BY <1>3, <1>4, <1>5, <1>6 DEF Inv

\* Every step keeps the invariant.
LEMMA InvStep == Inv /\ [Next]_vars => Inv'
  <1> SUFFICES ASSUME Inv, [Next]_vars PROVE Inv'
    OBVIOUS
  <1>1. CASE UNCHANGED vars
    BY <1>1 DEF vars, Inv, TypeOK, Descriptors, Uncreated, Numbered, Accounted, InOrder,
                Arrivals, Sent, Received, Exists
  <1>2. ASSUME NEW p \in Procs, Step(p) PROVE Inv'
    <2>1. CASE p \in Users /\ Open(p)
      <3>1. Opens(p) /\ faults' \in 0..MaxFaults
        BY <2>1 DEF Open, Inv, TypeOK
      <3>2. \/ p \in Senders /\ GoTo(p, "send")
            \/ p \in Receivers /\ GoTo(p, "receive")
        BY <2>1 DEF Open, Users
      <3> QED
        BY <2>1, <3>1, <3>2, OpenKeeps
    <2>2. CASE p \in Users /\ Close(p)
      BY <2>2, ReleaseKeeps
    <2>3. CASE p \in Senders /\ Send(p)
      BY <2>3, SendKeeps
    <2>4. CASE p \in Senders /\ SendInvalid(p)
      BY <2>4, FailKeeps
    <2>5. CASE p \in Receivers /\ Receive(p)
      BY <2>5, ReceiveKeeps
    <2>6. CASE p \in Removers /\ Unlink(p)
      BY <2>6, ReleaseKeeps
    <2>7. CASE p \in Removers /\ UnlinkFails(p)
      BY <2>7, FailKeeps
    <2> QED
      BY <1>2, <2>1, <2>2, <2>3, <2>4, <2>5, <2>6, <2>7 DEF Step
  <1>3. ASSUME NEW p \in Users, OpenFails(p) \/ Kill(p) PROVE Inv'
    <2>1. CASE OpenFails(p) /\ Opens(p)
      <3>1. GoTo(p, "abort") /\ faults' \in 0..MaxFaults
        <4>1. pc[p] = "open" /\ name' \in Procs /\ fd' # fd
          BY <1>3, <2>1, ProcsAssumption DEF Opens, Inv, TypeOK, Descriptors, Procs
        <4>2. GoTo(p, "abort")
          BY <2>1, <4>1 DEF OpenFails
        <4> QED
          BY <2>1, <4>2, LimitAssumption DEF OpenFails, Inv, TypeOK
      <3> QED
        BY <2>1, <3>1, OpenKeeps
    <2> QED
      BY <1>3, <2>1, FailKeeps, ReleaseKeeps DEF Procs
  <1> QED
    BY <1>1, <1>2, <1>3 DEF Next

\* The invariant holds in every reachable state.
LEMMA Invariance == Spec => []Inv
  BY InvStart, InvStep, PTL DEF Spec

\* Every variable has its type, and no queue ever holds more than mq_maxmsg
\* messages.
THEOREM TypeCorrect == Spec => []TypeOK
  <1>1. Inv => TypeOK
    BY DEF Inv
  <1> QED
    BY <1>1, Invariance, PTL

\* A message is never lost or received twice while its queue exists, whatever
\* the other programs do, including unlinking, failing and being killed.
THEOREM NoneLost == Spec => []Accounted
  <1>1. Inv => Accounted
    BY DEF Inv
  <1> QED
    BY <1>1, Invariance, PTL

\* Messages of one queue come out by priority, and in the order sent within
\* one priority.
THEOREM Ordering == Spec => []InOrder
  <1>1. Inv => InOrder
    BY DEF Inv
  <1> QED
    BY <1>1, Invariance, PTL

\* Everybody uses the queue that has the name until the name is removed.
THEOREM Meeting == Spec => []OneQueue
  <1>1. Init => OneQueue
    BY DEF Init, OneQueue, Procs
  <1>2. Inv /\ OneQueue /\ [Next]_vars => OneQueue'
    <2> SUFFICES ASSUME Inv, OneQueue, [Next]_vars, \A x \in Removers : pc'[x] # "done",
                        NEW u \in Users
                 PROVE  fd'[u] \in {None, name'}
      BY DEF OneQueue
    <2>0. TypeOK /\ Descriptors
      BY DEF Inv
    <2>1. CASE UNCHANGED vars
      BY <2>1 DEF vars, OneQueue
    <2>2. ASSUME NEW p \in Procs,
                 \/ p \in Users /\ (Open(p) \/ Close(p) \/ OpenFails(p) \/ Kill(p))
                 \/ p \in Senders /\ (Send(p) \/ SendInvalid(p))
                 \/ p \in Receivers /\ Receive(p)
                 \/ p \in Removers /\ UnlinkFails(p)
          PROVE  /\ \A x \in Removers : pc[x] # "done"
                 /\ fd'[u] \in {fd[u], None, name'}
                 /\ name' # name => name = None
      <3>1. /\ fd'[u] \in {fd[u], None, name'}
            /\ name' # name => name = None
        BY <2>0, <2>2 DEF Open, Opens, Close, OpenFails, Kill, Send, SendWhen, SendInvalid,
                          Receive, UnlinkFails, TypeOK, Procs
      <3>2. \E end2 : pc' = [pc EXCEPT ![p] = end2]
        BY <2>2 DEF Open, Opens, Close, OpenFails, Kill, Send, SendInvalid,
                    Receive, UnlinkFails, GoTo
      <3>3. pc[p] # "done"
        BY <2>2 DEF Open, Opens, Close, OpenFails, Kill, Send, SendWhen, SendInvalid,
                    Receive, UnlinkFails
      <3> QED
        BY <2>0, <3>1, <3>2, <3>3 DEF TypeOK, Procs
    <2>3. CASE \E p \in Removers : Unlink(p)
      BY <2>0, <2>3 DEF Unlink, GoTo, TypeOK, Procs
    <2> QED
      BY <2>0, <2>1, <2>2, <2>3 DEF Next, Step, OneQueue, Procs
  <1> QED
    BY <1>1, <1>2, Invariance, PTL DEF Spec

-------------------------------------------------------------------------------
Pending == UNION {queue[q] : q \in Procs}

\* The queues that ever had the name, together, are one mailbox: sending puts,
\* receiving takes, and a message disappears only with its queue.
THEOREM Implementation == Spec => ImplementsMailbox
  <1>1. Init => Box!Init
    BY DEF Init, Box!Init
  <1>2. Inv /\ [Next]_vars => [Box!Next]_<<Pending, got>>
    <2> SUFFICES ASSUME Inv, [Next]_vars PROVE Box!Next \/ UNCHANGED <<Pending, got>>
      BY DEF Box!Next
    <2>0. TypeOK /\ Descriptors /\ Accounted
      BY DEF Inv
    <2>1. ASSUME UNCHANGED <<queue, got>> PROVE UNCHANGED <<Pending, got>>
      BY <2>1 DEF Pending
    <2>2. ASSUME NEW s \in Senders, Send(s) PROVE Box!Put(s)
      <3>1. /\ fd[s] \in Procs /\ ~Sent(s)
        BY <2>0, <2>2, ProcsAssumption DEF Send, SendWhen, Descriptors, TypeOK, Sent, Users, Procs
      <3>2. /\ s \notin Pending /\ \A r \in Receivers : got[r] # s
        <4>1. s \notin Pending
          BY <2>0, <3>1 DEF Accounted, Pending
        <4>2. s # None
          BY ProcsAssumption DEF Procs, Users
        <4> QED
          BY <3>1, <4>1, <4>2 DEF Inv, Numbered
      <3>3. Pending' = Pending \union {s} /\ UNCHANGED got
        BY <2>0, <2>2, <3>1 DEF Send, SendWhen, Pending, TypeOK
      <3> QED
        BY <3>2, <3>3 DEF Box!Put, Pending
    <2>3. ASSUME NEW r \in Receivers, Receive(r)
          PROVE  \E s \in Senders : Box!Take(r, s)
      <3>1. PICK m \in queue[fd[r]] : /\ got' = [got EXCEPT ![r] = m]
                                      /\ queue' = [queue EXCEPT ![fd[r]] = @ \ {m}]
        BY <2>3 DEF Receive
      <3>2. fd[r] \in Procs /\ got[r] = None /\ m \in Senders
        BY <2>0, <2>3, <3>1, ProcsAssumption DEF Receive, Descriptors, TypeOK, Users, Procs
      <3>3. \A q \in Procs : m \in queue[q] => q = fd[r]
        BY <2>0, <3>1, <3>2 DEF Accounted
      <3>4. Pending' = Pending \ {m} /\ m \in Pending
        BY <2>0, <3>1, <3>2, <3>3 DEF Pending, TypeOK
      <3> QED
        BY <3>1, <3>2, <3>4 DEF Box!Take, Pending
    <2>4. ASSUME NEW newName, NEW newFd, Purge(newName, newFd), UNCHANGED got
          PROVE  Box!Drop
      BY <2>4 DEF Purge, Box!Drop
    <2>5. ASSUME NEW p \in Procs, Step(p) PROVE Box!Next \/ UNCHANGED <<Pending, got>>
      <3>1. CASE Open(p) \/ SendInvalid(p) \/ UnlinkFails(p)
        BY <2>1, <3>1 DEF Open, Opens, SendInvalid, UnlinkFails
      <3>2. CASE Close(p) \/ Unlink(p)
        BY <2>4, <3>2 DEF Close, Unlink, Box!Next
      <3>3. CASE p \in Senders /\ Send(p)
        BY <2>2, <3>3 DEF Box!Next
      <3>4. CASE p \in Receivers /\ Receive(p)
        BY <2>3, <3>4 DEF Box!Next
      <3> QED
        BY <2>5, <3>1, <3>2, <3>3, <3>4 DEF Step
    <2>6. ASSUME NEW p \in Users, OpenFails(p) \/ Kill(p)
          PROVE  Box!Next \/ UNCHANGED <<Pending, got>>
      BY <2>1, <2>4, <2>6 DEF OpenFails, Opens, Kill, Box!Next
    <2> QED
      BY <2>1, <2>5, <2>6 DEF Next, vars
  <1> QED
    BY <1>1, <1>2, Invariance, PTL DEF Spec, ImplementsMailbox, Box!Spec, Pending


-------------------------------------------------------------------------------
(***************************************************************************)
(* Who waits for whom.                                                     *)
(***************************************************************************)
\* Of any messages in a queue one comes first, and until the name is removed every
\* message was sent to the queue that has it.
Firsts ==
    \A q \in Procs : \A T \in SUBSET queue[q] :
        T # {} => \E m \in T : \A n \in T \ {m} : Before(m, n)
Homes == ~Removed => \A s \in Senders : home[s] \in {None, name}

LEMMA FirstsStep == ASSUME Inv, Firsts, [Next]_vars PROVE Firsts'
  <1>0. TypeOK /\ Descriptors /\ Accounted /\ Numbered
    BY DEF Inv
  <1>1. ASSUME sent' = sent, \A q \in Procs : queue'[q] \subseteq queue[q]
        PROVE  Firsts'
    BY <1>1 DEF Firsts, Before
  <1>2. ASSUME NEW p \in Procs, Step(p), p \in Senders => ~Send(p)
        PROVE  sent' = sent /\ \A q \in Procs : queue'[q] \subseteq queue[q]
    BY <1>0, <1>2 DEF Step, Open, Opens, Close, SendInvalid, Receive, Unlink, UnlinkFails, Purge, TypeOK
  <1>3. ASSUME NEW p \in Users, OpenFails(p) \/ Kill(p)
        PROVE  sent' = sent /\ \A q \in Procs : queue'[q] \subseteq queue[q]
    BY <1>0, <1>3 DEF OpenFails, Opens, Kill, Purge, TypeOK
  <1>4. ASSUME NEW s \in Senders, Send(s)
        PROVE  Firsts'
    <2>1. /\ sent[s] = 0 /\ fd[s] \in Procs
          /\ sent' = [sent EXCEPT ![s] = Arrivals + 1]
          /\ queue' = [queue EXCEPT ![fd[s]] = @ \union {s}]
      BY <1>0, <1>4 DEF Send, SendWhen, Descriptors, TypeOK, Users, Procs
    <2>2. Arrivals \in Nat
      <3>1. IsFiniteSet({t \in Senders : sent[t] # 0})
        BY FS_Subset, ProcsAssumption
      <3> QED
        BY <3>1, FS_CardinalityType DEF Arrivals
    <2>3. \A q \in Procs : s \notin queue[q] /\ \A n \in queue[q] : n \in Senders
      BY <1>0, <2>1 DEF Accounted, Sent, TypeOK
    <2>4. \A n \in Senders : n # s => sent'[n] = sent[n] /\ sent[n] < sent'[s]
      BY <1>0, <2>1, <2>2 DEF Numbered, TypeOK
    <2>5. \A n \in Senders : Prio(n) \in Nat
      BY ArgAssumption DEF Prio
    <2>6. \A n \in Senders : n # s => Before(n, s)' \/ Before(s, n)'
      BY <1>0, <2>4, <2>5 DEF Before, TypeOK, Prio
    <2>7. \A n, m \in Senders : n # s /\ m # s => (Before(m, n)' <=> Before(m, n))
      BY <2>4 DEF Before, Prio
    <2>8. ASSUME NEW l \in Senders, NEW m \in Senders, NEW n \in Senders, l # s, m = s, n # s,
                 Before(m, l)', Before(l, n)'
          PROVE  Before(m, n)'
      BY <1>0, <2>1, <2>2, <2>4, <2>5, <2>8 DEF Before, TypeOK, Prio
    <2> SUFFICES ASSUME NEW q \in Procs, NEW T \in SUBSET queue'[q], T # {}
                 PROVE  \E m \in T : \A n \in T \ {m} : Before(m, n)'
      BY DEF Firsts
    <2>9. T \subseteq queue[q] \union {s} /\ T \subseteq Senders
      BY <1>0, <2>1, <2>3 DEF TypeOK
    <2>10. CASE T \ {s} = {}
      BY <2>10
    <2>11. CASE T \ {s} # {}
      <3> DEFINE U == T \ {s}
      <3>1. U \in SUBSET queue[q] /\ U # {}
        BY <2>9, <2>11
      <3> HIDE DEF U
      <3>2. PICK l \in U : \A n \in U \ {l} : Before(l, n)
        BY <3>1 DEF Firsts
      <3> USE DEF U
      <3>3. \A n \in (T \ {s}) \ {l} : Before(l, n)'
        BY <2>7, <2>9, <3>2
      <3>4. CASE s \notin T
        BY <3>3, <3>4
      <3>5. CASE s \in T /\ Before(l, s)'
        BY <3>3, <3>5
      <3>6. CASE s \in T /\ Before(s, l)'
        <4>1. \A n \in T \ {s} : Before(s, n)'
          BY <2>8, <2>9, <3>3, <3>6
        <4> QED
          BY <3>6, <4>1
      <3> QED
        BY <2>6, <2>9, <3>4, <3>5, <3>6
    <2> QED
      BY <2>10, <2>11
  <1>5. CASE UNCHANGED vars
    BY <1>1, <1>5 DEF vars
  <1> QED
    BY <1>1, <1>2, <1>3, <1>4, <1>5 DEF Next

LEMMA HomesStep == ASSUME Inv, OneQueue, Homes, [Next]_vars PROVE Homes'
  <1>0. TypeOK /\ Descriptors
    BY DEF Inv
  <1>1. CASE UNCHANGED vars
    BY <1>1 DEF vars, Homes, Removed
  <1>2. CASE \E p \in Removers : Unlink(p)
    BY <1>0, <1>2 DEF Unlink, GoTo, Removed, Homes, TypeOK, Procs
  <1>3. ASSUME NEW p \in Procs,
               \/ p \in Users /\ (Open(p) \/ Close(p) \/ OpenFails(p) \/ Kill(p))
               \/ p \in Senders /\ (Send(p) \/ SendInvalid(p))
               \/ p \in Receivers /\ Receive(p)
               \/ p \in Removers /\ UnlinkFails(p)
        PROVE  Homes'
    <2>1. /\ name' # name => name = None
          /\ \A s \in Senders : home'[s] \in {home[s], fd[s]}
          /\ home' # home => name' = name
      BY <1>0, <1>3 DEF Open, Opens, Close, OpenFails, Kill, Send, SendWhen, SendInvalid,
                        Receive, UnlinkFails, TypeOK, Procs
    <2>2. Removed => Removed'
      <3>1. \E end : pc' = [pc EXCEPT ![p] = end]
        BY <1>3 DEF Open, Opens, Close, OpenFails, Kill, Send, SendInvalid, Receive, UnlinkFails, GoTo
      <3>2. pc[p] # "done"
        BY <1>3 DEF Open, Opens, Close, OpenFails, Kill, Send, SendWhen, SendInvalid,
                    Receive, UnlinkFails
      <3> QED
        BY <1>0, <3>1, <3>2 DEF TypeOK, Removed, Procs
    <2>3. CASE ~Removed'
      <3>1. \A s \in Senders : home[s] \in {None, name} /\ fd[s] \in {None, name}
        BY <2>2, <2>3 DEF Homes, OneQueue, Removed, Users
      <3> QED
        BY <2>1, <3>1 DEF Homes
    <2> QED
      BY <2>3 DEF Homes
  <1> QED
    BY <1>1, <1>2, <1>3 DEF Next, Step, Procs

\* What a user can do next: every call but a receive from an empty queue and a
\* send to a full one.
CanStep(p) ==
    \/ pc[p] \in {"open", "close", "abort"}
    \/ pc[p] = "receive" /\ queue[fd[p]] # {}
    \/ pc[p] = "send" /\ (Prio(p) >= PrioMax \/ Cardinality(queue[fd[p]]) < MaxMsg)

\* When nobody can go on, everybody is served: what EverybodyServed says.
Quiet == \A p \in Users : ~CanStep(p)
Served == /\ \A r \in Receivers : Ended(r) \/ (Alone(r, Senders) /\ Drained(r))
          /\ \A s \in Senders : Ended(s) \/ Alone(s, Receivers)
QuietMeansServed == Quiet => Served

\* A receiver can take a message from every queue that is not empty.
LEMMA SomeFirst ==
    ASSUME Firsts, NEW q \in Procs, queue[q] # {}
    PROVE  \E m \in queue[q] : IsFirst(m, q)
  BY DEF Firsts, IsFirst

LEMMA Waiting ==
    ASSUME Inv, OneQueue, Homes, Quiet
    PROVE  Served
  <1>0. TypeOK /\ Descriptors /\ Accounted /\ Numbered
    BY DEF Inv
  <1>1. ASSUME NEW p \in Users, ~Ended(p)
        PROVE  /\ fd[p] \in Procs /\ fd[p] # None
               /\ p \in Senders => pc[p] = "send" /\ queue[fd[p]] # {}
               /\ p \in Receivers => pc[p] = "receive" /\ queue[fd[p]] = {}
    <2>1. p \in Procs /\ ~CanStep(p)
      BY <1>1 DEF Quiet, Procs
    <2>2. pc[p] \in {"send", "receive"}
      BY <1>0, <1>1, <2>1 DEF CanStep, Ended, Descriptors, TypeOK
    <2>3. fd[p] \in Procs /\ fd[p] # None
      BY <1>0, <1>1, <2>1, <2>2 DEF Descriptors, TypeOK
    <2>4. ASSUME pc[p] = "send", queue[fd[p]] = {} PROVE FALSE
      <3>1. Cardinality(queue[fd[p]]) = 0
        BY <2>4, FS_EmptySet
      <3> QED
        BY <2>1, <2>4, <3>1, LimitAssumption DEF CanStep
    <2>5. pc[p] = "receive" => queue[fd[p]] = {}
      BY <2>1 DEF CanStep
    <2> QED
      BY <1>0, <1>1, <2>2, <2>3, <2>4, <2>5, ProcsAssumption DEF Descriptors
  <1>2. ASSUME NEW s \in Senders, NEW r \in Receivers, ~Ended(s), ~Ended(r)
        PROVE  WillNotCome(s, fd[r]) /\ WillNotCome(r, fd[s])
    <2>1. s \in Users /\ r \in Users
      BY DEF Users
    <2>2. fd[s] # fd[r] /\ fd[s] # None /\ fd[r] # None
      BY <1>1, <1>2, <2>1
    <2>3. Removed
      BY <2>1, <2>2 DEF OneQueue, Removed
    <2> QED
      BY <2>2, <2>3 DEF WillNotCome
  <1>3. ASSUME NEW r \in Receivers, ~Ended(r), ~Removed, NEW s \in Senders, Sent(s)
        PROVE  Received(s)
    <2>1. r \in Users /\ queue[fd[r]] = {} /\ fd[r] \in Procs /\ fd[r] # None
      BY <1>1, <1>3 DEF Users
    <2>2. fd[r] = name /\ home[s] = name /\ home[s] \in Procs
      BY <1>0, <1>3, <2>1, ProcsAssumption DEF OneQueue, Homes, Removed, Numbered
    <2> QED
      BY <1>0, <1>3, <2>1, <2>2 DEF Accounted, Exists
  <1>4. ASSUME NEW r \in Receivers, ~Ended(r) PROVE Alone(r, Senders) /\ Drained(r)
    <2>1. r \in Users /\ queue[fd[r]] = {} /\ fd[r] # None
      BY <1>1, <1>4 DEF Users
    <2>2. \A s \in Senders : WillNotCome(s, fd[r])
      BY <1>2, <1>4 DEF WillNotCome
    <2> QED
      BY <1>3, <1>4, <2>1, <2>2 DEF Alone, Drained
  <1>5. ASSUME NEW s \in Senders, ~Ended(s) PROVE Alone(s, Receivers)
    <2>1. s \in Users /\ fd[s] # None
      BY <1>1, <1>5 DEF Users
    <2>2. \A r \in Receivers : WillNotCome(r, fd[s])
      BY <1>2, <1>5 DEF WillNotCome
    <2> QED
      BY <2>1, <2>2 DEF Alone
  <1> QED
    BY <1>4, <1>5 DEF Served

\* No wake-up is missed: a process is left in mq_send or mq_receive only when
\* nobody is left who could serve it.
THEOREM NobodyForgotten == Spec => [](QuietMeansServed /\ Firsts)
  <1>1. Init => Firsts /\ Homes
    BY DEF Init, Firsts, Homes
  <1>2. Inv /\ Firsts /\ [Next]_vars => Firsts'
    BY FirstsStep
  <1>3. Inv /\ OneQueue /\ Homes /\ [Next]_vars => Homes'
    BY HomesStep
  <1>4. Inv /\ OneQueue /\ Homes => QuietMeansServed
    BY Waiting DEF QuietMeansServed
  <1> QED
    BY <1>1, <1>2, <1>3, <1>4, Invariance, Meeting, PTL DEF Spec

\* The calls a process has before it.
Calls(p) ==
    CASE pc[p] = "open" -> 3
      [] pc[p] \in {"send", "receive"} -> 2
      [] pc[p] \in {"close", "abort", "unlink"} -> 1
      [] OTHER -> 0

UsesUp == \E p \in Procs : /\ Calls(p)' < Calls(p)
                           /\ \A q \in Procs \ {p} : Calls(q)' = Calls(q)

\* Every step is one call of one process, and none is made again: with
\* NobodyForgotten, the processes come to rest and are served then.
THEOREM StepsRunOut == Spec => [][UsesUp]_vars
  <1>1. ASSUME TypeOK, NEW p \in Procs, Step(p) \/ OpenFails(p) \/ Kill(p)
        PROVE  UsesUp
    <2>1. Calls(p)' < Calls(p)
      BY <1>1 DEF Calls, Step, Open, Opens, Close, OpenFails, Kill, Send, SendWhen, SendInvalid,
                  Receive, Unlink, UnlinkFails, GoTo, TypeOK
    <2>2. \A q \in Procs \ {p} : pc'[q] = pc[q]
      BY <1>1 DEF Step, Open, Opens, Close, OpenFails, Kill, Send, SendInvalid,
                  Receive, Unlink, UnlinkFails, GoTo, TypeOK
    <2> QED
      BY <2>1, <2>2 DEF UsesUp, Calls
  <1>2. TypeOK /\ [Next]_vars => [UsesUp]_vars
    BY <1>1 DEF Next, Procs
  <1> QED
    BY <1>2, TypeCorrect, PTL DEF Spec
===============================================================================
