------------------------------ MODULE NamesProofs ------------------------------
(***************************************************************************)
(* Proofs about FileLock, SysvMq and Fifo: any number of processes, runs,  *)
(* faults and messages that fit into the queue; and about their            *)
(* composition in MCNames.                                                 *)
(***************************************************************************)
EXTENDS MCNames, SequenceTheorems, TLAPS

-------------------------------------------------------------------------------
\* The lock.  holders tells where its processes are, which makes ExclusiveAlone
\* inductive.
LockInv == LockTypeOK /\ ExclusiveAlone

LEMMA LockInvInit == LockInit => LockInv
  BY LockAssumption DEF LockInit, LockInv, LockTypeOK, ExclusiveAlone, Inside

LEMMA FlockKeeps == ASSUME LockInv, NEW p \in Lockers, Flock(p) PROVE LockInv'
  <1>0. LockTypeOK /\ ExclusiveAlone /\ Sharers \cap Exclusives = {}
    BY LockAssumption DEF LockInv
  <1>1. /\ lockPc' = [lockPc EXCEPT ![p] = "getc"] /\ holders' = holders \union {p}
        /\ UNCHANGED <<runs, lockFaults>> /\ lockPc[p] = "flock"
    BY DEF Flock, LockGoTo
  <1>2. LockTypeOK'
    BY <1>0, <1>1 DEF LockTypeOK
  <1>3. IF p \in Sharers THEN \A q \in Lockers : Inside(q) => q \in Sharers
                         ELSE \A q \in Lockers : ~Inside(q)
    BY <1>0 DEF Flock, Grants, LockTypeOK, Inside
  <1>4. \A q \in Lockers : Inside(q)' <=> q = p \/ Inside(q)
    BY <1>0, <1>1 DEF LockTypeOK, Inside
  <1>5. ExclusiveAlone'
    BY <1>0, <1>3, <1>4 DEF ExclusiveAlone, Lockers
  <1> QED
    BY <1>2, <1>5 DEF LockInv

\* Every other step leaves the processes where they are or takes one out.
LEMMA OthersKeep ==
    ASSUME LockInv, NEW p \in Lockers,
           OpenLockfile(p) \/ Key(p) \/ Unlock(p) \/ FlockFails(p) \/ LockKill(p)
    PROVE  LockInv'
  <1>0. LockTypeOK /\ ExclusiveAlone /\ MaxRuns \in Nat /\ LockMaxFaults \in Nat
    BY LockAssumption DEF LockInv
  <1>1. LockTypeOK'
    <2>1. CASE OpenLockfile(p)
      BY <1>0, <2>1 DEF OpenLockfile, LockGoTo, LockTypeOK
    <2>2. CASE Key(p)
      BY <1>0, <2>2 DEF Key, LockGoTo, LockTypeOK
    <2>3. CASE Unlock(p)
      BY <1>0, <2>3 DEF Unlock, LockGoTo, LockTypeOK
    <2>4. CASE FlockFails(p)
      BY <1>0, <2>4 DEF FlockFails, LockGoTo, LockTypeOK
    <2>5. CASE LockKill(p)
      BY <1>0, <2>5 DEF LockKill, LockGoTo, LockTypeOK
    <2> QED
      BY <2>1, <2>2, <2>3, <2>4, <2>5
  <1>2. \A q \in Lockers : Inside(q)' => Inside(q)
    BY <1>0 DEF OpenLockfile, Key, Unlock, FlockFails, LockKill, LockGoTo, LockTypeOK, Inside
  <1>3. ExclusiveAlone'
    BY <1>0, <1>2 DEF ExclusiveAlone, Lockers
  <1> QED
    BY <1>1, <1>3 DEF LockInv

LEMMA LockInvNext == LockInv /\ [LockNext]_lockVars => LockInv'
  <1>1. LockInv /\ UNCHANGED lockVars => LockInv'
    BY DEF LockInv, LockTypeOK, ExclusiveAlone, Inside, lockVars
  <1>2. LockInv /\ LockNext => LockInv'
    BY FlockKeeps, OthersKeep DEF LockNext, LockStep
  <1> QED
    BY <1>1, <1>2

\* What every reachable state of FileLock satisfies.
THEOREM LockInvariant == LockSpec => []LockInv
  BY LockInvInit, LockInvNext, PTL DEF LockSpec

\* The kernel's record of the lock and the processes that are between their two
\* calls of flock() agree.
THEOREM LockTypeCorrect == LockSpec => []LockTypeOK
  <1>1. LockInv => LockTypeOK
    BY DEF LockInv
  <1> QED
    BY <1>1, LockInvariant, PTL

\* Whoever has LOCK_EX is alone with the file, for any number of processes, runs
\* and kills.
THEOREM LockIsExclusive == LockSpec => []ExclusiveAlone
  <1>1. LockInv => ExclusiveAlone
    BY DEF LockInv
  <1> QED
    BY <1>1, LockInvariant, PTL

-------------------------------------------------------------------------------
\* The queue.  A sender that is done has sent its message, no message is in the
\* queue twice, and a receiver that has one is done.
Sent(s) == s \in MqSenders /\ mqPc[s] = "done"
OnceEach ==
    /\ \A i \in 1..Len(queue) : Sent(queue[i])
    /\ \A i, j \in 1..Len(queue) : queue[i] = queue[j] => i = j
    /\ \A r \in MqReceivers : mqGot[r] # NoMsg => mqPc[r] = "done" /\ Sent(mqGot[r])
    /\ \A p \in MqProcs :
          /\ mqPc[p] = "msgsnd" => p \in MqSenders
          /\ mqPc[p] = "msgrcv" => p \in MqReceivers
MqInv == MqTypeOK /\ OnceEach /\ NothingLost

LEMMA MqInvInit == MqInit => MqInv
  <1> SUFFICES ASSUME MqInit PROVE MqInv
    OBVIOUS
  <1>1. queue = <<>> /\ arrived = <<>> /\ taken = <<>> /\ Len(queue) = 0
    BY DEF MqInit
  <1>2. MqTypeOK
    <2>1. <<>> \in Seq(MqSenders) /\ MqRoom \in Nat /\ MqMaxFaults \in Nat /\ 0 \in 0..MqMaxFaults
      BY MqAssumption
    <2>2. mqPc \in [MqProcs -> {"msgget", "msgsnd", "msgrcv", "done", "failed", "killed"}]
      BY DEF MqInit
    <2>3. mqGot \in [MqReceivers -> MqSenders \union {NoMsg}] /\ made \in BOOLEAN /\ mqFaults = 0
      BY DEF MqInit
    <2> QED
      BY <1>1, <2>1, <2>2, <2>3 DEF MqTypeOK
  <1>3. OnceEach
    BY <1>1 DEF MqInit, OnceEach
  <1>4. NothingLost
    BY <1>1 DEF NothingLost
  <1> QED
    BY <1>2, <1>3, <1>4 DEF MqInv

\* msgget(), a failure and a kill touch nobody's message.
LEMMA CallsKeep ==
    ASSUME MqInv, NEW p \in MqProcs, Msgget(p) \/ MsggetFails(p) \/ MqKill(p)
    PROVE  MqInv' /\ UNCHANGED <<Waiting, mqGot>>
  <1>0. MqTypeOK /\ OnceEach /\ NothingLost /\ MqMaxFaults \in Nat
    BY MqAssumption DEF MqInv
  <1>1. /\ UNCHANGED <<queue, mqGot, arrived, taken>> /\ mqPc[p] # "done"
        /\ made' \in BOOLEAN /\ mqFaults' \in 0..MqMaxFaults
        /\ \E call \in {"msgsnd", "msgrcv", "failed", "killed"} :
              /\ mqPc' = [mqPc EXCEPT ![p] = call]
              /\ call = "msgsnd" => p \in MqSenders
              /\ call = "msgrcv" => p \notin MqSenders
    <2>1. CASE Msgget(p)
      BY <1>0, <2>1 DEF Msgget, MqGoTo, MqTypeOK
    <2>2. CASE MsggetFails(p)
      BY <1>0, <2>2 DEF MsggetFails, MqGoTo, MqTypeOK
    <2>3. CASE MqKill(p)
      BY <1>0, <2>3 DEF MqKill, MqGoTo, MqEnded, MqTypeOK
    <2> QED
      BY <2>1, <2>2, <2>3
  <1>2. MqTypeOK'
    BY <1>0, <1>1 DEF MqTypeOK
  <1>3. OnceEach'
    BY <1>0, <1>1 DEF OnceEach, MqTypeOK, Sent, MqProcs
  <1>4. NothingLost' /\ UNCHANGED Waiting
    BY <1>0, <1>1 DEF NothingLost, Waiting
  <1> QED
    BY <1>1, <1>2, <1>3, <1>4 DEF MqInv

LEMMA MsgsndKeeps ==
    ASSUME MqInv, NEW s \in MqSenders, Msgsnd(s)
    PROVE  MqInv' /\ MqBox!Put(s)
  <1>0. MqTypeOK /\ OnceEach /\ NothingLost /\ MqSenders \cap MqReceivers = {}
        /\ NoMsg \notin MqSenders /\ MqRoom \in Nat
    BY MqAssumption DEF MqInv
  <1>1. /\ queue' = Append(queue, s) /\ arrived' = Append(arrived, s)
        /\ mqPc[s] = "msgsnd" /\ mqPc' = [mqPc EXCEPT ![s] = "done"]
        /\ UNCHANGED <<made, mqGot, taken, mqFaults>> /\ Len(queue) < MqRoom
    BY DEF Msgsnd, MqGoTo
  <1>2. /\ queue' \in Seq(MqSenders) /\ Len(queue') = Len(queue) + 1
        /\ \A i \in 1..Len(queue) : queue'[i] = queue[i]
        /\ queue'[Len(queue) + 1] = s
        /\ Len(queue) \in Nat /\ queue \in Seq(MqSenders) /\ taken \in Seq(MqSenders)
    BY <1>0, <1>1, AppendProperties DEF MqTypeOK
  <1>3. MqTypeOK'
    <2>1. mqPc' \in [MqProcs -> {"msgget", "msgsnd", "msgrcv", "done", "failed", "killed"}]
      BY <1>0, <1>1 DEF MqTypeOK
    <2>2. arrived' \in Seq(MqSenders)
      BY <1>0, <1>1, AppendProperties DEF MqTypeOK
    <2>3. Len(queue') <= MqRoom
      BY <1>0, <1>1, <1>2
    <2> QED
      BY <1>0, <1>1, <1>2, <2>1, <2>2, <2>3 DEF MqTypeOK
  <1>4. ~Sent(s) /\ Sent(s)' /\ \A q \in MqSenders \ {s} : Sent(q)' <=> Sent(q)
    BY <1>0, <1>1 DEF Sent, MqTypeOK, MqProcs
  <1>5. OnceEach'
    <2>1. \A i \in 1..Len(queue') : queue'[i] \in MqSenders /\ mqPc'[queue'[i]] = "done"
      BY <1>0, <1>2, <1>4 DEF OnceEach, Sent
    <2>2. \A i, j \in 1..Len(queue') : queue'[i] = queue'[j] => i = j
      BY <1>0, <1>2, <1>4 DEF OnceEach
    <2>3. \A r \in MqReceivers : mqGot'[r] # NoMsg => mqPc'[r] = "done" /\ mqGot'[r] \in MqSenders
                                                  /\ mqPc'[mqGot'[r]] = "done"
      BY <1>0, <1>1, <1>4 DEF OnceEach, Sent, MqTypeOK, MqProcs
    <2>4. \A p \in MqProcs : mqPc'[p] \in {mqPc[p], "done"}
      BY <1>0, <1>1 DEF MqTypeOK
    <2>5. \A p \in MqProcs : /\ mqPc'[p] = "msgsnd" => p \in MqSenders
                             /\ mqPc'[p] = "msgrcv" => p \in MqReceivers
      BY <1>0, <2>4 DEF OnceEach
    <2> QED
      BY <2>1, <2>2, <2>3, <2>5 DEF OnceEach, Sent
  <1>6. NothingLost'
    <2>1. arrived' = Append(taken \o queue, s) /\ taken \o Append(queue, s) = Append(taken \o queue, s)
      BY <1>0, <1>1, <1>2, AppendIsConcat, ConcatAssociative, ConcatProperties DEF NothingLost
    <2> QED
      BY <1>1, <2>1 DEF NothingLost
  <1>7. MqBox!Put(s)
    <2>1. Waiting = {queue[i] : i \in 1..Len(queue)} /\ Waiting' = {queue'[i] : i \in 1..Len(queue')}
      BY <1>2, LenProperties DEF Waiting
    <2>2. s \notin Waiting /\ \A r \in MqReceivers : mqGot[r] # s
      BY <1>0, <1>4, <2>1 DEF OnceEach
    <2>3. Waiting' = Waiting \union {s}
      <3>1. 1..Len(queue') = (1..Len(queue)) \union {Len(queue) + 1}
        BY <1>2
      <3> QED
        BY <1>2, <2>1, <3>1
    <2> QED
      BY <1>1, <2>2, <2>3 DEF MqBox!Put
  <1> QED
    BY <1>3, <1>5, <1>6, <1>7 DEF MqInv

LEMMA MsgrcvKeeps ==
    ASSUME MqInv, NEW r \in MqReceivers, Msgrcv(r)
    PROVE  MqInv' /\ MqBox!Take(r, Head(queue)) /\ Head(queue) \in MqSenders
  <1>0. MqTypeOK /\ OnceEach /\ NothingLost /\ MqSenders \cap MqReceivers = {}
        /\ NoMsg \notin MqSenders /\ MqRoom \in Nat
    BY MqAssumption DEF MqInv
  <1>1. /\ queue # <<>> /\ queue' = Tail(queue) /\ taken' = Append(taken, Head(queue))
        /\ mqGot' = [mqGot EXCEPT ![r] = Head(queue)]
        /\ mqPc[r] = "msgrcv" /\ mqPc' = [mqPc EXCEPT ![r] = "done"]
        /\ UNCHANGED <<made, arrived, mqFaults>>
    BY DEF Msgrcv, MqGoTo
  <1>2. /\ queue' \in Seq(MqSenders) /\ Len(queue') = Len(queue) - 1
        /\ \A i \in 1..Len(queue') : queue'[i] = queue[i + 1]
        /\ Head(queue) = queue[1] /\ queue[1] \in MqSenders
        /\ Len(queue) \in Nat \ {0} /\ queue \in Seq(MqSenders) /\ taken \in Seq(MqSenders)
    BY <1>0, <1>1, HeadTailProperties, EmptySeq DEF MqTypeOK
  <1>3. MqTypeOK'
    <2>1. mqPc' \in [MqProcs -> {"msgget", "msgsnd", "msgrcv", "done", "failed", "killed"}]
      BY <1>0, <1>1 DEF MqTypeOK
    <2>2. taken' \in Seq(MqSenders)
      BY <1>1, <1>2, AppendProperties
    <2>3. Len(queue') <= MqRoom
      BY <1>0, <1>2 DEF MqTypeOK
    <2>4. mqGot' \in [MqReceivers -> MqSenders \union {NoMsg}]
      BY <1>0, <1>1, <1>2 DEF MqTypeOK
    <2> QED
      BY <1>0, <1>1, <1>2, <2>1, <2>2, <2>3, <2>4 DEF MqTypeOK
  <1>4. \A q \in MqSenders : Sent(q)' <=> Sent(q)
    BY <1>0, <1>1 DEF Sent, MqTypeOK, MqProcs
  <1>5. OnceEach'
    <2>1. \A i \in 1..Len(queue') : queue'[i] \in MqSenders /\ mqPc'[queue'[i]] = "done"
      <3>1. \A i \in 1..Len(queue') : i + 1 \in 1..Len(queue)
        BY <1>2
      <3>2. \A i \in 1..Len(queue') : Sent(queue[i + 1])
        BY <1>0, <3>1 DEF OnceEach
      <3> QED
        BY <1>2, <1>4, <3>2 DEF Sent
    <2>2. \A i, j \in 1..Len(queue') : queue'[i] = queue'[j] => i = j
      BY <1>0, <1>2 DEF OnceEach
    <2>3. \A q \in MqReceivers : mqGot'[q] # NoMsg => mqPc'[q] = "done" /\ mqGot'[q] \in MqSenders
                                                  /\ mqPc'[mqGot'[q]] = "done"
      BY <1>0, <1>1, <1>2, <1>4 DEF OnceEach, Sent, MqTypeOK, MqProcs
    <2>4. \A p \in MqProcs : mqPc'[p] \in {mqPc[p], "done"}
      BY <1>0, <1>1 DEF MqTypeOK
    <2>5. \A p \in MqProcs : /\ mqPc'[p] = "msgsnd" => p \in MqSenders
                             /\ mqPc'[p] = "msgrcv" => p \in MqReceivers
      BY <1>0, <2>4 DEF OnceEach
    <2> QED
      BY <2>1, <2>2, <2>3, <2>5 DEF OnceEach, Sent
  <1>6. NothingLost'
    <2>1. queue = <<Head(queue)>> \o Tail(queue)
      BY <1>1, <1>2, SeqEqual, ConcatProperties, HeadTailProperties
    <2>2. Append(taken, Head(queue)) = taken \o <<Head(queue)>>
      BY <1>2, AppendIsConcat
    <2>3. <<Head(queue)>> \in Seq(MqSenders) /\ Tail(queue) \in Seq(MqSenders)
      BY <1>1, <1>2
    <2>4. taken \o (<<Head(queue)>> \o Tail(queue)) = (taken \o <<Head(queue)>>) \o Tail(queue)
      <3>1. \A s, t, u \in Seq(MqSenders) : (s \o t) \o u = s \o (t \o u)
        BY ConcatAssociative
      <3> QED
        BY <1>2, <2>3, <3>1
    <2> QED
      BY <1>0, <1>1, <2>1, <2>2, <2>4 DEF NothingLost
  <1>7. MqBox!Take(r, Head(queue))
    <2>1. Waiting = {queue[i] : i \in 1..Len(queue)} /\ Waiting' = {queue'[i] : i \in 1..Len(queue')}
      BY <1>2, LenProperties DEF Waiting
    <2>2. Head(queue) \in Waiting
      BY <1>2, <2>1
    <2>3. mqGot[r] = NoMsg
      BY <1>0, <1>1 DEF OnceEach
    <2>4. Waiting' = Waiting \ {Head(queue)}
      <3>1. ASSUME NEW m \in Waiting' PROVE m \in Waiting \ {Head(queue)}
        <4>1. PICK i \in 1..Len(queue') : m = queue'[i]
          BY <2>1, <3>1
        <4>2. i + 1 \in 1..Len(queue) /\ i + 1 # 1 /\ 1 \in 1..Len(queue) /\ m = queue[i + 1]
          BY <1>2, <4>1
        <4> QED
          BY <1>0, <1>2, <2>1, <4>2 DEF OnceEach
      <3>2. ASSUME NEW m \in Waiting, m # Head(queue) PROVE m \in Waiting'
        <4>1. PICK i \in 1..Len(queue) : m = queue[i]
          BY <2>1, <3>2
        <4>2. i # 1 /\ i - 1 \in 1..Len(queue') /\ queue'[i - 1] = queue[i]
          BY <1>2, <3>2, <4>1
        <4> QED
          BY <2>1, <4>1, <4>2
      <3> QED
        BY <3>1, <3>2
    <2> QED
      BY <1>1, <2>2, <2>3, <2>4 DEF MqBox!Take
  <1> QED
    BY <1>2, <1>3, <1>5, <1>6, <1>7 DEF MqInv

\* Every step keeps the invariant and is a step, or a stutter, of the mailbox.
LEMMA MqInvNext ==
    MqInv /\ [MqNext]_mqVars => MqInv' /\ [MqBox!Next]_<<Waiting, mqGot>>
  <1> SUFFICES ASSUME MqInv, [MqNext]_mqVars PROVE MqInv' /\ [MqBox!Next]_<<Waiting, mqGot>>
    OBVIOUS
  <1>1. CASE UNCHANGED mqVars
    <2>1. <<Waiting, mqGot>>' = <<Waiting, mqGot>>
      BY <1>1 DEF mqVars, Waiting
    <2>2. MqTypeOK' /\ NothingLost'
      BY <1>1 DEF mqVars, MqInv, MqTypeOK, NothingLost
    <2>3. OnceEach'
      BY <1>1 DEF mqVars, MqInv, OnceEach, Sent
    <2> QED
      BY <2>1, <2>2, <2>3 DEF MqInv
  <1>2. CASE MqNext
    <2>1. PICK p \in MqProcs : MqStep(p) \/ MsggetFails(p) \/ MqKill(p)
      BY <1>2 DEF MqNext
    <2>2. CASE Msgget(p) \/ MsggetFails(p) \/ MqKill(p)
      BY <2>2, CallsKeep
    <2>3. CASE p \in MqSenders /\ Msgsnd(p)
      BY <2>3, MsgsndKeeps DEF MqBox!Next
    <2>4. CASE p \in MqReceivers /\ Msgrcv(p)
      BY <2>4, MsgrcvKeeps DEF MqBox!Next
    <2> QED
      BY <2>1, <2>2, <2>3, <2>4 DEF MqStep
  <1> QED
    BY <1>1, <1>2

\* What every reachable state of SysvMq satisfies.
THEOREM MqInvariant == MqSpec => []MqInv
  BY MqInvInit, MqInvNext, PTL DEF MqSpec

\* Every variable of SysvMq keeps its type: no queue has more than its room.
THEOREM MqTypeCorrect == MqSpec => []MqTypeOK
  <1>1. MqInv => MqTypeOK
    BY DEF MqInv
  <1> QED
    BY <1>1, MqInvariant, PTL

\* Messages come out in the order they went in, across all runs.
THEOREM NoMessageLost == MqSpec => []NothingLost
  <1>1. MqInv => NothingLost
    BY DEF MqInv
  <1> QED
    BY <1>1, MqInvariant, PTL

\* The queue of 3_mq_sysv.c implements Mailbox: a message is received once at
\* most, after it was sent, and waits until then.
THEOREM SysvMqIsMailbox == MqSpec => MqImplementsMailbox
  <1>1. MqInit => MqBox!Init
    <2> SUFFICES ASSUME MqInit PROVE MqBox!Init
      OBVIOUS
    <2>1. queue = <<>> /\ Len(queue) = 0 /\ Waiting = {queue[i] : i \in 1..Len(queue)}
      BY DEF MqInit, Waiting
    <2> QED
      BY <2>1 DEF MqInit, MqBox!Init
  <1> QED
    BY <1>1, MqInvNext, MqInvariant, PTL DEF MqSpec, MqImplementsMailbox, MqBox!Spec
-------------------------------------------------------------------------------
\* The FIFO.  What each process has open, and that FIFOs are made by writers.
Opened ==
    /\ \A p \in FifoProcs :
          /\ fifoFd[p] # NoFifo <=> fifoPc[p] \in {"wait", "write", "read", "close"}
          /\ fifoPc[p] \in {"unlink", "mkfifo", "write"} => p \in FifoWriters
          /\ fifoPc[p] = "read" => p \in FifoReaders
          /\ fifoFd[p] # NoFifo => fifoPc[fifoFd[p]] \notin {"unlink", "mkfifo"}
    /\ path # NoFifo => fifoPc[path] \notin {"unlink", "mkfifo"}

\* A writer without a rival is the only one that is active, and the path is its own.
Alone(w) ==
    /\ fifoPc[w] \notin {"unlink", "failed"}
    /\ ~FifoEnded(w) =>
          /\ \A v \in FifoWriters \ {w} : fifoPc[v] = "unlink" \/ FifoEnded(v)
          /\ path = IF fifoPc[w] = "mkfifo" THEN NoFifo ELSE w
NoRival == \A w \in solo : Alone(w)

\* As long as nobody is killed and no reader has a message, every message is in a
\* FIFO that a reader has open, and nobody finds an end of file.
Quiet == fifoKills = 0 /\ \A r \in FifoReaders : fifoGot[r] = {}
Kept ==
    /\ \A r \in FifoReaders : fifoPc[r] \in {"open", "wait", "read"} => fifoGot[r] = {}
    /\ Quiet =>
          /\ \A r \in FifoReaders : fifoPc[r] \notin {"close", "done"}
          /\ \A w \in wrote : \E r \in FifoReaders : fifoFd[r] # NoFifo /\ w \in data[fifoFd[r]]
          /\ \A r \in FifoReaders : fifoPc[r] = "read" =>
                \/ data[fifoFd[r]] # {}
                \/ \E w \in FifoWriters : fifoFd[w] = fifoFd[r]
          /\ \A w \in FifoWriters : fifoPc[w] = "close" => data[fifoFd[w]] # {}

FifoInv == FifoTypeOK /\ Opened /\ NoRival /\ Kept

LEMMA FifoInvInit == FifoInit => FifoInv
  <1> SUFFICES ASSUME FifoInit PROVE FifoInv
    OBVIOUS
  <1>1. FifoTypeOK
    BY FifoAssumption DEF FifoInit, FifoTypeOK
  <1>2. Opened /\ NoRival
    BY FifoAssumption DEF FifoInit, Opened, NoRival, FifoProcs
  <1>3. Kept
    BY FifoAssumption DEF FifoInit, Kept, FifoProcs
  <1> QED
    BY <1>1, <1>2, <1>3 DEF FifoInv

\* The writer's first two calls, and all that fails: no descriptor changes.
LEMMA UnlinkKeeps == ASSUME FifoInv, NEW w \in FifoWriters, Unlink(w) PROVE FifoInv'
  <1>0. /\ FifoTypeOK /\ Opened /\ NoRival /\ Kept /\ w \in FifoProcs
        /\ FifoWriters \cap FifoReaders = {} /\ NoFifo \notin FifoProcs
    BY FifoAssumption DEF FifoInv, FifoProcs
  <1>1. /\ fifoPc[w] = "unlink" /\ fifoPc' = [fifoPc EXCEPT ![w] = "mkfifo"] /\ path' = NoFifo
        /\ UNCHANGED <<fifoFd, data, wrote, fifoGot, fifoKills>>
        /\ solo' \subseteq solo \union {w}
        /\ \A v \in solo' : v = w \/ v \notin Active
        /\ w \in solo' => Active = {} \/ w \in solo
    BY <1>0 DEF Unlink, FifoGoTo
  <1>2. FifoTypeOK'
    BY <1>0, <1>1 DEF FifoTypeOK
  <1>3. Opened'
    BY <1>0, <1>1 DEF Opened, FifoTypeOK, FifoProcs
  <1>4. NoRival'
    <2>1. w \notin solo
      BY <1>0, <1>1 DEF NoRival, Alone
    <2>2. ASSUME NEW v \in solo', v # w PROVE Alone(v)'
      <3>1. v \in solo /\ v \in FifoWriters /\ fifoPc'[v] = fifoPc[v] /\ fifoPc[v] # "unlink"
        BY <1>0, <1>1, <2>2 DEF NoRival, Alone, FifoTypeOK, FifoProcs
      <3>2. FifoEnded(v) /\ FifoEnded(v)'
        BY <1>1, <2>2, <3>1 DEF Active, FifoEnded
      <3> QED
        BY <1>0, <3>1, <3>2 DEF NoRival, Alone
    <2>3. ASSUME w \in solo' PROVE Alone(w)'
      <3>1. fifoPc'[w] = "mkfifo" /\ \A v \in FifoWriters \ {w} : fifoPc'[v] = fifoPc[v]
        BY <1>0, <1>1 DEF FifoTypeOK, FifoProcs
      <3>2. \A v \in FifoWriters : fifoPc[v] = "unlink" \/ FifoEnded(v)
        BY <1>1, <2>1, <2>3 DEF Active
      <3> QED
        BY <1>1, <3>1, <3>2 DEF Alone, FifoEnded
    <2> QED
      BY <2>2, <2>3 DEF NoRival
  <1>5. Kept'
    BY <1>0, <1>1 DEF Kept, Quiet, FifoTypeOK, FifoProcs
  <1> QED
    BY <1>2, <1>3, <1>4, <1>5 DEF FifoInv

LEMMA MkfifoKeeps ==
    ASSUME FifoInv, NEW p \in FifoProcs,
           \/ p \in FifoWriters /\ (Mkfifo(p) \/ MkfifoFails(p))
           \/ FifoOpenFails(p)
    PROVE  FifoInv'
  <1>0. /\ FifoTypeOK /\ Opened /\ NoRival /\ Kept
        /\ FifoWriters \cap FifoReaders = {} /\ NoFifo \notin FifoProcs
    BY FifoAssumption DEF FifoInv
  <1>1. /\ UNCHANGED <<fifoFd, data, solo, wrote, fifoGot, fifoKills>>
        /\ \/ /\ p \in FifoWriters /\ fifoPc[p] = "mkfifo" /\ path = NoFifo
              /\ path' = p /\ fifoPc' = [fifoPc EXCEPT ![p] = "open"]
           \/ /\ \/ fifoPc[p] = "mkfifo" /\ path # NoFifo
                 \/ fifoPc[p] = "open" /\ path = NoFifo
              /\ path' = path /\ fifoPc' = [fifoPc EXCEPT ![p] = "failed"]
    BY DEF Mkfifo, MkfifoFails, FifoOpenFails, FifoGoTo
  <1>2. FifoTypeOK'
    BY <1>0, <1>1 DEF FifoTypeOK
  <1>3. Opened'
    BY <1>0, <1>1 DEF Opened, FifoTypeOK, FifoProcs
  <1>4. NoRival'
    <2> SUFFICES ASSUME NEW v \in solo PROVE Alone(v)'
      BY <1>1 DEF NoRival
    <2>1. v \in FifoWriters /\ Alone(v) /\ v \in FifoProcs
      BY <1>0 DEF NoRival, FifoTypeOK, FifoProcs
    <2>2. CASE v = p
      BY <1>0, <1>1, <2>1, <2>2 DEF Alone, FifoTypeOK, FifoEnded, FifoProcs
    <2>3. CASE v # p
      BY <1>0, <1>1, <2>1, <2>3 DEF Alone, FifoTypeOK, FifoEnded, FifoProcs
    <2> QED
      BY <2>2, <2>3
  <1>5. Kept'
    BY <1>0, <1>1 DEF Kept, Quiet, FifoTypeOK, FifoProcs
  <1> QED
    BY <1>2, <1>3, <1>4, <1>5 DEF FifoInv

\* open() meets whoever has the other end, and those were waiting or are further.
LEMMA FifoOpenKeeps == ASSUME FifoInv, NEW p \in FifoProcs, FifoOpen(p) PROVE FifoInv'
  <1>0. /\ FifoTypeOK /\ Opened /\ NoRival /\ Kept
        /\ FifoWriters \cap FifoReaders = {} /\ NoFifo \notin FifoProcs
    BY FifoAssumption DEF FifoInv
  <1> DEFINE met == Partners(p, path)
             woken == {q \in met : fifoPc[q] = "wait"}
  <1>1. /\ fifoPc[p] = "open" /\ path # NoFifo /\ fifoFd' = [fifoFd EXCEPT ![p] = path]
        /\ fifoPc' = [q \in FifoProcs |->
                         IF q = p THEN IF met = {} THEN "wait" ELSE Transfer(p)
                         ELSE IF q \in woken THEN Transfer(q) ELSE fifoPc[q]]
        /\ UNCHANGED <<path, data, solo, wrote, fifoGot, fifoKills>>
    BY DEF FifoOpen
  <1>2. /\ p \notin met /\ met \subseteq FifoProcs /\ fifoFd[p] = NoFifo
        /\ \A q \in met : fifoFd[q] = path /\ (p \in FifoWriters <=> q \in FifoReaders)
                          /\ (p \in FifoReaders <=> q \in FifoWriters)
        /\ \A q \in FifoProcs : (Transfer(q) = "write" /\ q \in FifoWriters)
                             \/ (Transfer(q) = "read" /\ q \in FifoReaders)
    BY <1>0, <1>1 DEF Partners, Across, FifoProcs, Opened, Transfer
  <1>3. \A q \in FifoProcs :
           /\ fifoPc'[q] \in {fifoPc[q], "wait", "write", "read"}
           /\ fifoPc'[q] # fifoPc[q] => q = p \/ fifoPc[q] = "wait"
    BY <1>1, <1>2
  <1>4. FifoTypeOK'
    <2>1. fifoFd' \in [FifoProcs -> FifoWriters \union {NoFifo}]
      BY <1>0, <1>1 DEF FifoTypeOK
    <2>2. fifoPc' \in [FifoProcs -> {"unlink", "mkfifo", "open", "wait", "write", "read",
                                     "close", "done", "failed", "sigpipe", "killed"}]
      BY <1>0, <1>1, <1>2 DEF FifoTypeOK
    <2> QED
      BY <1>0, <1>1, <2>1, <2>2 DEF FifoTypeOK
  <1>5. Opened'
    <2>1. \A q \in FifoProcs : fifoFd'[q] = IF q = p THEN path ELSE fifoFd[q]
      BY <1>0, <1>1 DEF FifoTypeOK
    <2>2. \A q \in FifoProcs : fifoFd'[q] # NoFifo <=> fifoPc'[q] \in {"wait", "write", "read", "close"}
      BY <1>0, <1>1, <1>2, <1>3, <2>1 DEF Opened
    <2>3. \A q \in FifoProcs : /\ fifoPc'[q] \in {"unlink", "mkfifo", "write"} => q \in FifoWriters
                               /\ fifoPc'[q] = "read" => q \in FifoReaders
      BY <1>0, <1>1, <1>2, <1>3 DEF Opened
    <2>4. \A f \in FifoWriters : fifoPc[f] \notin {"unlink", "mkfifo"}
                                    => fifoPc'[f] \notin {"unlink", "mkfifo"}
      BY <1>3 DEF FifoProcs
    <2>5. \A q \in FifoProcs : fifoFd'[q] # NoFifo => fifoPc'[fifoFd'[q]] \notin {"unlink", "mkfifo"}
      BY <1>0, <1>1, <2>1, <2>4 DEF Opened, FifoTypeOK
    <2>6. fifoPc'[path] \notin {"unlink", "mkfifo"}
      BY <1>0, <1>1, <2>4 DEF Opened, FifoTypeOK
    <2> QED
      BY <1>1, <2>2, <2>3, <2>5, <2>6 DEF Opened
  <1>6. NoRival'
    <2> SUFFICES ASSUME NEW v \in solo PROVE Alone(v)'
      BY <1>1 DEF NoRival
    <2>1. v \in FifoWriters /\ Alone(v) /\ \A u \in FifoWriters : u \in FifoProcs
      BY <1>0 DEF NoRival, FifoTypeOK, FifoProcs
    <2>2. \A u \in FifoWriters : /\ FifoEnded(u)' <=> FifoEnded(u)
                                 /\ fifoPc'[u] = "unlink" <=> fifoPc[u] = "unlink"
                                 /\ fifoPc'[u] = "mkfifo" <=> fifoPc[u] = "mkfifo"
                                 /\ fifoPc'[u] = "failed" <=> fifoPc[u] = "failed"
      BY <1>1, <1>3, <2>1 DEF FifoEnded
    <2> QED
      BY <1>1, <2>1, <2>2 DEF Alone
  <1>7. Kept'
    <2>1. \A q \in FifoProcs : fifoFd'[q] = IF q = p THEN path ELSE fifoFd[q]
      BY <1>0, <1>1 DEF FifoTypeOK
    <2>2. \A r \in FifoReaders : r \in FifoProcs
      BY DEF FifoProcs
    <2>3. \A r \in FifoReaders : fifoPc'[r] \in {"open", "wait", "read"} => fifoGot'[r] = {}
      BY <1>0, <1>1, <1>3, <2>2 DEF Kept
    <2> SUFFICES ASSUME Quiet
                 PROVE  /\ \A r \in FifoReaders : fifoPc'[r] \notin {"close", "done"}
                        /\ \A w \in wrote : \E r \in FifoReaders :
                              fifoFd'[r] # NoFifo /\ w \in data[fifoFd'[r]]
                        /\ \A r \in FifoReaders : fifoPc'[r] = "read" =>
                              \/ data[fifoFd'[r]] # {}
                              \/ \E w \in FifoWriters : fifoFd'[w] = fifoFd'[r]
                        /\ \A w \in FifoWriters : fifoPc'[w] = "close" => data[fifoFd'[w]] # {}
      BY <1>1, <2>3 DEF Kept, Quiet
    <2>4. \A r \in FifoReaders : fifoPc'[r] \notin {"close", "done"}
      BY <1>0, <1>3, <2>2 DEF Kept
    <2>5. \A w \in wrote : \E r \in FifoReaders : fifoFd'[r] # NoFifo /\ w \in data[fifoFd'[r]]
      BY <1>0, <1>2, <2>1, <2>2 DEF Kept
    <2>6. ASSUME NEW r \in FifoReaders, fifoPc'[r] = "read"
          PROVE  data[fifoFd'[r]] # {} \/ \E w \in FifoWriters : fifoFd'[w] = fifoFd'[r]
      <3>1. CASE r = p
        <4>1. PICK q \in met : TRUE
          BY <1>1, <2>2, <2>6, <3>1
        <4> QED
          BY <1>2, <2>1, <2>2, <3>1, <4>1
      <3>2. CASE r # p /\ r \in woken
        BY <1>0, <1>1, <1>2, <2>1, <2>2, <3>2 DEF FifoProcs
      <3>3. CASE r # p /\ r \notin woken
        <4>1. fifoPc[r] = "read" /\ fifoFd'[r] = fifoFd[r] /\ fifoFd[r] # NoFifo
          BY <1>0, <1>1, <2>1, <2>2, <2>6, <3>3 DEF Opened
        <4>2. data[fifoFd[r]] # {} \/ \E w \in FifoWriters : fifoFd[w] = fifoFd[r]
          BY <1>0, <4>1 DEF Kept
        <4> QED
          BY <1>2, <2>1, <4>1, <4>2 DEF FifoProcs
      <3> QED
        BY <3>1, <3>2, <3>3
    <2>7. ASSUME NEW w \in FifoWriters, fifoPc'[w] = "close" PROVE data[fifoFd'[w]] # {}
      <3>1. w \in FifoProcs
        BY DEF FifoProcs
      <3>2. fifoPc[w] = "close" /\ w # p
        BY <1>1, <1>3, <2>7, <3>1
      <3> QED
        BY <1>0, <2>1, <3>1, <3>2 DEF Kept
    <2> QED
      BY <2>4, <2>5, <2>6, <2>7
  <1> QED
    BY <1>4, <1>5, <1>6, <1>7 DEF FifoInv

LEMMA WriteKeeps == ASSUME FifoInv, NEW w \in FifoWriters, Write(w) PROVE FifoInv'
  <1>0. /\ FifoTypeOK /\ Opened /\ NoRival /\ Kept /\ w \in FifoProcs
        /\ FifoWriters \cap FifoReaders = {} /\ NoFifo \notin FifoProcs
    BY FifoAssumption DEF FifoInv, FifoProcs
  <1> DEFINE f == fifoFd[w]
  <1>1. /\ fifoPc[w] = "write" /\ fifoPc' = [fifoPc EXCEPT ![w] = "close"]
        /\ data' = [data EXCEPT ![f] = data[f] \union {w}] /\ wrote' = wrote \union {w}
        /\ UNCHANGED <<path, fifoFd, solo, fifoGot, fifoKills>>
        /\ \E r \in FifoReaders : fifoFd[r] = f
    BY <1>0 DEF Write, FifoGoTo, Partners, Across
  <1>2. f \in FifoWriters /\ f # NoFifo
    BY <1>0, <1>1 DEF Opened, FifoTypeOK
  <1>3. \A g \in FifoWriters : data'[g] = IF g = f THEN data[g] \union {w} ELSE data[g]
    BY <1>0, <1>1 DEF FifoTypeOK
  <1>4. FifoTypeOK'
    <2>1. data' \in [FifoWriters -> SUBSET FifoWriters]
      BY <1>0, <1>1, <1>2 DEF FifoTypeOK
    <2> QED
      BY <1>0, <1>1, <2>1 DEF FifoTypeOK
  <1>5. Opened'
    BY <1>0, <1>1 DEF Opened, FifoTypeOK, FifoProcs
  <1>6. NoRival'
    BY <1>0, <1>1 DEF NoRival, Alone, FifoTypeOK, FifoEnded, FifoProcs
  <1>7. Kept'
    <2>1. \A q \in FifoProcs : fifoPc'[q] = IF q = w THEN "close" ELSE fifoPc[q]
      BY <1>0, <1>1 DEF FifoTypeOK
    <2>2. \A r \in FifoReaders : r \in FifoProcs /\ r # w
      BY <1>0 DEF FifoProcs
    <2>3. \A q \in FifoProcs : fifoFd[q] # NoFifo => data[fifoFd[q]] \subseteq data'[fifoFd[q]]
      BY <1>0, <1>3 DEF FifoTypeOK
    <2>4. \A r \in FifoReaders : fifoPc'[r] \in {"open", "wait", "read"} => fifoGot'[r] = {}
      BY <1>0, <1>1, <2>1, <2>2 DEF Kept
    <2> SUFFICES ASSUME Quiet
                 PROVE  /\ \A r \in FifoReaders : fifoPc'[r] \notin {"close", "done"}
                        /\ \A v \in wrote' : \E r \in FifoReaders :
                              fifoFd[r] # NoFifo /\ v \in data'[fifoFd[r]]
                        /\ \A r \in FifoReaders : fifoPc'[r] = "read" =>
                              \/ data'[fifoFd[r]] # {}
                              \/ \E v \in FifoWriters : fifoFd[v] = fifoFd[r]
                        /\ \A v \in FifoWriters : fifoPc'[v] = "close" => data'[fifoFd[v]] # {}
      BY <1>1, <2>4 DEF Kept, Quiet
    <2>5. \A r \in FifoReaders : fifoPc'[r] \notin {"close", "done"}
      BY <1>0, <2>1, <2>2 DEF Kept
    <2>6. \A v \in wrote' : \E r \in FifoReaders : fifoFd[r] # NoFifo /\ v \in data'[fifoFd[r]]
      <3>1. \A v \in wrote : \E r \in FifoReaders : fifoFd[r] # NoFifo /\ v \in data'[fifoFd[r]]
        BY <1>0, <2>2, <2>3 DEF Kept
      <3> QED
        BY <1>1, <1>2, <1>3, <3>1
    <2>7. \A r \in FifoReaders : fifoPc'[r] = "read" =>
             data'[fifoFd[r]] # {} \/ \E v \in FifoWriters : fifoFd[v] = fifoFd[r]
      <3> TAKE r \in FifoReaders
      <3> HAVE fifoPc'[r] = "read"
      <3>1. fifoPc[r] = "read" /\ fifoFd[r] # NoFifo
        BY <1>0, <2>1, <2>2 DEF Opened
      <3> QED
        BY <1>0, <2>2, <2>3, <3>1 DEF Kept
    <2>8. \A v \in FifoWriters : fifoPc'[v] = "close" => data'[fifoFd[v]] # {}
      <3> TAKE v \in FifoWriters
      <3> HAVE fifoPc'[v] = "close"
      <3>1. CASE v = w
        BY <1>2, <1>3, <3>1
      <3>2. CASE v # w
        <4>1. v \in FifoProcs /\ fifoPc[v] = "close" /\ fifoFd[v] # NoFifo
          BY <1>0, <2>1, <3>2 DEF Opened, FifoProcs
        <4> QED
          BY <1>0, <2>3, <4>1 DEF Kept
      <3> QED
        BY <3>1, <3>2
    <2> QED
      BY <2>5, <2>6, <2>7, <2>8
  <1> QED
    BY <1>4, <1>5, <1>6, <1>7 DEF FifoInv

\* A reader that returns has a message, or nobody is Quiet any more.
LEMMA ReadKeeps == ASSUME FifoInv, NEW r \in FifoReaders, Read(r) PROVE FifoInv'
  <1>0. /\ FifoTypeOK /\ Opened /\ NoRival /\ Kept /\ r \in FifoProcs
        /\ FifoWriters \cap FifoReaders = {} /\ NoFifo \notin FifoProcs
    BY FifoAssumption DEF FifoInv, FifoProcs
  <1> DEFINE f == fifoFd[r]
  <1>1. /\ fifoPc[r] = "read" /\ fifoPc' = [fifoPc EXCEPT ![r] = "close"]
        /\ fifoGot' = [fifoGot EXCEPT ![r] = data[f]]
        /\ data' = [data EXCEPT ![f] = {}]
        /\ UNCHANGED <<path, fifoFd, solo, wrote, fifoKills>>
        /\ data[f] # {} \/ \A w \in FifoWriters : fifoFd[w] # f
    BY <1>0 DEF Read, FifoGoTo, Partners, Across
  <1>2. f \in FifoWriters /\ data[f] \subseteq FifoWriters
    BY <1>0, <1>1 DEF Opened, FifoTypeOK
  <1>3. FifoTypeOK'
    <2>1. data' \in [FifoWriters -> SUBSET FifoWriters]
      BY <1>0, <1>1 DEF FifoTypeOK
    <2>2. fifoGot' \in [FifoReaders -> SUBSET FifoWriters]
      BY <1>0, <1>1, <1>2 DEF FifoTypeOK
    <2> QED
      BY <1>0, <1>1, <2>1, <2>2 DEF FifoTypeOK
  <1>4. Opened'
    BY <1>0, <1>1 DEF Opened, FifoTypeOK, FifoProcs
  <1>5. NoRival'
    BY <1>0, <1>1 DEF NoRival, Alone, FifoTypeOK, FifoEnded, FifoProcs
  <1>6. Kept'
    <2>1. \A q \in FifoReaders : fifoPc'[q] \in {"open", "wait", "read"} => fifoGot'[q] = {}
      BY <1>0, <1>1 DEF Kept, FifoTypeOK, FifoProcs
    <2>2. ~Quiet'
      <3> SUFFICES ASSUME Quiet' PROVE FALSE
        OBVIOUS
      <3>1. data[f] = {} /\ fifoKills = 0 /\ \A q \in FifoReaders \ {r} : fifoGot[q] = {}
        BY <1>0, <1>1 DEF Quiet, FifoTypeOK
      <3>2. Quiet
        BY <1>0, <1>1, <3>1 DEF Quiet, Kept
      <3> QED
        BY <1>0, <1>1, <3>1, <3>2 DEF Kept
    <2> QED
      BY <2>1, <2>2 DEF Kept
  <1> QED
    BY <1>3, <1>4, <1>5, <1>6 DEF FifoInv

\* A process ends: done after its close(), by SIGPIPE when no reader is there, or
\* killed.  A FIFO that a reader has open keeps what is in it.
LEMMA FifoEndKeeps ==
    ASSUME FifoInv, NEW p \in FifoProcs,
           \/ FifoClose(p)
           \/ p \in FifoWriters /\ BrokenPipe(p)
           \/ FifoKill(p)
    PROVE  FifoInv'
  <1>0. /\ FifoTypeOK /\ Opened /\ NoRival /\ Kept /\ FifoMaxKills \in Nat
        /\ FifoWriters \cap FifoReaders = {} /\ NoFifo \notin FifoProcs
    BY FifoAssumption DEF FifoInv
  <1>1. PICK how \in {"done", "sigpipe", "killed"} :
           /\ fifoPc' = [fifoPc EXCEPT ![p] = how]
           /\ how = "done" => fifoPc[p] = "close"
           /\ how = "sigpipe" => p \in FifoWriters /\ fifoPc[p] = "write"
                                 /\ Partners(p, fifoFd[p]) = {}
           /\ how # "killed" => fifoKills' = fifoKills
           /\ how = "killed" => ~FifoEnded(p) /\ fifoKills < FifoMaxKills
                                /\ fifoKills' = fifoKills + 1
    BY DEF FifoClose, BrokenPipe, FifoKill, FifoGoTo
  <1>2. /\ Leave(p) /\ fifoFd' = [fifoFd EXCEPT ![p] = NoFifo]
        /\ UNCHANGED <<path, solo, wrote, fifoGot>> /\ ~FifoEnded(p)
    BY <1>0 DEF FifoClose, BrokenPipe, FifoKill, Leave, FifoEnded
  <1>3. /\ DOMAIN data' = FifoWriters
        /\ \A f \in FifoWriters : data'[f] = data[f] \/ data'[f] = {}
        /\ \A f \in FifoWriters, q \in FifoProcs \ {p} : fifoFd[q] = f => data'[f] = data[f]
    BY <1>2 DEF Leave
  <1>4. \A q \in FifoProcs : /\ fifoPc'[q] = IF q = p THEN how ELSE fifoPc[q]
                             /\ fifoFd'[q] = IF q = p THEN NoFifo ELSE fifoFd[q]
    BY <1>0, <1>1, <1>2 DEF FifoTypeOK
  <1>5. FifoTypeOK'
    <2>1. data' \in [FifoWriters -> SUBSET FifoWriters]
      <3>1. data' = [f \in FifoWriters |->
                       IF f = fifoFd[p] /\ \A q \in FifoProcs \ {p} : fifoFd[q] # f
                         THEN {} ELSE data[f]]
        BY <1>2 DEF Leave
      <3> QED
        BY <1>0, <3>1 DEF FifoTypeOK
    <2>2. fifoKills' \in 0..FifoMaxKills
      BY <1>0, <1>1 DEF FifoTypeOK
    <2>3. fifoFd' \in [FifoProcs -> FifoWriters \union {NoFifo}]
      BY <1>0, <1>2 DEF FifoTypeOK
    <2>4. fifoPc' \in [FifoProcs -> {"unlink", "mkfifo", "open", "wait", "write", "read",
                                     "close", "done", "failed", "sigpipe", "killed"}]
      BY <1>0, <1>1 DEF FifoTypeOK
    <2> QED
      BY <1>0, <1>2, <2>1, <2>2, <2>3, <2>4 DEF FifoTypeOK
  <1>6. Opened'
    <2>1. \A f \in FifoWriters : fifoPc[f] \notin {"unlink", "mkfifo"}
                                    => fifoPc'[f] \notin {"unlink", "mkfifo"}
      BY <1>4 DEF FifoProcs
    <2>2. \A q \in FifoProcs : fifoFd'[q] # NoFifo => fifoPc'[fifoFd'[q]] \notin {"unlink", "mkfifo"}
      BY <1>0, <1>4, <2>1 DEF Opened, FifoTypeOK
    <2>3. path' # NoFifo => fifoPc'[path'] \notin {"unlink", "mkfifo"}
      BY <1>0, <1>2, <2>1 DEF Opened, FifoTypeOK
    <2> QED
      BY <1>0, <1>4, <2>2, <2>3 DEF Opened
  <1>7. NoRival'
    <2> SUFFICES ASSUME NEW v \in solo PROVE Alone(v)'
      BY <1>2 DEF NoRival
    <2>1. v \in FifoWriters /\ Alone(v) /\ \A u \in FifoWriters : u \in FifoProcs
      BY <1>0 DEF NoRival, FifoTypeOK, FifoProcs
    <2>2. \A u \in FifoWriters : /\ FifoEnded(u) => FifoEnded(u)'
                                 /\ u # p => fifoPc'[u] = fifoPc[u]
      BY <1>4, <2>1 DEF FifoEnded
    <2>3. CASE v = p
      BY <1>4, <2>1, <2>3 DEF Alone, FifoEnded
    <2>4. CASE v # p
      <3>1. FifoEnded(v)' <=> FifoEnded(v)
        BY <2>1, <2>2, <2>4 DEF FifoEnded
      <3>2. p \in FifoWriters /\ ~FifoEnded(v) => fifoPc[p] = "unlink"
        BY <1>2, <2>1, <2>4 DEF Alone
      <3>3. p \in FifoWriters => FifoEnded(p)'
        BY <1>4 DEF FifoEnded
      <3>4. ~FifoEnded(v) => \A u \in FifoWriters \ {v} : fifoPc'[u] = "unlink" \/ FifoEnded(u)'
        <4> SUFFICES ASSUME ~FifoEnded(v), NEW u \in FifoWriters \ {v}
                     PROVE  fifoPc'[u] = "unlink" \/ FifoEnded(u)'
          OBVIOUS
        <4>1. CASE u = p
          BY <3>3, <4>1
        <4>2. CASE u # p
          BY <2>1, <2>2, <4>2 DEF Alone
        <4> QED
          BY <4>1, <4>2
      <3> QED
        BY <1>2, <2>1, <2>2, <2>4, <3>1, <3>4 DEF Alone
    <2> QED
      BY <2>3, <2>4
  <1>8. Kept'
    <2>1. \A r \in FifoReaders : r \in FifoProcs
      BY DEF FifoProcs
    <2>2. \A r \in FifoReaders : fifoPc'[r] \in {"open", "wait", "read"} => fifoGot'[r] = {}
      BY <1>0, <1>2, <1>4, <2>1 DEF Kept
    <2> SUFFICES ASSUME Quiet'
                 PROVE  /\ \A r \in FifoReaders : fifoPc'[r] \notin {"close", "done"}
                        /\ \A w \in wrote : \E r \in FifoReaders :
                              fifoFd'[r] # NoFifo /\ w \in data'[fifoFd'[r]]
                        /\ \A r \in FifoReaders : fifoPc'[r] = "read" =>
                              \/ data'[fifoFd'[r]] # {}
                              \/ \E w \in FifoWriters : fifoFd'[w] = fifoFd'[r]
                        /\ \A w \in FifoWriters : fifoPc'[w] = "close" => data'[fifoFd'[w]] # {}
      BY <1>2, <2>2 DEF Kept
    <2>3. Quiet /\ how # "killed"
      BY <1>0, <1>1, <1>2 DEF Quiet, FifoTypeOK
    <2>4. p \in FifoWriters /\ p \notin FifoReaders
      BY <1>0, <1>1, <2>3 DEF Kept, FifoProcs
    <2>5. \A q \in FifoProcs \ {p} :
             fifoFd[q] # NoFifo => fifoFd'[q] = fifoFd[q] /\ data'[fifoFd[q]] = data[fifoFd[q]]
      BY <1>0, <1>3, <1>4 DEF FifoTypeOK
    <2>6. \A r \in FifoReaders : fifoPc'[r] \notin {"close", "done"}
      BY <1>0, <1>4, <2>1, <2>3, <2>4 DEF Kept
    <2>7. \A w \in wrote : \E r \in FifoReaders : fifoFd'[r] # NoFifo /\ w \in data'[fifoFd'[r]]
      BY <1>0, <2>1, <2>3, <2>4, <2>5 DEF Kept
    <2>8. ASSUME NEW r \in FifoReaders, fifoPc'[r] = "read"
          PROVE  data'[fifoFd'[r]] # {} \/ \E w \in FifoWriters : fifoFd'[w] = fifoFd'[r]
      <3>1. /\ fifoPc[r] = "read" /\ fifoFd[r] # NoFifo /\ r \in FifoProcs \ {p}
            /\ fifoFd'[r] = fifoFd[r] /\ data'[fifoFd[r]] = data[fifoFd[r]]
        BY <1>0, <1>4, <2>1, <2>4, <2>5, <2>8 DEF Opened
      <3>2. CASE data[fifoFd[r]] # {}
        BY <3>1, <3>2
      <3>3. CASE data[fifoFd[r]] = {}
        <4>1. PICK w \in FifoWriters : fifoFd[w] = fifoFd[r]
          BY <1>0, <2>3, <3>1, <3>3 DEF Kept
        <4>2. w # p
          <5>1. ASSUME w = p PROVE FALSE
            <6>1. how # "done"
              BY <1>0, <1>1, <2>3, <2>4, <3>3, <4>1, <5>1 DEF Kept
            <6>2. r \in Partners(p, fifoFd[p])
              BY <2>4, <4>1, <5>1 DEF Partners, Across
            <6> QED
              BY <1>1, <2>3, <6>1, <6>2
          <5> QED
            BY <5>1
        <4>3. w \in FifoProcs /\ fifoFd'[w] = fifoFd[w]
          BY <1>4, <4>2 DEF FifoProcs
        <4> QED
          BY <3>1, <4>1, <4>3
      <3> QED
        BY <3>2, <3>3
    <2>9. ASSUME NEW w \in FifoWriters, fifoPc'[w] = "close" PROVE data'[fifoFd'[w]] # {}
      <3>1. w \in FifoProcs /\ w # p /\ fifoPc[w] = "close"
        BY <1>4, <2>9 DEF FifoProcs
      <3>2. fifoFd[w] # NoFifo /\ data[fifoFd[w]] # {}
        BY <1>0, <2>3, <3>1 DEF Opened, Kept
      <3> QED
        BY <2>5, <3>1, <3>2
    <2> QED
      BY <2>6, <2>7, <2>8, <2>9
  <1> QED
    BY <1>5, <1>6, <1>7, <1>8 DEF FifoInv

LEMMA FifoInvNext == FifoInv /\ [FifoNext]_fifoVars => FifoInv'
  <1> SUFFICES ASSUME FifoInv, [FifoNext]_fifoVars PROVE FifoInv'
    OBVIOUS
  <1>1. CASE UNCHANGED fifoVars
    BY <1>1 DEF FifoInv, FifoTypeOK, Opened, NoRival, Alone, FifoEnded, Kept, Quiet, fifoVars
  <1>2. CASE FifoNext
    <2>1. PICK p \in FifoProcs : FifoStep(p) \/ FifoKill(p)
      BY <1>2 DEF FifoNext
    <2> QED
      BY <2>1, UnlinkKeeps, MkfifoKeeps, FifoOpenKeeps, WriteKeeps, ReadKeeps, FifoEndKeeps
      DEF FifoStep
  <1> QED
    BY <1>1, <1>2

\* What every reachable state of Fifo satisfies.
THEOREM FifoInvariant == FifoSpec => []FifoInv
  BY FifoInvInit, FifoInvNext, PTL DEF FifoSpec

\* Every variable of Fifo keeps its type.
THEOREM FifoTypeCorrect == FifoSpec => []FifoTypeOK
  <1>1. FifoInv => FifoTypeOK
    BY DEF FifoInv
  <1> QED
    BY <1>1, FifoInvariant, PTL

\* A writer that has no rival does not fail and strands no reader, and a written
\* message is lost only to another writer's or in a kill, for any number of writers
\* and readers.
THEOREM OnlyRivalsHarm == FifoSpec => []RivalToBlame
  <1>1. FifoInv => RivalToBlame
    <2> SUFFICES ASSUME FifoInv PROVE RivalToBlame
      OBVIOUS
    <2>0. /\ FifoTypeOK /\ Opened /\ NoRival /\ Kept
          /\ FifoWriters \cap FifoReaders = {} /\ NoFifo \notin FifoProcs
      BY FifoAssumption DEF FifoInv
    <2>1. ObstructedByRival
      <3>1. \A w \in solo : fifoPc[w] # "failed"
        BY <2>0 DEF NoRival, Alone
      <3>2. ASSUME NEW r \in FifoReaders, Stranded(r), fifoFd[r] \in solo
            PROVE  FifoEnded(fifoFd[r])
        <4>1. r \in FifoProcs /\ fifoFd[r] # NoFifo
          BY <2>0, <3>2 DEF Stranded, Opened, FifoProcs
        <4>2. fifoPc[fifoFd[r]] # "mkfifo" /\ Alone(fifoFd[r])
          BY <2>0, <3>2, <4>1 DEF Opened, NoRival
        <4> QED
          BY <3>2, <4>2 DEF Stranded, Alone
      <3> QED
        BY <3>1, <3>2 DEF ObstructedByRival
    <2>2. LostToRival
      <3> SUFFICES ASSUME NEW w \in FifoWriters, Lost(w), fifoKills = 0
                   PROVE  \E r \in FifoReaders : fifoGot[r] \ {w} # {}
        BY <2>0, FifoAssumption DEF LostToRival, FifoTypeOK
      <3>1. ~Quiet
        <4>1. ASSUME Quiet PROVE FALSE
          <5>1. PICK r \in FifoReaders : fifoFd[r] # NoFifo /\ w \in data[fifoFd[r]]
            BY <2>0, <4>1 DEF Kept, Lost
          <5>2. fifoFd[r] \in FifoWriters
            BY <2>0, <5>1 DEF FifoTypeOK, FifoProcs
          <5> QED
            BY <5>1, <5>2 DEF Lost
        <4> QED
          BY <4>1
      <3> QED
        BY <3>1 DEF Quiet, Lost
    <2> QED
      BY <2>1, <2>2 DEF RivalToBlame
  <1> QED
    BY <1>1, FifoInvariant, PTL
-------------------------------------------------------------------------------
(***************************************************************************)
(* The composition.  A step of one program leaves the other two where they *)
(* are: for them it is a stutter.                                          *)
(***************************************************************************)
NamesInv == LockInv /\ MqInv /\ FifoInv

LEMMA NamesParts ==
    [NamesNext]_names => [FifoNext]_fifoVars /\ [MqNext]_mqVars /\ [LockNext]_lockVars
  BY DEF NamesNext, InFifo, InMq, InLock, names

THEOREM NamesInvariant == NamesSpec => []NamesInv
  <1>1. NamesInit => NamesInv
    BY LockInvInit, MqInvInit, FifoInvInit DEF NamesInit, NamesInv
  <1>2. NamesInv /\ [NamesNext]_names => NamesInv'
    BY NamesParts, LockInvNext, MqInvNext, FifoInvNext DEF NamesInv
  <1> QED
    BY <1>1, <1>2, PTL DEF NamesSpec

\* Every variable of the three programs keeps its type, whichever is run.
THEOREM NamesTypeCorrect == NamesSpec => []NamesTypeOK
  <1>1. NamesInv => NamesTypeOK
    BY DEF NamesInv, LockInv, MqInv, FifoInv, NamesTypeOK
  <1> QED
    BY <1>1, NamesInvariant, PTL

\* The system that is run implements the specification of each of its programs:
\* no step of one is a step of another.
THEOREM NamesCompose == NamesSpec => FifoSpec /\ MqSpec /\ LockSpec
  <1>1. NamesInit => FifoInit /\ MqInit /\ LockInit
    BY DEF NamesInit
  <1> QED
    BY <1>1, NamesParts, PTL DEF NamesSpec, FifoSpec, MqSpec, LockSpec

\* So what is proved of each holds of the system that is run.
THEOREM NamesAreRight ==
    NamesSpec => [](RivalToBlame /\ NothingLost /\ ExclusiveAlone) /\ MqImplementsMailbox
  <1>1. NamesSpec => MqImplementsMailbox
    BY NamesCompose, SysvMqIsMailbox
  <1>2. NamesSpec => []RivalToBlame /\ []NothingLost /\ []ExclusiveAlone
    BY NamesCompose, OnlyRivalsHarm, NoMessageLost, LockIsExclusive
  <1> QED
    BY <1>1, <1>2, PTL

-------------------------------------------------------------------------------
(***************************************************************************)
(* Who waits for whom.  When no process of a program can make a call, the  *)
(* ones that are left in one are where EndsOrWaits says.                   *)
(***************************************************************************)
\* A process that has to run to ask for or give back the lock.
LockCan(p) == lockPc[p] = "unlock" \/ (lockPc[p] = "flock" /\ Grants(p))
LockQuiet  == \A p \in Lockers : ~LockCan(p)
LockRest ==
    LockQuiet =>
        \A p \in Lockers : lockPc[p] = "flock" =>
            \E q \in Lockers : lockPc[q] = "getc" /\ (p \in Exclusives \/ q \in Exclusives)

\* Who is left in flock() waits for a user to press a key, and for one whose lock is
\* in the way: nobody waits behind others that wait, and no lock outlives its run.
THEOREM LockWaitsForKey == LockSpec => []LockRest
  <1>1. LockInv => LockRest
    <2> SUFFICES ASSUME LockInv, LockQuiet, NEW p \in Lockers, lockPc[p] = "flock"
                 PROVE  \E q \in Lockers : lockPc[q] = "getc" /\ (p \in Exclusives \/ q \in Exclusives)
      BY DEF LockRest
    <2>1. LockTypeOK /\ ~Grants(p)
      BY DEF LockInv, LockQuiet, LockCan
    <2>2. PICK q \in holders : p \in Sharers => q \notin Sharers
      BY <2>1 DEF Grants
    <2>3. q \in Lockers /\ lockPc[q] = "getc"
      BY <2>1, <2>2 DEF LockTypeOK, LockQuiet, LockCan
    <2> QED
      BY <2>2, <2>3 DEF Lockers
  <1> QED
    BY <1>1, LockInvariant, PTL

MqCan(p) ==
    \/ mqPc[p] = "msgget"
    \/ mqPc[p] = "msgsnd" /\ Len(queue) < MqRoom
    \/ mqPc[p] = "msgrcv" /\ queue # <<>>
MqQuiet == \A p \in MqProcs : ~MqCan(p)
MqRest  == MqQuiet => \A p \in MqProcs : MqEnded(p) \/ MqStuck(p)

\* Who calls what.
MqCalls == /\ \A s \in MqSenders : mqPc[s] # "msgrcv"
           /\ \A r \in MqReceivers : mqPc[r] # "msgsnd"

\* Who is left in msgsnd() or msgrcv() is in a full or an empty queue, and nobody is
\* left who could change that.
THEOREM MqWaitsForNobody == MqSpec => []MqRest
  <1>1. MqInit => MqCalls
    BY DEF MqInit, MqCalls, MqProcs
  <1>2. MqTypeOK /\ MqCalls /\ [MqNext]_mqVars => MqCalls'
    <2> SUFFICES ASSUME MqTypeOK, MqCalls, [MqNext]_mqVars PROVE MqCalls'
      OBVIOUS
    <2>1. CASE UNCHANGED mqVars
      BY <2>1 DEF mqVars, MqCalls
    <2>2. ASSUME NEW p \in MqProcs, MqStep(p) \/ MsggetFails(p) \/ MqKill(p)
          PROVE  MqCalls'
      BY <2>2, MqAssumption DEF MqStep, Msgget, Msgsnd, Msgrcv, MsggetFails, MqKill, MqGoTo,
         MqTypeOK, MqCalls, MqProcs
    <2> QED
      BY <2>1, <2>2 DEF MqNext
  <1>3. MqInv /\ MqCalls => MqRest
    <2> SUFFICES ASSUME MqTypeOK, MqCalls, MqQuiet, NEW p \in MqProcs, ~MqEnded(p)
                 PROVE  MqStuck(p)
      BY DEF MqRest, MqInv
    <2>1. Len(queue) \in Nat /\ Len(queue) <= MqRoom /\ MqRoom >= 1
      BY MqAssumption DEF MqTypeOK
    <2>2. queue = <<>> => Len(queue) = 0
      BY EmptySeq
    <2>3. ASSUME NEW s \in MqSenders, ~MqEnded(s)
          PROVE  Len(queue) = MqRoom
      <3>1. mqPc[s] = "msgsnd" /\ ~MqCan(s)
        BY <2>3 DEF MqTypeOK, MqCalls, MqQuiet, MqCan, MqEnded, MqProcs
      <3>2. ~(Len(queue) < MqRoom)
        BY <3>1 DEF MqCan
      <3> QED
        BY <2>1, <3>2, MqAssumption
    <2>4. \A r \in MqReceivers : MqEnded(r) \/ queue = <<>>
      BY DEF MqTypeOK, MqCalls, MqQuiet, MqCan, MqEnded, MqProcs
    <2> QED
      BY <2>1, <2>2, <2>3, <2>4, MqAssumption DEF MqStuck, MqProcs
  <1>4. MqInv => MqTypeOK
    BY DEF MqInv
  <1> QED
    BY <1>1, <1>2, <1>3, <1>4, MqInvariant, PTL DEF MqSpec

FifoCan(p) ==
    \/ fifoPc[p] \in {"unlink", "mkfifo", "open", "write", "close"}
    \/ fifoPc[p] = "read" /\ (data[fifoFd[p]] # {} \/ Partners(p, fifoFd[p]) = {})
FifoQuiet == \A p \in FifoProcs : ~FifoCan(p)
FifoRest ==
    FifoQuiet =>
        \A p \in FifoProcs : FifoEnded(p) \/ (fifoPc[p] = "wait" /\ Partners(p, fifoFd[p]) = {})

\* An open() that is blocked has nobody at the other end.
WaitsAlone == \A p \in FifoProcs : fifoPc[p] = "wait" => Partners(p, fifoFd[p]) = {}

LEMMA WaitsAloneStep == ASSUME FifoInv, WaitsAlone, [FifoNext]_fifoVars PROVE WaitsAlone'
  <1>0. /\ FifoTypeOK /\ Opened
        /\ FifoWriters \cap FifoReaders = {} /\ NoFifo \notin FifoProcs
    BY FifoAssumption DEF FifoInv
  <1>1. CASE UNCHANGED fifoVars
    BY <1>1 DEF fifoVars, WaitsAlone, Partners
  <1>2. ASSUME NEW p \in FifoProcs,
               \/ p \in FifoWriters /\ (Unlink(p) \/ Mkfifo(p) \/ MkfifoFails(p) \/ Write(p) \/ BrokenPipe(p))
               \/ p \in FifoReaders /\ Read(p)
               \/ FifoOpenFails(p) \/ FifoClose(p) \/ FifoKill(p)
        PROVE  WaitsAlone'
    <2>1. \A q \in FifoProcs : /\ fifoFd'[q] \in {fifoFd[q], NoFifo}
                               /\ fifoPc'[q] = "wait" => fifoPc[q] = "wait" /\ fifoFd'[q] = fifoFd[q]
      BY <1>0, <1>2 DEF Unlink, Mkfifo, MkfifoFails, Write, BrokenPipe, Read, FifoOpenFails,
         FifoClose, FifoKill, Leave, FifoGoTo, FifoTypeOK
    <2>2. ASSUME NEW q \in FifoProcs, fifoPc'[q] = "wait", NEW o \in Across(q), fifoFd'[o] = fifoFd'[q]
          PROVE  FALSE
      <3>1. o \in FifoProcs /\ fifoFd[q] # NoFifo
        BY <1>0, <2>1, <2>2 DEF Across, FifoProcs, Opened
      <3>2. fifoPc[q] = "wait" /\ fifoFd[o] = fifoFd[q]
        BY <2>1, <2>2, <3>1
      <3> QED
        BY <2>2, <3>2 DEF WaitsAlone, Partners
    <2> QED
      BY <2>2 DEF WaitsAlone, Partners, Across
  <1>3. ASSUME NEW p \in FifoProcs, FifoOpen(p)
        PROVE  WaitsAlone'
    <2>1. /\ path # NoFifo /\ fifoFd' = [fifoFd EXCEPT ![p] = path]
          /\ fifoPc[p] = "open"
          /\ \A q \in FifoProcs : fifoPc'[q] = "wait" =>
                IF q = p THEN Partners(p, path) = {}
                ELSE fifoPc[q] = "wait" /\ q \notin Partners(p, path)
      BY <1>0, <1>3 DEF FifoOpen, Transfer, FifoTypeOK
    <2>2. ASSUME NEW q \in FifoProcs, fifoPc'[q] = "wait", NEW o \in Across(q), fifoFd'[o] = fifoFd'[q]
          PROVE  FALSE
      <3>1. o \in FifoProcs /\ o # q /\ q \in Across(o)
        BY <1>0, <2>2 DEF Across, FifoProcs
      <3>2. CASE q = p
        BY <1>0, <2>1, <2>2, <3>1, <3>2 DEF Partners, FifoTypeOK
      <3>3. CASE o = p
        BY <1>0, <2>1, <2>2, <3>1, <3>3 DEF Partners, FifoTypeOK
      <3>4. CASE q # p /\ o # p
        BY <1>0, <2>1, <2>2, <3>1, <3>4 DEF WaitsAlone, Partners, FifoTypeOK
      <3> QED
        BY <3>2, <3>3, <3>4
    <2> QED
      BY <2>2 DEF WaitsAlone, Partners, Across
  <1> QED
    BY <1>1, <1>2, <1>3 DEF FifoNext, FifoStep

\* Who is left in a call of 2_fifo.c is in open(), and has nobody at the other end:
\* a writer and a reader that met never wait for each other.
THEOREM FifoWaitsForPartner == FifoSpec => []FifoRest
  <1>1. FifoInit => WaitsAlone
    BY DEF FifoInit, WaitsAlone
  <1>2. FifoInv /\ WaitsAlone => FifoRest
    <2> SUFFICES ASSUME FifoInv, WaitsAlone, FifoQuiet, NEW p \in FifoProcs, ~FifoEnded(p)
                 PROVE  fifoPc[p] = "wait" /\ Partners(p, fifoFd[p]) = {}
      BY DEF FifoRest
    <2>0. FifoTypeOK /\ Opened /\ FifoWriters \cap FifoReaders = {}
      BY FifoAssumption DEF FifoInv
    <2>1. ~FifoCan(p)
      BY DEF FifoQuiet
    <2>2. fifoPc[p] \in {"wait", "read"}
      BY <2>0, <2>1 DEF FifoCan, FifoEnded, FifoTypeOK
    <2>3. CASE fifoPc[p] = "read"
      <3>1. p \in FifoReaders /\ fifoFd[p] # NoFifo
        BY <2>0, <2>3 DEF Opened
      <3>2. PICK w \in FifoWriters : fifoFd[w] = fifoFd[p] /\ w \in FifoProcs
        BY <2>0, <2>1, <2>3, <3>1 DEF FifoCan, Partners, Across, FifoProcs
      <3>3. fifoPc[w] = "wait"
        BY <2>0, <3>1, <3>2 DEF Opened, FifoQuiet, FifoCan
      <3>4. p \in Partners(w, fifoFd[w])
        BY <3>1, <3>2 DEF Partners, Across
      <3> QED
        BY <3>2, <3>3, <3>4 DEF WaitsAlone
    <2> QED
      BY <2>2, <2>3 DEF WaitsAlone
  <1> QED
    BY <1>1, <1>2, WaitsAloneStep, FifoInvInit, FifoInvNext, PTL DEF FifoSpec

\* The three together, in the system that is run.
THEOREM NamesRest == NamesSpec => [](LockRest /\ MqRest /\ FifoRest)
  <1>1. NamesSpec => []LockRest /\ []MqRest /\ []FifoRest
    BY NamesCompose, LockWaitsForKey, MqWaitsForNobody, FifoWaitsForPartner
  <1> QED
    BY <1>1, PTL

-------------------------------------------------------------------------------
(***************************************************************************)
(* Nothing goes on for ever: what a process has before it, which its own   *)
(* steps use up and nobody's gives back.                                   *)
(***************************************************************************)
FifoLeft(p) ==
    CASE fifoPc[p] = "unlink" -> 6
      [] fifoPc[p] = "mkfifo" -> 5
      [] fifoPc[p] = "open"   -> 4
      [] fifoPc[p] = "wait"   -> 3
      [] fifoPc[p] \in {"write", "read"} -> 2
      [] fifoPc[p] = "close"  -> 1
      [] OTHER -> 0
FifoUsesUp == /\ \A p \in FifoProcs : FifoLeft(p)' <= FifoLeft(p)
              /\ \E p \in FifoProcs : FifoLeft(p)' < FifoLeft(p)

MqLeft(p) ==
    CASE mqPc[p] = "msgget" -> 2
      [] mqPc[p] \in {"msgsnd", "msgrcv"} -> 1
      [] OTHER -> 0
MqUsesUp == \E p \in MqProcs : /\ MqLeft(p)' < MqLeft(p)
                               /\ \A q \in MqProcs \ {p} : MqLeft(q)' = MqLeft(q)

\* Users start the program again, up to MaxRuns times.
LockLeft(p) ==
    4 * (MaxRuns - runs[p]) +
        CASE lockPc[p] = "flock"  -> 3
          [] lockPc[p] = "getc"   -> 2
          [] lockPc[p] = "unlock" -> 1
          [] OTHER -> 0
LockUsesUp == \E p \in Lockers : /\ LockLeft(p)' < LockLeft(p) /\ LockLeft(p)' \in Nat
                                 /\ \A q \in Lockers \ {p} : LockLeft(q)' = LockLeft(q)

LEMMA FifoUses == ASSUME FifoTypeOK, [FifoNext]_fifoVars PROVE [FifoUsesUp]_fifoVars
  <1>1. ASSUME NEW p \in FifoProcs, FifoOpen(p) PROVE FifoUsesUp
    <2>1. \A q \in FifoProcs :
             fifoPc'[q] = IF q = p THEN IF Partners(p, path) = {} THEN "wait" ELSE Transfer(p)
                          ELSE IF q \in Partners(p, path) /\ fifoPc[q] = "wait" THEN Transfer(q)
                          ELSE fifoPc[q]
      BY <1>1 DEF FifoOpen
    <2>2. \A q \in FifoProcs : Transfer(q) \in {"write", "read"}
      BY DEF Transfer
    <2>3. FifoLeft(p) = 4 /\ FifoLeft(p)' \in {2, 3}
      BY <1>1, <2>1, <2>2 DEF FifoOpen, FifoLeft
    <2>4. \A q \in FifoProcs \ {p} : FifoLeft(q)' <= FifoLeft(q)
      BY <2>1, <2>2 DEF FifoLeft
    <2> QED
      BY <2>3, <2>4 DEF FifoUsesUp
  <1>2. ASSUME NEW p \in FifoProcs, FifoStep(p) \/ FifoKill(p), ~FifoOpen(p)
        PROVE  FifoUsesUp
    <2>1. FifoLeft(p)' < FifoLeft(p)
      BY <1>2 DEF FifoStep, FifoKill, FifoOpenFails, FifoClose, Unlink, Mkfifo, MkfifoFails,
                  Write, BrokenPipe, Read, FifoGoTo, FifoEnded, FifoLeft, FifoTypeOK
    <2>2. \A q \in FifoProcs \ {p} : fifoPc'[q] = fifoPc[q]
      BY <1>2 DEF FifoStep, FifoKill, FifoOpenFails, FifoClose, Unlink, Mkfifo, MkfifoFails,
                  Write, BrokenPipe, Read, FifoGoTo, FifoTypeOK
    <2>3. \A q \in FifoProcs \ {p} : FifoLeft(q)' <= FifoLeft(q)
      BY <2>2 DEF FifoLeft
    <2>4. FifoLeft(p) \in Nat /\ FifoLeft(p)' \in Nat
      BY DEF FifoLeft
    <2> QED
      BY <1>2, <2>1, <2>3, <2>4 DEF FifoUsesUp
  <1> QED
    BY <1>1, <1>2 DEF FifoNext

LEMMA MqUses == ASSUME MqTypeOK, [MqNext]_mqVars PROVE [MqUsesUp]_mqVars
  <1>1. ASSUME NEW p \in MqProcs, MqStep(p) \/ MsggetFails(p) \/ MqKill(p)
        PROVE  MqUsesUp
    <2>1. MqLeft(p)' < MqLeft(p)
      BY <1>1 DEF MqStep, MsggetFails, MqKill, Msgget, Msgsnd, Msgrcv, MqGoTo, MqEnded,
                  MqLeft, MqTypeOK
    <2>2. \A q \in MqProcs \ {p} : mqPc'[q] = mqPc[q]
      BY <1>1 DEF MqStep, MsggetFails, MqKill, Msgget, Msgsnd, Msgrcv, MqGoTo, MqTypeOK
    <2> QED
      BY <2>1, <2>2 DEF MqUsesUp, MqLeft
  <1> QED
    BY <1>1 DEF MqNext

LEMMA LockUses ==
    ASSUME LockTypeOK, LockTypeOK', [LockNext]_lockVars PROVE [LockUsesUp]_lockVars
  <1>1. ASSUME NEW p \in Lockers,
               OpenLockfile(p) \/ Key(p) \/ LockStep(p) \/ FlockFails(p) \/ LockKill(p)
        PROVE  LockUsesUp
    <2>0. /\ MaxRuns \in Nat /\ runs[p] \in 0..MaxRuns /\ runs'[p] \in 0..MaxRuns
          /\ lockPc'[p] \in {"idle", "flock", "getc", "unlock"}
      BY LockAssumption DEF LockTypeOK
    <2>1. LockLeft(p)' < LockLeft(p)
      <3>1. CASE OpenLockfile(p)
        BY <2>0, <3>1 DEF OpenLockfile, LockGoTo, LockLeft, LockTypeOK
      <3>2. CASE Key(p) \/ LockStep(p) \/ FlockFails(p) \/ LockKill(p)
        BY <2>0, <3>2 DEF Key, LockStep, Flock, Unlock, FlockFails, LockKill, LockGoTo,
                          LockLeft, LockTypeOK
      <3> QED
        BY <1>1, <3>1, <3>2
    <2>2. LockLeft(p)' \in Nat
      BY <2>0 DEF LockLeft
    <2>3. \A q \in Lockers \ {p} : lockPc'[q] = lockPc[q] /\ runs'[q] = runs[q]
      BY <1>1 DEF OpenLockfile, Key, LockStep, Flock, Unlock, FlockFails, LockKill, LockGoTo,
                  LockTypeOK
    <2> QED
      BY <2>1, <2>2, <2>3 DEF LockUsesUp, LockLeft
  <1> QED
    BY <1>1 DEF LockNext

\* In each of the three programs a step takes a call from a process and gives none
\* to another one, nor a run: with NamesRest, whoever can go on does so until
\* everybody is at the end or where EndsOrWaits says.
THEOREM NamesRunOut ==
    NamesSpec => /\ [][FifoUsesUp]_fifoVars
                 /\ [][MqUsesUp]_mqVars
                 /\ [][LockUsesUp]_lockVars
  <1>1. NamesInv => FifoTypeOK /\ MqTypeOK /\ LockTypeOK
    BY DEF NamesInv, FifoInv, MqInv, LockInv
  <1>2. NamesInv /\ NamesInv' /\ [NamesNext]_names =>
            [FifoUsesUp]_fifoVars /\ [MqUsesUp]_mqVars /\ [LockUsesUp]_lockVars
    <2>1. NamesInv' => LockTypeOK'
      BY DEF NamesInv, LockInv
    <2> QED
      BY <1>1, <2>1, NamesParts, FifoUses, MqUses, LockUses
  <1> QED
    BY <1>2, NamesInvariant, PTL DEF NamesSpec
===============================================================================
