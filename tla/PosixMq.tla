-------------------------------- MODULE PosixMq --------------------------------
(***************************************************************************)
(* The POSIX message queue "/posixmq" that three programs share:           *)
(*   4_mq_posix.c           s: send with priority 0;        r: receive     *)
(*   5_mq_posix_priority.c  s N: send with priority N;      r: receive     *)
(*   6_mq_posix_remove.c    unlink the name                                *)
(* A process executes one of them once.  A message is named by its sender; *)
(* a queue is named by the process whose mq_open created it.  The queue    *)
(* lives while it has its name or somebody has it open.                    *)
(***************************************************************************)
EXTENDS Integers, FiniteSets

CONSTANTS
    Senders,    \* processes that execute do_send
    Receivers,  \* processes that execute do_recv
    Removers,   \* processes that execute 6_mq_posix_remove.c
    Arg,        \* the number each sender got on its command line, 0 if none
    UIntMod,    \* 2^32: strtoul's result is stored in an unsigned int
    PrioMax,    \* MQ_PRIO_MAX
    MaxMsg,     \* mq_maxmsg of a queue created with default attributes
    MaxFaults,  \* bound on failing mq_opens and killed processes
    None        \* no queue, no message

Users == Senders \union Receivers
Procs == Users \union Removers

ASSUME ProcsAssumption ==
    /\ Senders \cap Receivers = {} /\ Users \cap Removers = {}
    /\ None \notin Procs
    /\ IsFiniteSet(Senders)
ASSUME ArgAssumption == Arg \in [Senders -> Nat] /\ UIntMod \in Nat \ {0}
ASSUME LimitAssumption == PrioMax \in Nat /\ MaxMsg \in Nat \ {0} /\ MaxFaults \in Nat

VARIABLES
    pc,     \* the call each process is about to make
    fd,     \* the queue each process has open (mqd)
    name,   \* the queue "/posixmq" names
    queue,  \* the messages in each queue
    sent,   \* history: arrival number of each message, 0 before mq_send
    home,   \* history: the queue each message was sent to
    got,    \* the message each receiver received
    faults

vars == <<pc, fd, name, queue, sent, home, got, faults>>

\* Mutant: an unsigned char for the unsigned int.
PrioChar(s) == Arg[s] % (UIntMod \div 4)

\* strtoul() of the argument, in an unsigned int.
Prio(s) == Arg[s] % UIntMod

Init ==
    /\ pc = [p \in Procs |-> IF p \in Removers THEN "unlink" ELSE "open"]
    /\ fd = [p \in Procs |-> None]
    /\ name = None
    /\ queue = [q \in Procs |-> {}]
    /\ sent = [s \in Senders |-> 0]
    /\ home = [s \in Senders |-> None]
    /\ got = [r \in Receivers |-> None]
    /\ faults = 0

GoTo(p, call) == pc' = [pc EXCEPT ![p] = call]

\* The messages of a queue die with it: when it has no name and no descriptor.
Reclaimed(q, newName, newFd) ==
    q # newName /\ \A p \in Procs : newFd[p] # q
Purge(newName, newFd) ==
    queue' = [q \in Procs |-> IF Reclaimed(q, newName, newFd) THEN {} ELSE queue[q]]

\* Mutant: mq_open(O_CREAT) that does not look for the name first.
OpenAlwaysNew(p) ==
    /\ pc[p] = "open"
    /\ name' = p
    /\ fd' = [fd EXCEPT ![p] = name']
    /\ GoTo(p, IF p \in Senders THEN "send" ELSE "receive")
    /\ UNCHANGED <<queue, sent, home, got, faults>>

\* mq_open(O_RDWR | O_CREAT) opens the named queue or creates one.
Opens(p) ==
    /\ pc[p] = "open"
    /\ name' = IF name = None THEN p ELSE name
    /\ fd' = [fd EXCEPT ![p] = name']
    /\ UNCHANGED <<queue, sent, home, got>>

\* init_mq
Open(p) ==
    /\ Opens(p)
    /\ GoTo(p, IF p \in Senders THEN "send" ELSE "receive")
    /\ UNCHANGED faults

\* init_mq returns -1 when mq_open runs into a limit; or when mq_getattr fails,
\* after a close(): the queue it created stays.
OpenFails(p) ==
    /\ \/ /\ pc[p] = "open" /\ GoTo(p, "failed")
          /\ UNCHANGED <<fd, name, queue, sent, home, got>>
       \/ Opens(p) /\ GoTo(p, "abort")
    /\ faults < MaxFaults
    /\ faults' = faults + 1

Arrivals == Cardinality({s \in Senders : sent[s] # 0})

SendWhen(s, room) ==
    /\ pc[s] = "send"
    /\ Prio(s) < PrioMax
    /\ Cardinality(queue[fd[s]]) < room
    /\ queue' = [queue EXCEPT ![fd[s]] = @ \union {s}]
    /\ sent' = [sent EXCEPT ![s] = Arrivals + 1]
    /\ home' = [home EXCEPT ![s] = fd[s]]
    /\ UNCHANGED <<fd, name, got, faults>>

\* Mutants: off by one at a full queue, both ways; a send that is tried again.
SendTooMany(s) == SendWhen(s, MaxMsg + 1) /\ GoTo(s, "close")
SendTooFew(s)  == SendWhen(s, MaxMsg - 1) /\ GoTo(s, "close")
SendRetried(s) == SendWhen(s, MaxMsg) /\ (GoTo(s, "close") \/ GoTo(s, "send"))

\* mq_send blocks while the queue is full.
Send(s) == SendWhen(s, MaxMsg) /\ GoTo(s, "close")

\* EINVAL: the priority is not below MQ_PRIO_MAX.
SendInvalid(s) ==
    /\ pc[s] = "send"
    /\ Prio(s) >= PrioMax
    /\ GoTo(s, "abort")
    /\ UNCHANGED <<fd, name, queue, sent, home, got, faults>>

\* Mutant: the newest of the messages with the highest priority.
BeforeNewest(m, n) == Prio(m) > Prio(n) \/ (Prio(m) = Prio(n) /\ sent[m] > sent[n])

\* The oldest of the messages with the highest priority comes out first.
Before(m, n) == Prio(m) > Prio(n) \/ (Prio(m) = Prio(n) /\ sent[m] < sent[n])
IsFirst(m, q) == m \in queue[q] /\ \A n \in queue[q] \ {m} : Before(m, n)

\* Mutant: the message stays in the queue.
ReceivePeek(r) ==
    /\ pc[r] = "receive"
    /\ \E m \in queue[fd[r]] : IsFirst(m, fd[r]) /\ got' = [got EXCEPT ![r] = m]
    /\ GoTo(r, "close")
    /\ UNCHANGED <<fd, name, queue, sent, home, faults>>

\* mq_receive blocks while the queue is empty.
Receive(r) ==
    /\ pc[r] = "receive"
    /\ \E m \in queue[fd[r]] :
          /\ IsFirst(m, fd[r])
          /\ got' = [got EXCEPT ![r] = m]
          /\ queue' = [queue EXCEPT ![fd[r]] = @ \ {m}]
    /\ GoTo(r, "close")
    /\ UNCHANGED <<fd, name, sent, home, faults>>

\* mq_close, or close() on an error path; then main returns.
Close(p) ==
    /\ pc[p] \in {"close", "abort"}
    /\ fd' = [fd EXCEPT ![p] = None]
    /\ Purge(name, fd')
    /\ GoTo(p, IF pc[p] = "close" THEN "done" ELSE "failed")
    /\ UNCHANGED <<name, sent, home, got, faults>>

\* mq_unlink: ENOENT when there is no such name.
Unlink(p) ==
    /\ pc[p] = "unlink"
    /\ name # None
    /\ name' = None
    /\ Purge(None, fd)
    /\ GoTo(p, "done")
    /\ UNCHANGED <<fd, sent, home, got, faults>>

UnlinkFails(p) ==
    /\ pc[p] = "unlink"
    /\ name = None
    /\ GoTo(p, "failed")
    /\ UNCHANGED <<fd, name, queue, sent, home, got, faults>>

\* A process that is killed closes its descriptor.
Kill(p) ==
    /\ pc[p] \in {"send", "receive", "close", "abort"}
    /\ faults < MaxFaults
    /\ faults' = faults + 1
    /\ fd' = [fd EXCEPT ![p] = None]
    /\ Purge(name, fd')
    /\ GoTo(p, "killed")
    /\ UNCHANGED <<name, sent, home, got>>

Step(p) ==
    \/ p \in Users /\ (Open(p) \/ Close(p))
    \/ p \in Senders /\ (Send(p) \/ SendInvalid(p))
    \/ p \in Receivers /\ Receive(p)
    \/ p \in Removers /\ (Unlink(p) \/ UnlinkFails(p))

Next == \/ \E p \in Procs : Step(p)
        \/ \E p \in Users : OpenFails(p) \/ Kill(p)

Spec == Init /\ [][Next]_vars

\* The kernel schedules every process, and wakes it when the queue it waits
\* for has room or a message.  Nobody has to start the removing program.
FairSpec == Spec /\ \A p \in Users : WF_vars(Step(p))

-------------------------------------------------------------------------------
Ended(p)    == pc[p] \in {"done", "failed", "killed"}
Sent(s)     == sent[s] # 0
Received(s) == \E r \in Receivers : got[r] = s
Exists(q)   == q = name \/ \E p \in Procs : fd[p] = q

TypeOK ==
    /\ pc \in [Procs -> {"open", "send", "receive", "close", "abort", "unlink",
                         "done", "failed", "killed"}]
    /\ fd \in [Procs -> Procs \union {None}]
    /\ name \in Procs \union {None}
    /\ queue \in [Procs -> SUBSET Senders]
    /\ \A q \in Procs : Cardinality(queue[q]) <= MaxMsg
    /\ sent \in [Senders -> Nat]
    /\ home \in [Senders -> Procs \union {None}]
    /\ got \in [Receivers -> Senders \union {None}]
    /\ faults \in 0..MaxFaults

\* Every message is received once, or still in the queue it was sent to, or
\* gone together with that queue, whichever processes end before or after it.
Accounted ==
    /\ \A s \in Senders, q \in Procs : s \in queue[q] =>
           Sent(s) /\ ~Received(s) /\ home[s] = q /\ Exists(q)
    /\ \A r1, r2 \in Receivers : got[r1] = got[r2] /\ got[r1] # None => r1 = r2
    /\ \A s \in Senders : Sent(s) /\ ~Received(s) /\ Exists(home[s]) =>
           s \in queue[home[s]]

\* n is not more urgent than m: by the priorities that the receivers print, and by
\* the numbers the users gave, if an unsigned int can hold them.
NotAbove(n, m) == Prio(n) <= Prio(m) \/ (Arg[n] <= Arg[m] /\ Arg[m] < UIntMod)

\* A message is never received before one that was sent earlier to the same queue
\* and is at least as urgent: by then that one was received.  (The numbers on the
\* command lines of 5_mq_posix_priority.c, and the order within one of them)
InOrder ==
    \A m, n \in Senders :
        /\ Sent(m) /\ Sent(n) /\ home[m] = home[n] /\ sent[m] < sent[n]
        /\ NotAbove(n, m)
        /\ Received(n)
        => Received(m)

\* As long as nobody ran the removing program there is one queue for all, so
\* that senders and receivers meet whichever of the two programs they execute.
OneQueue ==
    (\A p \in Removers : pc[p] # "done") => \A p \in Users : fd[p] \in {None, name}

\* Somebody who is in another queue, or through, will not come to q again; and
\* there is another queue only after the name was removed.
Removed == \E x \in Removers : pc[x] = "done"
WillNotCome(p, q) == Ended(p) \/ (fd[p] \notin {None, q} /\ Removed)
Alone(p, others) == fd[p] # None /\ \A other \in others : WillNotCome(other, fd[p])

\* A receiver waits for ever only when its queue is empty, and every message was
\* received or the name removed, and every sender has ended or is in another
\* queue; and a sender likewise: no wake-up is lost, a full queue never keeps
\* senders and receivers from each other, and nobody but the removing program
\* strands a process.  (mq_send of do_send, mq_receive of do_recv)
Drained(r) == queue[fd[r]] = {} /\ (Removed \/ \A s \in Senders : Sent(s) => Received(s))
EverybodyServed ==
    /\ \A r \in Receivers : <>(Ended(r) \/ (Alone(r, Senders) /\ Drained(r)))
    /\ \A s \in Senders : <>(Ended(s) \/ Alone(s, Receivers))

\* All queues that ever have the name implement one mailbox: what is pending
\* in any of them is received at most once and dropped only with its queue.
Box == INSTANCE Mailbox WITH pending <- UNION {queue[q] : q \in Procs}, Nothing <- None

ImplementsMailbox == Box!Spec
===============================================================================
