-------------------------------- MODULE SysvMq --------------------------------
(***************************************************************************)
(* 3_mq_sysv.c: do_send appends one message of type 1 to the System V      *)
(* queue of a fixed key, do_recv takes the oldest one.  msgget() makes the *)
(* queue when there is none and nothing ever removes it, so it carries     *)
(* messages from run to run: a process that executes do_send or do_recv    *)
(* once is a run.  A message is named by its sender.                       *)
(***************************************************************************)
EXTENDS Integers, Sequences, FiniteSets

CONSTANTS
    MqSenders,
    MqReceivers,
    MqRoom,         \* messages that fit into the queue (msg_qbytes)
    MqMaxFaults,    \* bound on failing calls and killed processes
    NoMsg

MqProcs == MqSenders \union MqReceivers

ASSUME MqAssumption ==
    /\ MqSenders \cap MqReceivers = {}
    /\ NoMsg \notin MqSenders
    /\ MqRoom \in Nat \ {0} /\ MqMaxFaults \in Nat

VARIABLES
    mqPc,       \* the call each process is about to make, or is blocked in
    made,       \* the queue exists
    queue,      \* its messages, the oldest first
    mqGot,      \* the message each receiver took
    arrived,    \* history: the messages in the order they were queued
    taken,      \* history: the messages in the order they were taken
    mqFaults

mqVars == <<mqPc, made, queue, mqGot, arrived, taken, mqFaults>>

MqInit ==
    /\ mqPc = [p \in MqProcs |-> "msgget"]
    /\ made = FALSE
    /\ queue = <<>>
    /\ mqGot = [r \in MqReceivers |-> NoMsg]
    /\ arrived = <<>> /\ taken = <<>>
    /\ mqFaults = 0

MqGoTo(p, call) == mqPc' = [mqPc EXCEPT ![p] = call]

\* Mutant: IPC_CREAT makes a new queue each time.
MsggetNew(p) ==
    /\ mqPc[p] = "msgget"
    /\ made' = TRUE
    /\ queue' = <<>>
    /\ MqGoTo(p, IF p \in MqSenders THEN "msgsnd" ELSE "msgrcv")
    /\ UNCHANGED <<mqGot, arrived, taken, mqFaults>>

\* get_msq_id: ftok() and msgget(IPC_CREAT) find the queue or make it.
Msgget(p) ==
    /\ mqPc[p] = "msgget"
    /\ made' = TRUE
    /\ MqGoTo(p, IF p \in MqSenders THEN "msgsnd" ELSE "msgrcv")
    /\ UNCHANGED <<queue, mqGot, arrived, taken, mqFaults>>

\* get_msq_id returns -1: ftok() failed, or the system has no room for a queue.
MsggetFails(p) ==
    /\ mqPc[p] = "msgget"
    /\ ~made
    /\ mqFaults < MqMaxFaults
    /\ mqFaults' = mqFaults + 1
    /\ MqGoTo(p, "failed")
    /\ UNCHANGED <<made, queue, mqGot, arrived, taken>>

\* Mutants: off by one at a full queue, both ways.
MsgsndLoose(s) ==
    /\ mqPc[s] = "msgsnd"
    /\ Len(queue) <= MqRoom
    /\ queue' = Append(queue, s)
    /\ arrived' = Append(arrived, s)
    /\ MqGoTo(s, "done")
    /\ UNCHANGED <<made, mqGot, taken, mqFaults>>

MsgsndTight(s) ==
    /\ mqPc[s] = "msgsnd"
    /\ Len(queue) < MqRoom - 1
    /\ queue' = Append(queue, s)
    /\ arrived' = Append(arrived, s)
    /\ MqGoTo(s, "done")
    /\ UNCHANGED <<made, mqGot, taken, mqFaults>>

\* msgsnd() blocks while the queue is full.
Msgsnd(s) ==
    /\ mqPc[s] = "msgsnd"
    /\ Len(queue) < MqRoom
    /\ queue' = Append(queue, s)
    /\ arrived' = Append(arrived, s)
    /\ MqGoTo(s, "done")
    /\ UNCHANGED <<made, mqGot, taken, mqFaults>>

\* Mutant: the newest message is taken.
MsgrcvNewest(r) ==
    /\ mqPc[r] = "msgrcv"
    /\ queue # <<>>
    /\ mqGot' = [mqGot EXCEPT ![r] = queue[Len(queue)]]
    /\ taken' = Append(taken, queue[Len(queue)])
    /\ queue' = SubSeq(queue, 1, Len(queue) - 1)
    /\ MqGoTo(r, "done")
    /\ UNCHANGED <<made, arrived, mqFaults>>

\* msgrcv() of type 1, which every message has, blocks while there is none.
Msgrcv(r) ==
    /\ mqPc[r] = "msgrcv"
    /\ queue # <<>>
    /\ mqGot' = [mqGot EXCEPT ![r] = Head(queue)]
    /\ taken' = Append(taken, Head(queue))
    /\ queue' = Tail(queue)
    /\ MqGoTo(r, "done")
    /\ UNCHANGED <<made, arrived, mqFaults>>

MqEnded(p) == mqPc[p] \in {"done", "failed", "killed"}

MqKill(p) ==
    /\ ~MqEnded(p)
    /\ mqFaults < MqMaxFaults
    /\ mqFaults' = mqFaults + 1
    /\ MqGoTo(p, "killed")
    /\ UNCHANGED <<made, queue, mqGot, arrived, taken>>

MqStep(p) ==
    \/ Msgget(p)
    \/ p \in MqSenders /\ Msgsnd(p)
    \/ p \in MqReceivers /\ Msgrcv(p)

MqNext == \E p \in MqProcs : MqStep(p) \/ MsggetFails(p) \/ MqKill(p)

MqSpec == MqInit /\ [][MqNext]_mqVars

-------------------------------------------------------------------------------
MqTypeOK ==
    /\ mqPc \in [MqProcs -> {"msgget", "msgsnd", "msgrcv", "done", "failed", "killed"}]
    /\ made \in BOOLEAN
    /\ queue \in Seq(MqSenders) /\ Len(queue) <= MqRoom
    /\ mqGot \in [MqReceivers -> MqSenders \union {NoMsg}]
    /\ arrived \in Seq(MqSenders) /\ taken \in Seq(MqSenders)
    /\ mqFaults \in 0..MqMaxFaults

\* Across all runs, and whoever is killed, the messages come out in the order
\* they went in, and what has not come out is still there.  (msgsnd, msgrcv and
\* the IPC_CREAT of get_msq_id, which must find the queue of earlier runs)
NothingLost == arrived = taken \o queue

\* The queue is a mailbox that nothing is dropped from.
Waiting == {queue[i] : i \in DOMAIN queue}
MqBox == INSTANCE Mailbox WITH Senders <- MqSenders, Receivers <- MqReceivers,
                               pending <- Waiting, got <- mqGot, Nothing <- NoMsg
MqImplementsMailbox == MqBox!Spec

\* A process is left blocked only when nobody can help it: a receiver when every
\* message was taken and no sender is left, a sender when the queue is full and
\* no receiver is left.
MqStuck(p) ==
    IF p \in MqReceivers
      THEN queue = <<>> /\ \A s \in MqSenders : MqEnded(s)
      ELSE Len(queue) = MqRoom /\ \A r \in MqReceivers : MqEnded(r)
EndsOrStuck ==
    \A p \in MqProcs : mqPc[p] # "msgget" /\ made ~> MqEnded(p) \/ MqStuck(p)
===============================================================================
