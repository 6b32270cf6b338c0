-------------------------------- MODULE MCNames --------------------------------
(***************************************************************************)
(* Three programs whose processes meet at a name and share nothing with    *)
(* each other.  part, fixed in the initial state, says which one executes: *)
(* the states are the sum of the programs' states, not the product.        *)
(***************************************************************************)
EXTENDS Fifo, SysvMq, FileLock

VARIABLE part

names == <<fifoVars, mqVars, lockVars, part>>

NamesInit ==
    /\ part \in {"fifo", "sysv", "lock"}
    /\ FifoInit /\ MqInit /\ LockInit

InFifo(A) == part = "fifo" /\ A /\ UNCHANGED <<mqVars, lockVars, part>>
InMq(A)   == part = "sysv" /\ A /\ UNCHANGED <<fifoVars, lockVars, part>>
InLock(A) == part = "lock" /\ A /\ UNCHANGED <<fifoVars, mqVars, part>>

NamesNext == InFifo(FifoNext) \/ InMq(MqNext) \/ InLock(LockNext)

\* The kernel schedules every started process and wakes it when its call can
\* return; the user need not press a key.
NamesSpec ==
    /\ NamesInit /\ [][NamesNext]_names
    /\ \A p \in FifoProcs : WF_names(InFifo(FifoStep(p)))
    /\ \A p \in MqProcs : WF_names(InMq(MqStep(p)))
    /\ \A p \in Lockers : WF_names(InLock(LockStep(p)))

\* Every variable keeps its type, and flock's record of the holders is right.
NamesTypeOK == FifoTypeOK /\ MqTypeOK /\ LockTypeOK

\* Every process that began ends, or waits for somebody who is not there: at a
\* FIFO without a partner, at an empty or full queue with nobody left to help, in
\* flock() behind a user who presses no key.
EndsOrWaits == EndsOrWaitsAlone /\ WriterMet /\ EndsOrStuck /\ Served
===============================================================================
