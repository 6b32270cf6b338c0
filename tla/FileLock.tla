------------------------------- MODULE FileLock -------------------------------
(***************************************************************************)
(* 11_file_lock.c: a process opens "lockfile", takes flock() on it, shared *)
(* or exclusive, keeps it until its user presses a key, unlocks and ends.  *)
(* Each process stands for a terminal where the program is run again and   *)
(* again; the file is never removed, so every run locks the same one.      *)
(***************************************************************************)
EXTENDS Integers

CONSTANTS
    Sharers,        \* run with "sh"
    Exclusives,     \* run with "ex"
    MaxRuns,        \* bound on the runs of each of them
    LockMaxFaults   \* bound on failing calls and killed processes

Lockers == Sharers \union Exclusives

ASSUME LockAssumption ==
    /\ Sharers \cap Exclusives = {}
    /\ MaxRuns \in Nat \ {0} /\ LockMaxFaults \in Nat

VARIABLES
    lockPc,     \* the call each process is about to make, or is blocked in
    holders,    \* who has the lock
    runs,       \* how many times each process was started
    lockFaults

lockVars == <<lockPc, holders, runs, lockFaults>>

LockInit ==
    /\ lockPc = [p \in Lockers |-> "idle"]
    /\ holders = {}
    /\ runs = [p \in Lockers |-> 0]
    /\ lockFaults = 0

LockGoTo(p, call) == lockPc' = [lockPc EXCEPT ![p] = call]

\* The program is started (again) and opens or creates the file.
OpenLockfile(p) ==
    /\ lockPc[p] = "idle"
    /\ runs[p] < MaxRuns
    /\ runs' = [runs EXCEPT ![p] = @ + 1]
    /\ LockGoTo(p, "flock")
    /\ UNCHANGED <<holders, lockFaults>>

\* Mutant: LOCK_EX does not wait for the shared locks.
GrantsLoose(p) == p \in Lockers /\ holders \subseteq Sharers

\* LOCK_SH excludes LOCK_EX, LOCK_EX excludes both.
Grants(p) == IF p \in Sharers THEN holders \subseteq Sharers ELSE holders = {}

\* flock(fd, op) blocks until the lock is granted.
Flock(p) ==
    /\ lockPc[p] = "flock"
    /\ Grants(p)
    /\ holders' = holders \union {p}
    /\ LockGoTo(p, "getc")
    /\ UNCHANGED <<runs, lockFaults>>

\* The error paths of open() and flock().
FlockFails(p) ==
    /\ lockPc[p] = "flock"
    /\ lockFaults < LockMaxFaults
    /\ lockFaults' = lockFaults + 1
    /\ LockGoTo(p, "idle")
    /\ UNCHANGED <<holders, runs>>

\* The user presses a key: getc(stdin) returns.
Key(p) ==
    /\ lockPc[p] = "getc"
    /\ LockGoTo(p, "unlock")
    /\ UNCHANGED <<holders, runs, lockFaults>>

\* flock(fd, LOCK_UN) and close(fd).
Unlock(p) ==
    /\ lockPc[p] = "unlock"
    /\ holders' = holders \ {p}
    /\ LockGoTo(p, "idle")
    /\ UNCHANGED <<runs, lockFaults>>

\* Mutant: the lock outlives the process that held it.
LockKillKeeps(p) ==
    /\ lockPc[p] # "idle"
    /\ lockFaults < LockMaxFaults
    /\ lockFaults' = lockFaults + 1
    /\ LockGoTo(p, "idle")
    /\ UNCHANGED <<holders, runs>>

\* The kernel closes the descriptors of a process that is killed, and a lock
\* goes with its descriptor.
LockKill(p) ==
    /\ lockPc[p] # "idle"
    /\ lockFaults < LockMaxFaults
    /\ lockFaults' = lockFaults + 1
    /\ holders' = holders \ {p}
    /\ LockGoTo(p, "idle")
    /\ UNCHANGED runs

LockStep(p) == Flock(p) \/ Unlock(p)

LockNext == \E p \in Lockers :
    OpenLockfile(p) \/ Key(p) \/ LockStep(p) \/ FlockFails(p) \/ LockKill(p)

LockSpec == LockInit /\ [][LockNext]_lockVars

-------------------------------------------------------------------------------
\* The kernel's record of the lock agrees with where its holders are.
LockTypeOK ==
    /\ lockPc \in [Lockers -> {"idle", "flock", "getc", "unlock"}]
    /\ holders = {p \in Lockers : lockPc[p] \in {"getc", "unlock"}}
    /\ runs \in [Lockers -> 0..MaxRuns]
    /\ lockFaults \in 0..LockMaxFaults

\* Between flock(fd, LOCK_EX) and flock(fd, LOCK_UN) no other process is between
\* its own two calls, also after a holder was killed and started again.
Inside(p) == lockPc[p] \in {"getc", "unlock"}
ExclusiveAlone ==
    \A p \in Exclusives : Inside(p) => \A q \in Lockers \ {p} : ~Inside(q)

\* A process waits for ever in flock() only behind a process whose user never
\* presses a key: it is not overlooked when the lock is given up, and not held
\* up by a process that died.  Arrivals are finitely many, see MaxRuns.
Served ==
    \A p \in Lockers :
        lockPc[p] = "flock" ~>
            \/ lockPc[p] # "flock"
            \/ [](\E q \in Lockers : lockPc[q] = "getc" /\ (p \in Exclusives \/ q \in Exclusives))
===============================================================================
