------------------------------ MODULE ShmCounter ------------------------------
(***************************************************************************)
(* The three System V shared-memory programs: a counter in a segment that  *)
(* a "child" worker increments and a "parent" worker decrements MAX_TRY    *)
(* times each.                                                             *)
(*   unsafe  10_shm_sysv_unsafe.c       two processes, no lock             *)
(*   safe    10_shm_sysv_safe.c         two processes, a semaphore         *)
(*   thread  10_shm_sysv_safe_thread.c  two threads,   a semaphore         *)
(* All three derive the same IPC key, so every invocation (a "run") finds  *)
(* the segment and the semaphore set any other run left or is using.       *)
(* A segment or semaphore set is named by the run that created it.         *)
(***************************************************************************)
EXTENDS Integers

CONSTANTS
    Runs,      \* the invocations of the programs
    Prog,      \* which program each run executes
    MaxTry,    \* MAX_TRY
    Overlap,   \* may a run start while another one is still active?
    MaxKills,  \* bound on the processes killed from outside (SIGKILL, Ctrl-C)
    NoId       \* "no such object": what a key maps to before IPC_CREAT

ASSUME NoIdAssumption == NoId \notin Runs
ASSUME ProgAssumption == Prog \in [Runs -> {"unsafe", "safe", "thread"}]
ASSUME MaxTryAssumption == MaxTry \in Nat \ {0}
ASSUME OverlapAssumption == Overlap \in BOOLEAN
ASSUME MaxKillsAssumption == MaxKills \in Nat

VARIABLES
    main,    \* the system call main() of each run is about to make
    pc,      \* where each worker is
    done,    \* iterations of the loop each worker has completed (i)
    reg,     \* the value a worker has loaded from info->counter
    shmKey,  \* the segment the key names
    counter, \* the counter in each segment
    shmid,   \* the segment each run obtained from shmget
    att,     \* the processes that have their run's segment attached
    base,    \* history: the counter when the run attached
    semKey,  \* the semaphore set the key names; any other set is removed
    semid,   \* the set each run obtained from semget
    semval,  \* the value of semaphore 0 of the set semKey
    adj,     \* the SEM_UNDO adjustment of each process on that semaphore
    kills    \* processes killed so far

work == <<pc, done, reg>>
shm  == <<shmKey, counter, shmid, att, base>>
sem  == <<semKey, semid, semval, adj>>
vars == <<main, work, shm, sem, kills>>

Locked(r) == Prog[r] # "unsafe"

\* The workers are named as their output names them.  The "child" of the
\* forking programs is a process of its own; the threads share one process.
Workers == Runs \X {"parent", "child"}
Proc(w) == IF Prog[w[1]] = "thread" THEN <<w[1], "parent">> ELSE w
DeltaCopied(w) == 1   \* mutant: do_sub copied from do_add
Delta(w) == IF w[2] = "child" THEN 1 ELSE -1

\* The order of the calls in main(): a call leads to the next one when it
\* succeeds.  "work" is do_sub and the wait or the joins.
UnsafeMain == [shmget |-> "shmat", shmat |-> "fork", fork |-> "work",
               work |-> "shmdt", shmdt |-> "rmshm", rmshm |-> "done"]
SafeMain   == [shmget |-> "shmat", shmat |-> "semget", semget |-> "setval",
               setval |-> "fork", fork |-> "work", work |-> "shmdt",
               shmdt |-> "rmsem", rmsem |-> "rmshm", rmshm |-> "done"]
ThreadMain == [shmget |-> "shmat", shmat |-> "semget", semget |-> "setval",
               setval |-> "create0", create0 |-> "create1",
               create1 |-> "work", work |-> "shmdt", shmdt |-> "rmsem",
               rmsem |-> "rmshm", rmshm |-> "done"]

\* The first and last steps of do_add and do_sub around the loop.  The two
\* definitions in the middle are mutants of the two that follow.
Return(w)    == IF w[2] = "child" /\ Proc(w) = w THEN "exit" ELSE "done"

EnterLoopUnlocked(r) == "load"
LeaveLoopLocked(w)   == Return(w)

EnterLoop(r) == IF Locked(r) THEN "lock" ELSE "load"
LeaveLoop(w) == IF Locked(w[1]) THEN "unlock" ELSE Return(w)

MainOf == [unsafe |-> UnsafeMain, safe |-> SafeMain, thread |-> ThreadMain]

Advance(r) == main' = [main EXCEPT ![r] = MainOf[Prog[r]][main[r]]]

Ended    == {"done", "failed", "killed"}
Over(r)  == main[r] \in Ended /\ \A k \in {"parent", "child"} :
                                     pc[<<r, k>>] \in {"idle", "done", "killed"}
Active(r) == main[r] # "shmget" /\ ~Over(r)

-------------------------------------------------------------------------------
Init ==
    /\ main = [r \in Runs |-> "shmget"]
    /\ pc = [w \in Workers |-> "idle"]
    /\ done = [w \in Workers |-> 0]
    /\ reg = [w \in Workers |-> 0]
    /\ shmKey = NoId
    /\ counter = [r \in Runs |-> 0]
    /\ shmid = [r \in Runs |-> NoId]
    /\ att = {}
    /\ base = [r \in Runs |-> 0]
    /\ semKey = NoId
    /\ semid = [r \in Runs |-> NoId]
    /\ semval = 0
    /\ adj = [w \in Workers |-> 0]
    /\ kills = 0

\* shmget(key, ..., IPC_CREAT): the segment of the key, or a new zeroed one.
ShmGet(r) ==
    /\ main[r] = "shmget"
    /\ Overlap \/ \A q \in Runs : ~Active(q)
    /\ shmKey' = IF shmKey = NoId THEN r ELSE shmKey
    /\ shmid' = [shmid EXCEPT ![r] = shmKey']
    /\ Advance(r)
    /\ UNCHANGED <<work, counter, att, base, sem, kills>>

\* A removed segment is destroyed with its last attachment.
Exists(s) == s = shmKey \/ \E p \in att : shmid[p[1]] = s

\* shmat of an identifier obtained earlier: it may have been destroyed since.
ShmAt(r) ==
    /\ main[r] = "shmat"
    /\ Exists(shmid[r])
    /\ att' = att \union {<<r, "parent">>}
    /\ base' = [base EXCEPT ![r] = counter[shmid[r]]]
    /\ Advance(r)
    /\ UNCHANGED <<work, shmKey, counter, shmid, sem, kills>>

\* semget(key, 1, IPC_CREAT): a new set starts at 0.
SemGet(r) ==
    /\ main[r] = "semget"
    /\ semKey' = IF semKey = NoId THEN r ELSE semKey
    /\ semid' = [semid EXCEPT ![r] = semKey']
    /\ semval' = IF semKey = NoId THEN 0 ELSE semval
    /\ Advance(r)
    /\ UNCHANGED <<work, shm, adj, kills>>

Live(r) == semKey # NoId /\ semid[r] = semKey

\* Mutant: the counting semaphore of the line below it in the source.
SetValCounting(r) ==
    /\ main[r] = "setval"
    /\ semval' = 3
    /\ adj' = [p \in Workers |-> 0]
    /\ Advance(r)
    /\ UNCHANGED <<work, shm, semKey, semid, kills>>

\* semctl(SETVAL, 1): sets the value and clears every process's adjustment.
\* The result is not tested: on a removed set the call does nothing.
SetVal(r) ==
    /\ main[r] = "setval"
    /\ semval' = IF Live(r) THEN 1 ELSE semval
    /\ adj' = IF Live(r) THEN [p \in Workers |-> 0] ELSE adj
    /\ Advance(r)
    /\ UNCHANGED <<work, shm, semKey, semid, kills>>

\* fork(): the child inherits the attachment, not the adjustments.
Fork(r) ==
    /\ main[r] = "fork"
    /\ pc' = [pc EXCEPT ![<<r, "parent">>] = EnterLoop(r),
                        ![<<r, "child">>]  = EnterLoop(r)]
    /\ att' = att \union {<<r, "child">>}
    /\ Advance(r)
    /\ UNCHANGED <<done, reg, shmKey, counter, shmid, base, sem, kills>>

\* The two pthread_create calls: do_sub first, then do_add.
CreateThread(r, step, k) ==
    /\ main[r] = step
    /\ pc' = [pc EXCEPT ![<<r, k>>] = EnterLoop(r)]
    /\ Advance(r)
    /\ UNCHANGED <<done, reg, shm, sem, kills>>

\* Mutant: nobody waits for the other worker.
JoinForgotten(r) ==
    /\ main[r] = "work"
    /\ pc[<<r, "parent">>] \in {"done", "killed"}
    /\ Advance(r)
    /\ UNCHANGED <<work, shm, sem, kills>>

\* wait(NULL) after do_sub, or the two pthread_joins; then the final printf.
Join(r) ==
    /\ main[r] = "work"
    /\ \A k \in {"parent", "child"} : pc[<<r, k>>] \in {"done", "killed"}
    /\ Advance(r)
    /\ UNCHANGED <<work, shm, sem, kills>>

ShmDt(r) ==
    /\ main[r] = "shmdt"
    /\ att' = att \ {<<r, "parent">>}
    /\ Advance(r)
    /\ UNCHANGED <<work, shmKey, counter, shmid, base, sem, kills>>

\* semctl(IPC_RMID) removes the set at once; on a removed set it fails,
\* which is not tested.
RmSem(r) ==
    /\ main[r] = "rmsem"
    /\ semKey' = IF Live(r) THEN NoId ELSE semKey
    /\ semval' = IF Live(r) THEN 0 ELSE semval
    /\ adj' = IF Live(r) THEN [p \in Workers |-> 0] ELSE adj
    /\ Advance(r)
    /\ UNCHANGED <<work, shm, semid, kills>>

\* shmctl(IPC_RMID) frees the key; the segment lives while it is attached.
RmShm(r) ==
    /\ main[r] = "rmshm"
    /\ shmKey' = IF shmKey = shmid[r] THEN NoId ELSE shmKey
    /\ Advance(r)
    /\ UNCHANGED <<work, counter, shmid, att, base, sem, kills>>

-------------------------------------------------------------------------------
\* Mutants: sem_op without SEM_UNDO; sem_op with IPC_NOWAIT.
LockWithoutUndo(w) ==
    /\ pc[w] = "lock"
    /\ semval > 0
    /\ semval' = semval - 1
    /\ pc' = [pc EXCEPT ![w] = "load"]
    /\ UNCHANGED <<main, done, reg, shm, semKey, semid, adj, kills>>

LockNoWait(w) ==
    /\ pc[w] = "lock"
    /\ semval' = IF semval > 0 THEN semval - 1 ELSE semval
    /\ pc' = [pc EXCEPT ![w] = "load"]
    /\ UNCHANGED <<main, done, reg, shm, semKey, semid, adj, kills>>

\* sem_lock: blocks while the value is 0.  On a removed set semop fails
\* (EINVAL, or EIDRM when it was blocked) and do_add and do_sub ignore that.
Lock(w) ==
    /\ pc[w] = "lock"
    /\ \/ /\ Live(w[1])
          /\ semval > 0
          /\ semval' = semval - 1
          /\ adj' = [adj EXCEPT ![Proc(w)] = @ + 1]
       \/ /\ ~Live(w[1])
          /\ UNCHANGED <<semval, adj>>
    /\ pc' = [pc EXCEPT ![w] = "load"]
    /\ UNCHANGED <<main, done, reg, shm, semKey, semid, kills>>

\* info->counter++ and info->counter-- are a load and a store.
Load(w) ==
    /\ pc[w] = "load"
    /\ reg' = [reg EXCEPT ![w] = counter[shmid[w[1]]]]
    /\ pc' = [pc EXCEPT ![w] = "store"]
    /\ UNCHANGED <<main, done, shm, sem, kills>>

\* Mutant: i <= MAX_TRY.
StoreOneTooMany(w) ==
    /\ pc[w] = "store"
    /\ counter' = [counter EXCEPT ![shmid[w[1]]] = reg[w] + Delta(w)]
    /\ done' = [done EXCEPT ![w] = @ + 1]
    /\ pc' = [pc EXCEPT ![w] = IF done'[w] <= MaxTry THEN "load" ELSE LeaveLoop(w)]
    /\ UNCHANGED <<main, reg, shmKey, shmid, att, base, sem, kills>>

Store(w) ==
    /\ pc[w] = "store"
    /\ counter' = [counter EXCEPT ![shmid[w[1]]] = reg[w] + Delta(w)]
    /\ done' = [done EXCEPT ![w] = @ + 1]
    /\ pc' = [pc EXCEPT ![w] = IF done'[w] < MaxTry THEN "load" ELSE LeaveLoop(w)]
    /\ UNCHANGED <<main, reg, shmKey, shmid, att, base, sem, kills>>

Unlock(w) ==
    /\ pc[w] = "unlock"
    /\ semval' = IF Live(w[1]) THEN semval + 1 ELSE semval
    /\ adj' = IF Live(w[1]) THEN [adj EXCEPT ![Proc(w)] = @ - 1] ELSE adj
    /\ pc' = [pc EXCEPT ![w] = Return(w)]
    /\ UNCHANGED <<main, done, reg, shm, semKey, semid, kills>>

\* The end of a process: its unfinished workers stop where they are, its
\* segment is detached and its adjustment is added to the semaphore, whose
\* value the kernel keeps at 0 or above.
EndProcess(p, how) ==
    /\ pc' = [w \in Workers |->
                IF Proc(w) = p /\ pc[w] # "done" THEN how ELSE pc[w]]
    /\ att' = att \ {p}
    /\ semval' = IF semval + adj[p] < 0 THEN 0 ELSE semval + adj[p]
    /\ adj' = [adj EXCEPT ![p] = 0]
    /\ UNCHANGED <<done, reg, shmKey, counter, shmid, base, semKey, semid>>

\* The child returns from main.
ChildExit(w) ==
    /\ pc[w] = "exit"
    /\ EndProcess(w, "done")
    /\ UNCHANGED <<main, kills>>

\* main returns -1 without removing anything: a call failed for want of
\* resources, the segment was destroyed between shmget and shmat, or shmdt()
\* was refused and with it the two IPC_RMIDs behind it were left out.
Abort(r) ==
    /\ EndProcess(<<r, "parent">>, "killed")
    /\ main' = [main EXCEPT ![r] = "failed"]
    /\ UNCHANGED kills

Fail(r) ==
    /\ main[r] \in {"shmget", "shmat", "semget", "fork", "create0", "create1", "shmdt"}
    /\ Abort(r)

SegmentGone(r) ==
    /\ main[r] = "shmat"
    /\ ~Exists(shmid[r])
    /\ Abort(r)

KillMain(r) ==
    /\ kills < MaxKills
    /\ main[r] \notin {"shmget"} \union Ended
    /\ EndProcess(<<r, "parent">>, "killed")
    /\ main' = [main EXCEPT ![r] = "killed"]
    /\ kills' = kills + 1

KillChild(w) ==
    /\ kills < MaxKills
    /\ w[2] = "child" /\ Proc(w) = w
    /\ pc[w] \notin {"idle", "done", "killed"}
    /\ EndProcess(w, "killed")
    /\ kills' = kills + 1
    /\ UNCHANGED main

MainStep(r) ==
    \/ ShmGet(r) \/ ShmAt(r) \/ SemGet(r) \/ SetVal(r) \/ Fork(r)
    \/ CreateThread(r, "create0", "parent")
    \/ CreateThread(r, "create1", "child")
    \/ Join(r) \/ ShmDt(r) \/ RmSem(r) \/ RmShm(r) \/ SegmentGone(r)

WorkerStep(w) == Lock(w) \/ Load(w) \/ Store(w) \/ Unlock(w) \/ ChildExit(w)

Next ==
    \/ \E r \in Runs : MainStep(r) \/ Fail(r) \/ KillMain(r)
    \/ \E w \in Workers : WorkerStep(w) \/ KillChild(w)

Spec == Init /\ [][Next]_vars

\* The kernel schedules every process and thread and wakes a semop whose
\* semaphore stays positive.  Failures and kills are not owed to anyone.
Fairness ==
    /\ \A r \in Runs : WF_vars(MainStep(r))
    /\ \A w \in Workers : WF_vars(WorkerStep(w))

FairSpec == Spec /\ Fairness

-------------------------------------------------------------------------------
TypeOK ==
    /\ main \in [Runs -> {"shmget", "shmat", "semget", "setval", "fork", "create0",
                          "create1", "work", "shmdt", "rmsem", "rmshm"} \union Ended]
    /\ pc \in [Workers -> {"idle", "lock", "load", "store", "unlock", "exit",
                           "done", "killed"}]
    /\ done \in [Workers -> 0..MaxTry]
    /\ reg \in [Workers -> Int]
    /\ shmKey \in Runs \union {NoId}
    /\ counter \in [Runs -> Int]
    /\ shmid \in [Runs -> Runs \union {NoId}]
    /\ att \subseteq Workers
    /\ base \in [Runs -> Int]
    /\ semKey \in Runs \union {NoId}
    /\ semid \in [Runs -> Runs \union {NoId}]
    /\ semval \in Nat
    /\ adj \in [Workers -> Int]
    /\ kills \in Nat

InSection(w) == Locked(w[1]) /\ pc[w] \in {"load", "store", "unlock"}
Attached(r)  == \E p \in att : p[1] = r

\* Between sem_lock and sem_unlock a worker is alone on its segment, whoever
\* was killed before and whatever semaphore an earlier run left behind.
MutualExclusion ==
    \A v, w \in Workers :
        InSection(v) /\ InSection(w) /\ shmid[v[1]] = shmid[w[1]] => v = w

\* In the two locking programs no update is lost: at every moment the counter
\* is what the run found when it attached, plus the increments and minus the
\* decrements made so far, even when one worker was killed half way.  In
\* particular "final counter" is what it was before the run.
NoLostUpdate ==
    \A r \in Runs : Locked(r) /\ Attached(r) =>
        counter[shmid[r]] = base[r] + done[<<r, "child">>] - done[<<r, "parent">>]

\* Updates may be lost (10_shm_sysv_unsafe.c), but no more than were made: the
\* counter stays between all decrements alone and all increments alone.
LossBounded ==
    \A r \in Runs : Attached(r) =>
        counter[shmid[r]] \in
            (base[r] - done[<<r, "parent">>])..(base[r] + done[<<r, "child">>])

\* The SEM_UNDO adjustment of a process is exactly what it holds, so the
\* kernel gives back on exit what the process took and nothing else.
UndoIsHolding ==
    \A w \in Workers :
        /\ InSection(w) => adj[Proc(w)] = 1 /\ semval = 0
        /\ adj[w] # 0 => \E v \in Workers : Proc(v) = w /\ InSection(v)

\* The IPC_RMIDs come after the wait or the joins: no worker of any run is
\* ever left on a segment or a semaphore whose identifier was removed.
RemovedAfterUse ==
    \A w \in Workers : pc[w] \in {"lock", "load", "store", "unlock"} =>
        /\ shmid[w[1]] = shmKey
        /\ Locked(w[1]) => Live(w[1])

\* A worker waits in semop only while another one is between its semop calls,
\* with the unit in its process's SEM_UNDO adjustment: sem_unlock or its death
\* will give it back.  It holds of overlapping runs too, where mutual exclusion
\* does not, and so the waiters never wait for each other only.
WaitsForHolder ==
    \A w \in Workers : pc[w] = "lock" /\ Live(w[1]) /\ semval = 0 =>
        \E v \in Workers : InSection(v) /\ Live(v[1]) /\ adj[Proc(v)] > 0

\* No run stays active for ever, which once started means that it ends: every
\* worker gets the semaphore or an error, also when the holder is killed inside
\* its section.
EveryRunEnds == \A r \in Runs : []<>~Active(r)

\* The counter the two locking programs promise: one owner at a time, whose
\* updates are atomic.  The owner is the worker between its semop calls; one
\* that is killed there has released the counter.
Value == IF shmKey = NoId THEN 0 ELSE counter[shmKey]
Owner == IF \E w \in Workers : InSection(w)
         THEN CHOOSE w \in Workers : InSection(w) ELSE NoId

Amounts(w) == {Delta(w)}
AtomicCounter ==
    INSTANCE GuardedCounter WITH value <- Value, owner <- Owner, Nobody <- NoId

\* Runs that do not overlap implement that counter, whatever fails or is
\* killed: the load and the store of info->counter are never interleaved with
\* another worker's, and a segment is replaced only when nobody owns it.
ImplementsGuardedCounter == AtomicCounter!Spec

\* "binary semaphore" (10_shm_sysv_safe.c:126): the value is 0 or 1.
BinarySemaphore == semval \in {0, 1}
===============================================================================
