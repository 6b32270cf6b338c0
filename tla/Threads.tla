-------------------------------- MODULE Threads --------------------------------
(***************************************************************************)
(* Programs whose main creates two threads and ends:                       *)
(*   16_thread_test.c    the threads print 11 times, a second apart; main  *)
(*                       sleeps 12 seconds                         "sleep" *)
(*   17_thread_join.c    the same threads; main joins them          "join" *)
(*   18_thread_unsafe.c  the threads count up and down again; main joins   *)
(*                       them                                     "unsafe" *)
(*   19_thread_safe.c    the same with a mutex around the loops     "safe" *)
(* When main returns, the process ends and takes its threads with it.      *)
(* Time is counted in seconds.  lag bounds how late the scheduler may run  *)
(* somebody whose sleep() is over: with lag = 0 everybody is prompt.       *)
(***************************************************************************)
EXTENDS Integers, FiniteSets

CONSTANTS
    ThreadPrograms, \* the programs, a subset of {"sleep", "join", "unsafe", "safe"}
    Lags,           \* the values of lag
    MaxTry,         \* MAX_TRY
    NoThread

Thread == {1, 2}
MainThread == 0

ASSUME ThreadAssumption ==
    /\ ThreadPrograms \subseteq {"sleep", "join", "unsafe", "safe"}
    /\ Lags \subseteq Nat /\ MaxTry \in Nat \ {0}
    /\ NoThread \notin Thread

VARIABLES
    thProg,     \* the program that is executed
    lag,
    mainPc,     \* what main is about to do
    joined,     \* the threads it joined
    thPc,       \* what each thread is about to do
    left,       \* the rounds left in its loop
    register,   \* the value of shared it loaded
    shared,
    mutex,      \* the thread that has the mutex
    now,        \* seconds since the start
    due         \* when the sleep() of each thread and of main is over

thVars == <<thProg, lag, mainPc, joined, thPc, left, register, shared, mutex, now, due>>
count == <<register, shared, mutex>>
time == <<now, due>>

Counting == thProg \in {"unsafe", "safe"}

\* Mutants: the loop goes from 100 to 0 in 12 rounds; main sleeps 11 seconds.
RoundsOfTwelve == IF Counting THEN MaxTry ELSE 12
MainSleepShort == 11

\* for (i = 100; i >= 0; i -= 10), and sleep(12) of main
RoundsOf == IF Counting THEN MaxTry ELSE 11
MainSleep == 12

ThInit ==
    /\ thProg \in ThreadPrograms
    /\ lag \in IF Counting THEN {0} ELSE Lags
    /\ mainPc = "create" /\ joined = {}
    /\ thPc = [t \in Thread |-> "none"]
    /\ left = [t \in Thread |-> RoundsOf]
    /\ register = [t \in Thread |-> 0]
    /\ shared = 0 /\ mutex = NoThread
    /\ now = 0 /\ due = [a \in Thread \union {MainThread} |-> 0]

ThGoTo(t, step) == thPc' = [thPc EXCEPT ![t] = step]
Created == {t \in Thread : thPc[t] # "none"}
Running == mainPc \notin {"returned", "failed"}

\* pthread_create(&child_threads[0]) and then [1]; main goes on when both are there.
CreateThread(t) ==
    /\ mainPc = "create"
    /\ Created = 1..(t - 1)
    /\ ThGoTo(t, IF thProg = "safe" THEN "lock" ELSE IF Counting THEN "load" ELSE "print")
    /\ due' = [due EXCEPT ![t] = now, ![MainThread] = IF t = 2 THEN now + MainSleep ELSE now]
    /\ mainPc' = IF t = 1 THEN "create" ELSE IF thProg = "sleep" THEN "sleep" ELSE "join"
    /\ UNCHANGED <<thProg, lag, joined, left, count, now>>

\* pthread_create or pthread_mutex_init fails: main returns -1, and the process
\* ends with the thread it may have.
CreateFails ==
    /\ mainPc = "create"
    /\ mainPc' = "failed"
    /\ UNCHANGED <<thProg, lag, joined, thPc, left, count, time>>

\* Mutant: only the first thread is joined.
JoinFirst(t) ==
    /\ mainPc = "join"
    /\ joined = {} /\ thPc[t] = "ended"
    /\ joined' = {t}
    /\ mainPc' = "return"
    /\ UNCHANGED <<thProg, lag, thPc, left, count, time>>

\* pthread_join(child_threads[0]), then [1].
Join(t) ==
    /\ mainPc = "join"
    /\ joined = 1..(t - 1) /\ thPc[t] = "ended"
    /\ joined' = joined \union {t}
    /\ mainPc' = IF t = 2 THEN "return" ELSE "join"
    /\ UNCHANGED <<thProg, lag, thPc, left, count, time>>

MainReturns ==
    /\ mainPc = "return" \/ (mainPc = "sleep" /\ now >= due[MainThread])
    /\ mainPc' = "returned"
    /\ UNCHANGED <<thProg, lag, joined, thPc, left, count, time>>

\* A round of the loop: printf() and sleep(1).
PrintRound(t) ==
    /\ thPc[t] = "print" /\ now >= due[t] /\ left[t] > 0
    /\ left' = [left EXCEPT ![t] = @ - 1]
    /\ due' = [due EXCEPT ![t] = now + 1]
    /\ UNCHANGED <<thProg, lag, mainPc, joined, thPc, count, now>>

\* The last round is over: the thread returns.
PrintEnds(t) ==
    /\ thPc[t] = "print" /\ now >= due[t] /\ left[t] = 0
    /\ ThGoTo(t, "ended")
    /\ UNCHANGED <<thProg, lag, mainPc, joined, left, count, time>>

\* Mutant: the mutex is not waited for.
LockBusy(t) ==
    /\ thPc[t] = "lock"
    /\ mutex' = t
    /\ ThGoTo(t, "load")
    /\ UNCHANGED <<thProg, lag, mainPc, joined, left, register, shared, time>>

\* pthread_mutex_lock(&mutex) waits until no thread has it.
Lock(t) ==
    /\ thPc[t] = "lock" /\ mutex = NoThread
    /\ mutex' = t
    /\ ThGoTo(t, "load")
    /\ UNCHANGED <<thProg, lag, mainPc, joined, left, register, shared, time>>

\* shared++ of the first loop and shared-- of the second are a load and a store;
\* left counts from MaxTry down to 0 in the first and on to -MaxTry in the second.
LoadShared(t) ==
    /\ thPc[t] = "load"
    /\ register' = [register EXCEPT ![t] = shared]
    /\ ThGoTo(t, "store")
    /\ UNCHANGED <<thProg, lag, mainPc, joined, left, shared, mutex, time>>

AfterLoops == IF thProg = "safe" THEN "unlock" ELSE "ended"

\* Mutant: the mutex protects the first loop only.
StoreSharedReleased(t) ==
    /\ thPc[t] = "store"
    /\ shared' = IF left[t] > 0 THEN register[t] + 1 ELSE register[t] - 1
    /\ left' = [left EXCEPT ![t] = @ - 1]
    /\ mutex' = IF left'[t] = 0 /\ thProg = "safe" THEN NoThread ELSE mutex
    /\ ThGoTo(t, IF left'[t] = -MaxTry THEN AfterLoops ELSE "load")
    /\ UNCHANGED <<thProg, lag, mainPc, joined, register, time>>

StoreShared(t) ==
    /\ thPc[t] = "store"
    /\ shared' = IF left[t] > 0 THEN register[t] + 1 ELSE register[t] - 1
    /\ left' = [left EXCEPT ![t] = @ - 1]
    /\ ThGoTo(t, IF left'[t] = -MaxTry THEN AfterLoops ELSE "load")
    /\ UNCHANGED <<thProg, lag, mainPc, joined, register, mutex, time>>

\* Mutant: the thread returns with the mutex.
UnlockForgotten(t) ==
    /\ thPc[t] = "unlock"
    /\ ThGoTo(t, "ended")
    /\ UNCHANGED <<thProg, lag, mainPc, joined, left, register, shared, mutex, time>>

\* pthread_mutex_unlock(&mutex)
Unlock(t) ==
    /\ thPc[t] = "unlock"
    /\ mutex' = NoThread
    /\ ThGoTo(t, "ended")
    /\ UNCHANGED <<thProg, lag, mainPc, joined, left, register, shared, time>>

\* A second passes, unless somebody who can run would be run too late.
Waits(a) == IF a = MainThread THEN mainPc \in {"create", "sleep"} ELSE thPc[a] = "print"
Tick ==
    /\ ~Counting /\ Running
    /\ \E a \in DOMAIN due : Waits(a)
    /\ \A a \in DOMAIN due : Waits(a) => now < due[a] + lag
    /\ now' = now + 1
    /\ UNCHANGED <<thProg, lag, mainPc, joined, thPc, left, count, due>>

ThreadStep(t) ==
    /\ Running
    /\ \/ PrintRound(t) \/ PrintEnds(t)
       \/ Lock(t) \/ LoadShared(t) \/ StoreShared(t) \/ Unlock(t)
MainStep == MainReturns \/ \E t \in Thread : CreateThread(t) \/ Join(t)

ThNext == MainStep \/ CreateFails \/ Tick \/ \E t \in Thread : ThreadStep(t)

ThSpec == ThInit /\ [][ThNext]_thVars

-------------------------------------------------------------------------------
ThTypeOK ==
    /\ thProg \in ThreadPrograms
    /\ lag \in Nat
    /\ mainPc \in {"create", "sleep", "join", "return", "returned", "failed"}
    /\ joined \subseteq Thread
    /\ thPc \in [Thread -> {"none", "print", "lock", "load", "store", "unlock", "ended"}]
    /\ left \in [Thread -> Int]
    /\ register \in [Thread -> Int]
    /\ shared \in Int
    /\ mutex \in Thread \union {NoThread}
    /\ now \in Nat
    /\ due \in [Thread \union {MainThread} -> Nat]

\* A main that returns 0 returns after its threads: the ones that are joined, and,
\* as long as everybody is run promptly, the ones it sleeps for, which need 11
\* seconds.  (sleep(12) and the loop of 16_thread_test.c, pthread_join)
MainLast ==
    mainPc = "returned" /\ (thProg = "sleep" => lag = 0)
      => \A t \in Thread : thPc[t] = "ended"

\* With the mutex the counter is 0 whenever no thread is between lock and unlock,
\* so main prints 0.  Without it main may print up to 2 * MAX_TRY - 1 more
\* or less.
CounterResult ==
    /\ thProg = "safe" /\ mutex = NoThread => shared = 0
    /\ thProg = "safe" /\ mainPc = "returned" => mutex = NoThread
    /\ thProg = "unsafe" /\ mainPc = "returned" => shared \in (1 - 2 * MaxTry)..(2 * MaxTry - 1)

\* The mutex of 19_thread_safe.c makes the promise that the semaphore of the
\* shared-memory programs makes: who has it is alone on the counter.
Amounts(t) == {1, -1}
Protected  == IF thProg = "safe" THEN shared ELSE 0
MutexCounter ==
    INSTANCE GuardedCounter WITH Workers <- Thread, value <- Protected, owner <- mutex,
                                 Nobody <- NoThread
MutexGuardsCounter == MutexCounter!Spec

\* The process ends, also when a thread waits for the mutex of the other.
ThreadsEnd == mainPc \in {"sleep", "join"} ~> ~Running
===============================================================================
