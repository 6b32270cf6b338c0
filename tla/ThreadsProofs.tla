----------------------------- MODULE ThreadsProofs -----------------------------
(***************************************************************************)
(* Proofs about Threads: every MAX_TRY, every lag, every order of the      *)
(* threads' loads and stores.                                              *)
(***************************************************************************)
EXTENDS Threads, TLAPS

\* The steps of a thread in each program.
Kinds ==
    \A t \in Thread :
        /\ thProg \in {"sleep", "join"} => thPc[t] \in {"none", "print", "ended"}
        /\ thProg = "unsafe" => thPc[t] \in {"none", "load", "store", "ended"}
        /\ thProg = "safe" => thPc[t] \in {"none", "lock", "load", "store", "unlock", "ended"}

\* What main has done when it is where it is.
Progress ==
    /\ mainPc = "create" => joined = {} /\ thPc[2] = "none"
    /\ mainPc \in {"sleep", "join", "return", "returned"} => \A t \in Thread : thPc[t] # "none"
    /\ mainPc = "sleep" => thProg = "sleep"
    /\ mainPc \in {"join", "return"} => thProg # "sleep"
    /\ mainPc = "return" \/ (mainPc = "returned" /\ thProg # "sleep") => joined = Thread
    /\ \A t \in joined : thPc[t] = "ended"

\* Threads that sleep are never late when nobody is, and need 11 seconds.
Clock ==
    thProg = "sleep" /\ lag = 0 =>
        /\ mainPc = "create" => now = 0 /\ due[MainThread] = 0
        /\ mainPc = "sleep" => due[MainThread] = 12
        /\ \A t \in Thread :
              /\ left[t] \in 0..11
              /\ thPc[t] = "none" => left[t] = 11
              /\ thPc[t] = "print" => due[t] + left[t] <= 11 /\ now <= due[t]

\* The loops of 18_thread_unsafe.c and 19_thread_safe.c.
Looping ==
    Counting => \A t \in Thread :
        /\ left[t] \in -MaxTry..MaxTry
        /\ thPc[t] \in {"none", "lock"} => left[t] = MaxTry
        /\ thPc[t] \in {"load", "store"} => left[t] > -MaxTry
        /\ thPc[t] \in {"unlock", "ended"} => left[t] = -MaxTry

\* With the mutex, shared is where the one who has it is in its loops.
Guarded ==
    thProg = "safe" =>
        /\ mutex = NoThread => shared = 0
        /\ \A t \in Thread :
              /\ thPc[t] \in {"load", "store", "unlock"} <=> mutex = t
              /\ mutex = t => shared = IF left[t] >= 0 THEN MaxTry - left[t] ELSE MaxTry + left[t]
              /\ thPc[t] = "store" => register[t] = shared

\* Without it, shared is between the increments and the decrements so far, and
\* an increment comes before every decrement, a decrement after every increment.
Up(t)   == IF left[t] >= 0 THEN MaxTry - left[t] ELSE MaxTry
Down(t) == IF left[t] < 0 THEN -left[t] ELSE 0
Between(v, t) ==
    /\ v <= Up(1) + Up(2) /\ v >= -(Down(1) + Down(2))
    /\ left[t] < MaxTry => v > -(Down(1) + Down(2))
Raced ==
    thProg = "unsafe" =>
        /\ \A t \in Thread : Between(shared, t) /\ (thPc[t] = "store" => Between(register[t], t))
        /\ left[1] = -MaxTry /\ left[2] = -MaxTry => shared < 2 * MaxTry

ThInv == ThTypeOK /\ Kinds /\ Progress /\ Clock /\ Looping /\ Guarded /\ Raced /\ MainLast

\* The threads that come before one.
LEMMA ThreadsBefore == ASSUME NEW t \in Thread PROVE 1..(t - 1) = IF t = 1 THEN {} ELSE {1}
  <1>1. CASE t = 1
    <2>1. \A i \in 1..0 : FALSE
      OBVIOUS
    <2> QED
      BY <1>1, <2>1
  <1>2. CASE t = 2
    <2>1. \A i : i \in 1..1 <=> i = 1
      OBVIOUS
    <2>2. t - 1 = 1 /\ t # 1
      BY <1>2
    <2> QED
      BY <2>1, <2>2
  <1> QED
    BY <1>1, <1>2 DEF Thread

LEMMA ThInvInit == ThInit => ThInv
  <1> SUFFICES ASSUME ThInit PROVE ThInv
    OBVIOUS
  <1>1. /\ \A t \in Thread : thPc[t] = "none" /\ left[t] = RoundsOf /\ register[t] = 0
        /\ mainPc = "create" /\ joined = {} /\ shared = 0 /\ mutex = NoThread /\ now = 0
        /\ due[MainThread] = 0 /\ MaxTry \in Nat \ {0} /\ NoThread \notin Thread
        /\ 1 \in Thread /\ 2 \in Thread
    BY ThreadAssumption DEF ThInit, Thread
  <1>2. ThTypeOK
    BY ThreadAssumption DEF ThInit, ThTypeOK, RoundsOf
  <1>3. Kinds /\ Progress /\ MainLast
    BY <1>1 DEF Kinds, Progress, MainLast
  <1>4. Clock
    BY <1>1 DEF Clock, RoundsOf, Counting
  <1>5. Looping /\ Guarded
    BY <1>1 DEF Looping, Guarded, RoundsOf
  <1>6. Raced
    BY <1>1 DEF Raced, Between, Up, Down, RoundsOf, Counting
  <1> QED
    BY <1>2, <1>3, <1>4, <1>5, <1>6 DEF ThInv

LEMMA CreateThreadKeeps ==
    ASSUME ThInv, NEW t \in Thread, CreateThread(t) PROVE ThInv'
  <1>0. /\ ThTypeOK /\ Kinds /\ Progress /\ Clock /\ Looping /\ Guarded /\ Raced /\ MainLast
        /\ MaxTry \in Nat \ {0} /\ NoThread \notin Thread /\ Thread = {1, 2} /\ MainThread = 0
    BY ThreadAssumption DEF ThInv, Thread, MainThread
  <1>1. /\ mainPc = "create" /\ mainPc' = (IF t = 1 THEN "create" ELSE IF thProg = "sleep" THEN "sleep" ELSE "join")
        /\ thPc' = [thPc EXCEPT ![t] = IF thProg = "safe" THEN "lock" ELSE IF Counting THEN "load" ELSE "print"]
        /\ due' = [due EXCEPT ![t] = now, ![MainThread] = IF t = 2 THEN now + 12 ELSE now]
        /\ UNCHANGED <<thProg, lag, joined, left, register, shared, mutex, now>>
    BY DEF CreateThread, ThGoTo, count, MainSleep
  <1>2. thPc[t] = "none" /\ (t = 2 => thPc[1] # "none")
    <2>1. 1..(t - 1) = IF t = 1 THEN {} ELSE {1}
      BY ThreadsBefore
    <2>2. Created = 1..(t - 1)
      BY DEF CreateThread
    <2>3. \A u \in Thread : u \in Created <=> thPc[u] # "none"
      BY DEF Created
    <2>4. t \notin Created /\ (t = 2 => 1 \in Created)
      BY <1>0, <2>1, <2>2
    <2> QED
      BY <1>0, <2>3, <2>4
  <1>3. ThTypeOK'
    BY <1>0, <1>1 DEF ThTypeOK
  <1>4. Kinds'
    BY <1>0, <1>1 DEF Kinds, ThTypeOK, Counting
  <1>5. Progress' /\ MainLast'
    BY <1>0, <1>1, <1>2 DEF Progress, ThTypeOK, MainLast
  <1>6. Clock'
    BY <1>0, <1>1, <1>2 DEF Clock, ThTypeOK
  <1>7. Looping'
    BY <1>0, <1>1, <1>2 DEF Looping, ThTypeOK, Counting
  <1>8. Guarded'
    BY <1>0, <1>1, <1>2 DEF Guarded, ThTypeOK, Counting
  <1>9. Raced'
    BY <1>0, <1>1, <1>2 DEF Raced, Between, Up, Down, ThTypeOK, Counting
  <1> QED
    BY <1>3, <1>4, <1>5, <1>6, <1>7, <1>8, <1>9 DEF ThInv

\* main joins a thread, returns or fails: nothing of the threads changes.
LEMMA MainKeeps ==
    ASSUME ThInv, CreateFails \/ MainReturns \/ \E t \in Thread : Join(t) PROVE ThInv'
  <1>0. /\ ThTypeOK /\ Kinds /\ Progress /\ Clock /\ Looping /\ Guarded /\ Raced /\ MainLast
        /\ Thread = {1, 2}
    BY DEF ThInv, Thread
  <1>1. UNCHANGED <<thProg, lag, thPc, left, register, shared, mutex, now, due>>
    BY DEF CreateFails, MainReturns, Join, count, time
  <1>2. \/ mainPc = "create" /\ mainPc' = "failed" /\ joined' = joined
        \/ mainPc = "return" /\ mainPc' = "returned" /\ joined' = joined
        \/ mainPc = "sleep" /\ now >= due[MainThread] /\ mainPc' = "returned" /\ joined' = joined
        \/ mainPc = "join" /\ thPc[1] = "ended" /\ mainPc' = "join" /\ joined' = joined \union {1}
        \/ mainPc = "join" /\ thPc[2] = "ended" /\ mainPc' = "return" /\ joined = {1} /\ joined' = {1, 2}
    <2>1. CASE CreateFails \/ MainReturns
      BY <2>1 DEF CreateFails, MainReturns
    <2>2. CASE \E t \in Thread : Join(t)
      <3>1. PICK t \in {1, 2} : Join(t)
        BY <1>0, <2>2
      <3>2. 1..(t - 1) = IF t = 1 THEN {} ELSE {1}
        BY <1>0, ThreadsBefore
      <3>3. /\ mainPc = "join" /\ joined = 1..(t - 1) /\ thPc[t] = "ended"
            /\ joined' = joined \union {t} /\ mainPc' = IF t = 2 THEN "return" ELSE "join"
        BY <3>1 DEF Join
      <3> QED
        BY <3>2, <3>3
    <2> QED
      BY <2>1, <2>2
  <1>3. ThTypeOK' /\ Kinds' /\ Looping' /\ Guarded'
    BY <1>0, <1>1, <1>2 DEF ThTypeOK, Kinds, Looping, Guarded, Counting
  <1>4. Progress'
    BY <1>0, <1>1, <1>2 DEF Progress, ThTypeOK
  <1>5. Clock' /\ Raced'
    BY <1>0, <1>1, <1>2 DEF Clock, Raced, Between, Up, Down
  <1>6. MainLast'
    <2>1. CASE mainPc = "return"
      BY <1>0, <1>1, <2>1 DEF MainLast, Progress
    <2>2. CASE mainPc = "sleep"
      <3>1. /\ thProg = "sleep" /\ now >= due[MainThread]
            /\ \A t \in Thread : thPc[t] \in {"print", "ended"}
        <4>1. now >= due[MainThread] /\ thProg = "sleep"
          BY <1>0, <1>2, <2>2 DEF Progress
        <4> QED
          BY <1>0, <2>2, <4>1 DEF Progress, Kinds
      <3>2. ASSUME lag = 0, NEW t \in Thread PROVE thPc[t] # "print"
        <4>1. /\ now \in Nat /\ due[t] \in Nat /\ now >= 12 /\ left[t] \in 0..11
              /\ thPc[t] = "print" => due[t] + left[t] <= 11 /\ now <= due[t]
          BY <1>0, <2>2, <3>1, <3>2 DEF Clock, ThTypeOK, MainThread
        <4> QED
          BY <4>1
      <3> QED
        BY <1>1, <3>1, <3>2 DEF MainLast
    <2>3. CASE mainPc \notin {"return", "sleep"}
      BY <1>2, <2>3 DEF MainLast
    <2> QED
      BY <2>1, <2>2, <2>3
  <1> QED
    BY <1>3, <1>4, <1>5, <1>6 DEF ThInv

\* A round, and the end, of a thread that prints.
LEMMA PrintKeeps ==
    ASSUME ThInv, Running, NEW t \in Thread, PrintRound(t) \/ PrintEnds(t) PROVE ThInv'
  <1>0. /\ ThTypeOK /\ Kinds /\ Progress /\ Clock /\ Looping /\ Guarded /\ Raced /\ MainLast
        /\ MainThread # t /\ t \in Thread /\ 1 \in Thread /\ 2 \in Thread
    BY DEF ThInv, Thread, MainThread
  <1>1. /\ UNCHANGED <<thProg, lag, mainPc, joined, register, shared, mutex, now>>
        /\ thPc[t] = "print" /\ now >= due[t]
        /\ \/ /\ left[t] > 0 /\ left' = [left EXCEPT ![t] = left[t] - 1]
              /\ due' = [due EXCEPT ![t] = now + 1] /\ thPc' = thPc
           \/ left[t] = 0 /\ thPc' = [thPc EXCEPT ![t] = "ended"] /\ UNCHANGED <<left, due>>
    BY DEF PrintRound, PrintEnds, ThGoTo, count, time
  <1>2. thProg \notin {"unsafe", "safe"} /\ mainPc # "returned"
    BY <1>0, <1>1 DEF Kinds, Running
  <1>3. ThTypeOK'
    BY <1>0, <1>1 DEF ThTypeOK
  <1>4. Kinds' /\ MainLast' /\ Looping' /\ Guarded' /\ Raced'
    BY <1>0, <1>1, <1>2 DEF Kinds, MainLast, Looping, Guarded, Raced, Counting, ThTypeOK
  <1>5. Progress'
    BY <1>0, <1>1 DEF Progress, ThTypeOK
  <1>6. Clock'
    <2> SUFFICES ASSUME thProg = "sleep" /\ lag = 0 PROVE Clock'
      BY <1>1 DEF Clock
    <2>1. now \in Nat /\ due[t] \in Nat /\ left[t] \in 0..11 /\ due[t] + left[t] <= 11 /\ now <= due[t]
      BY <1>0, <1>1 DEF Clock, ThTypeOK
    <2> QED
      BY <1>0, <1>1, <2>1 DEF Clock, ThTypeOK
  <1> QED
    BY <1>3, <1>4, <1>5, <1>6 DEF ThInv

LEMMA TickKeeps == ASSUME ThInv, Tick PROVE ThInv'
  <1>0. ThTypeOK /\ Kinds /\ Progress /\ Clock /\ Looping /\ Guarded /\ Raced /\ MainLast
    BY DEF ThInv
  <1>1. /\ UNCHANGED <<thProg, lag, mainPc, joined, thPc, left, register, shared, mutex, due>>
        /\ now' = now + 1
        /\ \A a \in Thread \union {MainThread} : Waits(a) => now < due[a] + lag
    BY <1>0 DEF Tick, count, ThTypeOK
  <1>2. ThTypeOK' /\ Kinds' /\ Progress' /\ MainLast' /\ Looping' /\ Guarded' /\ Raced'
    BY <1>0, <1>1 DEF ThTypeOK, Kinds, Progress, MainLast, Looping, Guarded, Raced, Between,
                      Up, Down, Counting
  <1>3. Clock'
    <2> SUFFICES ASSUME thProg = "sleep" /\ lag = 0 PROVE Clock'
      BY <1>1 DEF Clock
    <2>1. mainPc # "create"
      BY <1>0, <1>1 DEF Clock, Waits, ThTypeOK
    <2>2. \A t \in Thread : thPc[t] = "print" => now < due[t] /\ now \in Nat /\ due[t] \in Nat
      BY <1>0, <1>1 DEF Waits, ThTypeOK, Thread, MainThread
    <2> QED
      BY <1>0, <1>1, <2>1, <2>2 DEF Clock
  <1> QED
    BY <1>2, <1>3 DEF ThInv

\* The mutex is taken when shared is 0 and given back when it is 0 again.
LEMMA MutexKeeps ==
    ASSUME ThInv, Running, NEW t \in Thread, Lock(t) \/ Unlock(t) PROVE ThInv'
  <1>0. /\ ThTypeOK /\ Kinds /\ Progress /\ Clock /\ Looping /\ Guarded /\ Raced /\ MainLast
        /\ MaxTry \in Nat \ {0} /\ NoThread \notin Thread /\ 1 \in Thread /\ 2 \in Thread
    BY ThreadAssumption DEF ThInv, Thread
  <1>1. /\ UNCHANGED <<thProg, lag, mainPc, joined, left, register, shared, now, due>>
        /\ \/ /\ thPc[t] = "lock" /\ thPc' = [thPc EXCEPT ![t] = "load"]
              /\ mutex = NoThread /\ mutex' = t
           \/ /\ thPc[t] = "unlock" /\ thPc' = [thPc EXCEPT ![t] = "ended"]
              /\ mutex' = NoThread
    BY DEF Lock, Unlock, ThGoTo, time
  <1>2. thProg = "safe" /\ mainPc # "returned"
    BY <1>0, <1>1, ThreadAssumption DEF Kinds, Running, ThTypeOK
  <1>3. ThTypeOK' /\ Kinds' /\ MainLast' /\ Clock' /\ Raced'
    BY <1>0, <1>1, <1>2 DEF ThTypeOK, Kinds, MainLast, Clock, Raced
  <1>4. Progress'
    BY <1>0, <1>1 DEF Progress, ThTypeOK
  <1>5. Looping'
    BY <1>0, <1>1 DEF Looping, ThTypeOK, Counting
  <1>6. Guarded'
    <2>1. mutex' = NoThread => shared = 0
      BY <1>0, <1>1, <1>2 DEF Guarded, Looping, Counting
    <2>2. mutex' = t => shared = IF left[t] >= 0 THEN MaxTry - left[t] ELSE MaxTry + left[t]
      BY <1>0, <1>1, <1>2 DEF Guarded, Looping, Counting
    <2> QED
      BY <1>0, <1>1, <1>2, <2>1, <2>2 DEF Guarded, ThTypeOK
  <1> QED
    BY <1>3, <1>4, <1>5, <1>6 DEF ThInv

LEMMA LoadSharedKeeps ==
    ASSUME ThInv, Running, NEW t \in Thread, LoadShared(t) PROVE ThInv'
  <1>0. /\ ThTypeOK /\ Kinds /\ Progress /\ Clock /\ Looping /\ Guarded /\ Raced /\ MainLast
        /\ MaxTry \in Nat \ {0} /\ NoThread \notin Thread /\ 1 \in Thread /\ 2 \in Thread
    BY ThreadAssumption DEF ThInv, Thread
  <1>1. /\ UNCHANGED <<thProg, lag, mainPc, joined, left, shared, mutex, now, due>>
        /\ thPc[t] = "load" /\ thPc' = [thPc EXCEPT ![t] = "store"]
        /\ register' = [register EXCEPT ![t] = shared]
    BY DEF LoadShared, ThGoTo, time
  <1>2. thProg \in {"unsafe", "safe"} /\ mainPc # "returned"
    BY <1>0, <1>1, ThreadAssumption DEF Kinds, Running, ThTypeOK
  <1>3. ThTypeOK' /\ Kinds' /\ MainLast' /\ Clock'
    BY <1>0, <1>1, <1>2 DEF ThTypeOK, Kinds, MainLast, Clock
  <1>4. Progress'
    BY <1>0, <1>1 DEF Progress, ThTypeOK
  <1>5. Looping'
    BY <1>0, <1>1 DEF Looping, ThTypeOK, Counting
  <1>6. Guarded'
    BY <1>0, <1>1 DEF Guarded, ThTypeOK
  <1>7. Raced'
    BY <1>0, <1>1 DEF Raced, Between, Up, Down, ThTypeOK
  <1> QED
    BY <1>3, <1>4, <1>5, <1>6, <1>7 DEF ThInv

LEMMA StoreSharedKeeps ==
    ASSUME ThInv, Running, NEW t \in Thread, StoreShared(t) PROVE ThInv'
  <1>0. /\ ThTypeOK /\ Kinds /\ Progress /\ Clock /\ Looping /\ Guarded /\ Raced /\ MainLast
        /\ MaxTry \in Nat \ {0} /\ NoThread \notin Thread /\ Thread = {1, 2}
    BY ThreadAssumption DEF ThInv, Thread
  <1>1. /\ UNCHANGED <<thProg, lag, mainPc, joined, register, mutex, now, due>>
        /\ thPc[t] = "store"
        /\ shared' = IF left[t] > 0 THEN register[t] + 1 ELSE register[t] - 1
        /\ left' = [left EXCEPT ![t] = left[t] - 1]
        /\ thPc' = [thPc EXCEPT ![t] = IF left'[t] = -MaxTry THEN AfterLoops ELSE "load"]
    BY DEF StoreShared, ThGoTo, time
  <1>2. thProg \in {"unsafe", "safe"} /\ mainPc # "returned" /\ Counting
    BY <1>0, <1>1, ThreadAssumption DEF Kinds, Running, ThTypeOK, Counting
  <1>3. /\ left'[t] = left[t] - 1 /\ left[t] \in -MaxTry..MaxTry /\ left[t] > -MaxTry
        /\ register[t] \in Int /\ shared \in Int /\ left \in [Thread -> Int]
        /\ thPc \in [Thread -> {"none", "print", "lock", "load", "store", "unlock", "ended"}]
        /\ \A u \in Thread : u # t => left'[u] = left[u] /\ thPc'[u] = thPc[u]
        /\ thPc'[t] = (IF left[t] - 1 = -MaxTry THEN AfterLoops ELSE "load")
        /\ AfterLoops \in {"unlock", "ended"}
    BY <1>0, <1>1, <1>2 DEF Looping, ThTypeOK, AfterLoops
  <1>4. ThTypeOK' /\ MainLast' /\ Clock'
    BY <1>0, <1>1, <1>2, <1>3 DEF ThTypeOK, MainLast, Clock
  <1>5. Kinds'
    BY <1>0, <1>1, <1>2, <1>3 DEF Kinds, AfterLoops
  <1>6. Progress'
    BY <1>0, <1>1, <1>3 DEF Progress
  <1>7. Looping'
    BY <1>0, <1>1, <1>2, <1>3 DEF Looping, Counting, AfterLoops
  <1>8. Guarded'
    <2> SUFFICES ASSUME thProg = "safe" PROVE Guarded'
      BY <1>1 DEF Guarded
    <2>1. mutex = t /\ register[t] = shared /\ mutex # NoThread
      BY <1>0, <1>1 DEF Guarded
    <2>2. shared = IF left[t] >= 0 THEN MaxTry - left[t] ELSE MaxTry + left[t]
      BY <1>0, <2>1 DEF Guarded
    <2>3. \A u \in Thread : u # t => thPc[u] \notin {"load", "store", "unlock"}
      BY <1>0, <2>1 DEF Guarded
    <2>4. shared' = IF left'[t] >= 0 THEN MaxTry - left'[t] ELSE MaxTry + left'[t]
      BY <1>0, <1>1, <1>3, <2>1, <2>2
    <2>5. thPc'[t] \in {"load", "unlock"}
      BY <1>3 DEF AfterLoops
    <2> QED
      BY <1>0, <1>1, <1>3, <2>1, <2>3, <2>4, <2>5 DEF Guarded
  <1>9. Raced'
    <2> SUFFICES ASSUME thProg = "unsafe" PROVE Raced'
      BY <1>1 DEF Raced
    <2>1. Between(register[t], t) /\ \A u \in Thread : left[u] \in -MaxTry..MaxTry /\ register[u] \in Int
      BY <1>0, <1>1, <1>2 DEF Raced, Looping, ThTypeOK
    <2>2. \A u \in Thread : (Up(u))' >= Up(u) /\ (Down(u))' >= Down(u) /\ Up(u) <= MaxTry /\ Down(u) <= MaxTry
                            /\ Up(u) \in Int /\ Down(u) \in Int /\ (Up(u))' \in Int /\ (Down(u))' \in Int
      BY <1>0, <1>3, <2>1 DEF Up, Down
    <2>3. CASE left[t] > 0
      <3>1. (Up(t))' = Up(t) + 1 /\ shared' = register[t] + 1
        BY <1>0, <1>1, <1>3, <2>3 DEF Up
      <3> QED
        BY <1>0, <1>1, <1>3, <2>1, <2>2, <2>3, <3>1 DEF Raced, Between
    <2>4. CASE left[t] <= 0
      <3>1. (Down(t))' = Down(t) + 1 /\ shared' = register[t] - 1 /\ left[t] < MaxTry
        BY <1>0, <1>1, <1>3, <2>4 DEF Down
      <3> QED
        BY <1>0, <1>1, <1>3, <2>1, <2>2, <2>4, <3>1 DEF Raced, Between
    <2> QED
      BY <1>3, <2>3, <2>4
  <1> QED
    BY <1>4, <1>5, <1>6, <1>7, <1>8, <1>9 DEF ThInv

LEMMA ThInvNext == ThInv /\ [ThNext]_thVars => ThInv'
  <1> SUFFICES ASSUME ThInv, [ThNext]_thVars PROVE ThInv'
    OBVIOUS
  <1>1. CASE UNCHANGED thVars
    BY <1>1 DEF thVars, ThInv, ThTypeOK, Kinds, Progress, Clock, Looping, Guarded, Raced, MainLast,
                Counting, Between, Up, Down
  <1>2. CASE ThNext
    BY <1>2, CreateThreadKeeps, MainKeeps, PrintKeeps, TickKeeps, MutexKeeps, LoadSharedKeeps,
       StoreSharedKeeps DEF ThNext, MainStep, ThreadStep
  <1> QED
    BY <1>1, <1>2

\* What every reachable state satisfies.
THEOREM ThInvariant == ThSpec => []ThInv
  <1> QED
    BY ThInvInit, ThInvNext, PTL DEF ThSpec

\* Every variable of Threads keeps its type.
THEOREM ThTypeCorrect == ThSpec => []ThTypeOK
  <1>1. ThInv => ThTypeOK
    BY DEF ThInv
  <1> QED
    BY <1>1, ThInvariant, PTL

\* main returns after the threads it joins, and, when nobody is run late, after
\* those it sleeps for.
THEOREM MainIsLast == ThSpec => []MainLast
  <1>1. ThInv => MainLast
    BY DEF ThInv
  <1> QED
    BY <1>1, ThInvariant, PTL

\* The counter is 0 with the mutex, and within its bounds without it, for every
\* MAX_TRY.
THEOREM CounterIsRight == ThSpec => []CounterResult
  <1>1. ThInv => CounterResult
    <2> SUFFICES ASSUME ThInv PROVE CounterResult
      OBVIOUS
    <2>0. /\ ThTypeOK /\ Looping /\ Guarded /\ Raced /\ MainLast
          /\ MaxTry \in Nat \ {0} /\ Thread = {1, 2}
      BY ThreadAssumption DEF ThInv, Thread
    <2>1. ASSUME thProg = "safe" PROVE mutex = NoThread => shared = 0
      BY <2>0, <2>1 DEF Guarded
    <2>2. ASSUME thProg = "safe", mainPc = "returned" PROVE mutex = NoThread
      BY <2>0, <2>2 DEF Guarded, MainLast, ThTypeOK
    <2>3. ASSUME thProg = "unsafe", mainPc = "returned"
          PROVE  shared \in (1 - 2 * MaxTry)..(2 * MaxTry - 1)
      <3>1. left[1] = -MaxTry /\ left[2] = -MaxTry
        BY <2>0, <2>3 DEF MainLast, Looping, Counting
      <3>2. Between(shared, 1) /\ shared < 2 * MaxTry /\ shared \in Int
        BY <2>0, <2>3, <3>1 DEF Raced, ThTypeOK
      <3>3. Down(1) = MaxTry /\ Down(2) = MaxTry
        BY <2>0, <3>1 DEF Down
      <3> QED
        BY <2>0, <3>1, <3>2, <3>3 DEF Between
    <2> QED
      BY <2>1, <2>2, <2>3 DEF CounterResult
  <1> QED
    BY <1>1, ThInvariant, PTL

-------------------------------------------------------------------------------
\* Only the program with the mutex changes what the mutex protects, and only
\* the thread that has it.
LEMMA MutexMaps == ASSUME ThInv, ThInv', [ThNext]_thVars
                   PROVE  [MutexCounter!Next]_<<Protected, mutex>>
  <1>0. ThTypeOK /\ Kinds /\ Guarded /\ Kinds'
    BY DEF ThInv
  <1>1. CASE /\ UNCHANGED <<thProg, shared, mutex>>
    BY <1>1 DEF Protected
  <1>2. ASSUME NEW t \in Thread, Lock(t) PROVE MutexCounter!Next
    <2>1. mutex = NoThread /\ mutex' = t /\ Protected' = Protected
      BY <1>2 DEF Lock, Protected
    <2> QED
      BY <2>1 DEF MutexCounter!Next, MutexCounter!Acquire
  <1>3. ASSUME NEW t \in Thread, Unlock(t) PROVE MutexCounter!Next
    <2>1. mutex' = NoThread /\ Protected' = Protected
      BY <1>3 DEF Unlock, Protected
    <2> QED
      BY <2>1 DEF MutexCounter!Next, MutexCounter!Release
  <1>4. ASSUME NEW t \in Thread, StoreShared(t)
        PROVE  [MutexCounter!Next]_<<Protected, mutex>>
    <2>1. CASE thProg # "safe"
      BY <1>4, <2>1 DEF StoreShared, Protected
    <2>2. CASE thProg = "safe"
      <3>1. mutex = t /\ register[t] = shared /\ mutex' = mutex
        BY <1>0, <1>4, <2>2 DEF StoreShared, Guarded
      <3>2. Protected' = shared + 1 \/ Protected' = shared + (-1)
        <4>1. shared \in Int /\ register[t] = shared
          BY <1>0, <3>1 DEF ThTypeOK
        <4>2. thProg' = thProg /\ shared' = IF left[t] > 0 THEN register[t] + 1 ELSE register[t] - 1
          BY <1>4 DEF StoreShared
        <4>3. shared' = shared + 1 \/ shared' = shared + (-1)
          BY <4>1, <4>2
        <4> QED
          BY <2>2, <4>2, <4>3 DEF Protected
      <3>3. Protected = shared /\ 1 \in Amounts(t) /\ -1 \in Amounts(t)
        BY <2>2 DEF Protected, Amounts
      <3>4. \E d \in Amounts(t) : Protected' = Protected + d
        BY <3>2, <3>3
      <3> QED
        BY <3>1, <3>4 DEF MutexCounter!Next, MutexCounter!Update
    <2> QED
      BY <2>1, <2>2
  <1>5. \/ UNCHANGED <<thProg, shared, mutex>>
        \/ \E t \in Thread : Lock(t) \/ Unlock(t) \/ StoreShared(t)
    <2>1. CASE UNCHANGED thVars
      BY <2>1 DEF thVars, count
    <2>2. CASE MainStep \/ CreateFails \/ Tick
      BY <2>2 DEF MainStep, MainReturns, CreateThread, Join, CreateFails, Tick, count
    <2>3. ASSUME NEW t \in Thread, ThreadStep(t)
          PROVE  \/ UNCHANGED <<thProg, shared, mutex>>
                 \/ Lock(t) \/ Unlock(t) \/ StoreShared(t)
      BY <2>3 DEF ThreadStep, PrintRound, PrintEnds, LoadShared, count
    <2> QED
      BY <2>1, <2>2, <2>3 DEF ThNext
  <1> QED
    BY <1>1, <1>2, <1>3, <1>4, <1>5

\* 19_thread_safe.c keeps the promise of GuardedCounter for every MAX_TRY: each
\* shared++ and shared-- is atomic, by the thread that has the mutex.  It is the
\* specification that the semaphore of the shared-memory programs implements.
THEOREM MutexImplementation == ThSpec => MutexGuardsCounter
  <1>1. ThInit => MutexCounter!Init
    BY DEF ThInit, MutexCounter!Init, Protected
  <1>2. ThInv /\ ThInv' /\ [ThNext]_thVars => [MutexCounter!Next]_<<Protected, mutex>>
    BY MutexMaps
  <1> QED
    BY <1>1, <1>2, ThInvariant, PTL DEF ThSpec, MutexGuardsCounter, MutexCounter!Spec

-------------------------------------------------------------------------------
(***************************************************************************)
(* Who waits for whom.                                                     *)
(***************************************************************************)
\* A thread that prints has not passed the end of its loop, and main joins the
\* first thread first.
InTurn ==
    /\ \A t \in Thread : thPc[t] = "print" => left[t] >= 0
    /\ \A t \in Thread : thPc[t] = "none" => left[t] = RoundsOf
    /\ mainPc = "join" => joined \in {{}, {1}}

LEMMA InTurnStep == ASSUME ThInv, InTurn, [ThNext]_thVars PROVE InTurn'
  <1>0. /\ ThTypeOK /\ Kinds /\ Progress
        /\ Thread = {1, 2} /\ MainThread = 0 /\ MaxTry \in Nat
        /\ thProg \in {"sleep", "join", "unsafe", "safe"}
    BY ThreadAssumption DEF ThInv, ThTypeOK, Thread, MainThread
  <1>1. CASE UNCHANGED thVars
    BY <1>1 DEF thVars, InTurn, RoundsOf, Counting
  <1>2. ASSUME NEW t \in Thread, CreateThread(t) PROVE InTurn'
    <2>1. /\ mainPc = "create" /\ joined' = joined /\ left' = left
          /\ \A u \in Thread : thPc'[u] = "print" => u = t \/ thPc[u] = "print"
      BY <1>0, <1>2 DEF CreateThread, ThGoTo, ThTypeOK
    <2>2. joined = {}
      BY <1>0, <2>1 DEF Progress
    <2>3. thPc[t] = "none"
      <3>1. 1..(t - 1) = (IF t = 1 THEN {} ELSE {1}) /\ Created = 1..(t - 1)
        BY <1>2, ThreadsBefore DEF CreateThread
      <3>2. t \notin Created
        BY <1>0, <3>1
      <3> QED
        BY <3>2 DEF Created
    <2>4. thPc'[t] = "print" => left[t] = 11
      BY <1>0, <1>2, <2>3 DEF CreateThread, ThGoTo, ThTypeOK, InTurn, RoundsOf, Counting
    <2>5. \A u \in Thread : thPc'[u] = "none" => thPc[u] = "none"
      BY <1>0, <1>2 DEF CreateThread, ThGoTo, ThTypeOK
    <2>6. UNCHANGED thProg
      BY <1>2 DEF CreateThread
    <2>7. \A u \in Thread : thPc'[u] = "print" => left'[u] >= 0
      BY <2>1, <2>4 DEF InTurn
    <2>8. mainPc' = "join" => joined' \in {{}, {1}}
      BY <2>1, <2>2
    <2> QED
      BY <2>1, <2>5, <2>6, <2>7, <2>8 DEF InTurn, RoundsOf, Counting
  <1>3. ASSUME CreateFails \/ MainReturns \/ Tick PROVE InTurn'
    BY <1>3 DEF CreateFails, MainReturns, Tick, count, time, InTurn, RoundsOf, Counting
  <1>4. ASSUME NEW t \in Thread, Join(t) PROVE InTurn'
    <2>1. 1..(t - 1) = IF t = 1 THEN {} ELSE {1}
      BY ThreadsBefore
    <2> QED
      BY <1>0, <1>4, <2>1 DEF Join, count, time, InTurn, RoundsOf, Counting
  <1>5. ASSUME NEW t \in Thread, ThreadStep(t) PROVE InTurn'
    <2>1. /\ UNCHANGED <<thProg, mainPc, joined>>
          /\ \A u \in Thread : u # t => thPc'[u] = thPc[u] /\ left'[u] = left[u]
      BY <1>0, <1>5 DEF ThreadStep, PrintRound, PrintEnds, Lock, LoadShared, StoreShared, Unlock,
         ThGoTo, ThTypeOK
    <2>2. thPc[t] # "none" /\ thPc'[t] # "none" /\ (thPc'[t] = "print" => left'[t] >= 0)
      <3>1. CASE PrintRound(t)
        BY <1>0, <3>1 DEF PrintRound, InTurn, ThTypeOK
      <3>2. CASE PrintEnds(t) \/ Lock(t) \/ LoadShared(t) \/ Unlock(t)
        BY <1>0, <3>2 DEF PrintEnds, Lock, LoadShared, Unlock, ThGoTo, ThTypeOK
      <3>3. CASE StoreShared(t)
        BY <1>0, <3>3 DEF StoreShared, AfterLoops, ThGoTo, ThTypeOK
      <3> QED
        BY <1>5, <3>1, <3>2, <3>3 DEF ThreadStep
    <2> QED
      BY <2>1, <2>2 DEF InTurn, RoundsOf, Counting
  <1> QED
    BY <1>1, <1>2, <1>3, <1>4, <1>5 DEF ThNext, MainStep

\* What can happen next.  A thread waits for the end of its sleep() or for the
\* mutex, main for the end of its sleep() or for a thread.
ThreadCan(t) ==
    \/ thPc[t] = "print" /\ now >= due[t] /\ left[t] >= 0
    \/ thPc[t] = "lock" /\ mutex = NoThread
    \/ thPc[t] \in {"load", "store", "unlock"}
MainCan ==
    \/ mainPc = "create" /\ \E t \in Thread : Created = 1..(t - 1)
    \/ mainPc = "sleep" /\ now >= due[MainThread]
    \/ mainPc = "join" /\ \E t \in Thread : joined = 1..(t - 1) /\ thPc[t] = "ended"
    \/ mainPc = "return"
TickCan ==
    /\ ~Counting
    /\ \E a \in DOMAIN due : Waits(a)
    /\ \A a \in DOMAIN due : Waits(a) => now < due[a] + lag
ThGoesOn == Running => MainCan \/ TickCan \/ \E t \in Thread : ThreadCan(t)

\* Until the process ends, somebody can run or it is only a matter of time: main
\* and the threads never wait for each other, whichever has the mutex.
THEOREM NobodyStuck == ThSpec => []ThGoesOn
  <1>1. ThInit => InTurn
    BY DEF ThInit, InTurn
  <1>2. ThInv /\ InTurn => ThGoesOn
    <2> SUFFICES ASSUME ThInv, InTurn, Running, ~MainCan, \A t \in Thread : ~ThreadCan(t)
                 PROVE  TickCan
      BY DEF ThGoesOn
    <2>0. /\ ThTypeOK /\ Kinds /\ Progress /\ Guarded
          /\ DOMAIN due = Thread \union {MainThread} /\ Thread = {1, 2} /\ MainThread = 0
          /\ NoThread \notin Thread /\ thProg \in {"sleep", "join", "unsafe", "safe"} /\ lag \in Nat /\ now \in Nat
      BY ThreadAssumption DEF ThInv, Thread, MainThread, ThTypeOK
    <2>1. \A t \in Thread : 1..(t - 1) = IF t = 1 THEN {} ELSE {1}
      BY ThreadsBefore
    <2>2. mainPc # "create"
      <3>1. ASSUME mainPc = "create" PROVE Created \in {{}, {1}}
        BY <2>0, <3>1 DEF Progress, Created
      <3> QED
        BY <2>0, <2>1, <3>1 DEF MainCan
    <2>3. mainPc \in {"sleep", "join"}
      BY <2>0, <2>2 DEF MainCan, Running, ThTypeOK
    <2>4. \A t \in Thread : due[t] \in Nat /\ (thPc[t] = "print" => now < due[t])
      <3>1. \A t \in Thread : thPc[t] = "print" => left[t] >= 0 /\ ~(now >= due[t])
        BY DEF InTurn, ThreadCan
      <3> QED
        BY <2>0, <3>1 DEF ThTypeOK
    <2>5. due[MainThread] \in Nat /\ (mainPc = "sleep" => now < due[MainThread])
      BY <2>0 DEF MainCan, ThTypeOK
    <2>6. \A a \in DOMAIN due : Waits(a) => now < due[a] + lag
      BY <2>0, <2>2, <2>4, <2>5 DEF Waits
    <2>7. CASE mainPc = "sleep"
      BY <2>0, <2>6, <2>7 DEF Waits, TickCan, Progress, Counting
    <2>8. CASE mainPc = "join"
      <3>1. PICK t \in Thread : joined = 1..(t - 1)
        BY <2>0, <2>1, <2>8 DEF InTurn
      <3>2. thPc[t] \notin {"none", "ended", "load", "store", "unlock"}
        BY <2>0, <2>8, <3>1 DEF MainCan, ThreadCan, Progress
      <3>3. thPc[t] # "lock"
        <4>1. ASSUME thPc[t] = "lock" PROVE FALSE
          <5>1. mutex \in Thread /\ thProg = "safe"
            BY <2>0, <4>1 DEF ThreadCan, ThTypeOK, Kinds
          <5>2. thPc[mutex] \in {"load", "store", "unlock"}
            BY <2>0, <5>1 DEF Guarded
          <5> QED
            BY <5>1, <5>2 DEF ThreadCan
        <4> QED
          BY <4>1
      <3>4. thPc[t] = "print"
        BY <2>0, <3>2, <3>3 DEF ThTypeOK
      <3>5. ~Counting /\ Waits(t)
        BY <2>0, <3>4 DEF Kinds, Counting, Waits
      <3> QED
        BY <2>0, <2>6, <3>5 DEF TickCan
    <2> QED
      BY <2>3, <2>7, <2>8
  <1> QED
    BY <1>1, <1>2, InTurnStep, ThInvInit, ThInvNext, PTL DEF ThSpec
===============================================================================
