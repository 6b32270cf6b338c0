--------------------------- MODULE ShmCounterProofs ---------------------------
(***************************************************************************)
(* Proofs about ShmCounter: any number of runs of the three programs, any  *)
(* MAX_TRY, any number of kills and failures.                              *)
(***************************************************************************)
EXTENDS ShmCounter, FiniteSetTheorems, TLAPS

P(r) == <<r, "parent">>
C(r) == <<r, "child">>
Kinds == {"parent", "child"}

Working(w) == pc[w] \in {"lock", "load", "store", "unlock", "exit"}

\* Where the workers of a run are, seen from its main().
Stages(r) ==
    /\ main[r] \in {"shmget", "shmat", "semget", "setval", "fork", "create0"} =>
           pc[P(r)] = "idle" /\ pc[C(r)] = "idle"
    /\ main[r] = "create1" => pc[C(r)] = "idle"
    /\ main[r] \in {"create0", "create1"} => Prog[r] = "thread"
    /\ main[r] = "fork" => Prog[r] # "thread"
    /\ main[r] \in {"semget", "setval", "rmsem"} => Locked(r)
    /\ main[r] \in {"shmdt", "rmsem", "rmshm", "done"} =>
           ~Working(P(r)) /\ ~Working(C(r))
    /\ main[r] \in Ended =>
           ~Working(P(r)) /\ (Prog[r] = "thread" => ~Working(C(r)))
    /\ pc[P(r)] # "exit"
    /\ pc[C(r)] = "exit" => Prog[r] # "thread"
    /\ \A k \in Kinds :
           /\ pc[<<r, k>>] \in {"idle", "lock"} => done[<<r, k>>] = 0
           /\ pc[<<r, k>>] \in {"lock", "unlock"} => Locked(r)
           /\ pc[<<r, k>>] \in {"load", "store"} => done[<<r, k>>] < MaxTry

\* A run past shmget has the identifier of some segment.
Known(r) == main[r] \notin {"shmget"} \union Ended \/ Working(P(r)) \/ Working(C(r))
                => shmid[r] \in Runs

TypeInv == TypeOK /\ \A r \in Runs : Stages(r) /\ Known(r)

-------------------------------------------------------------------------------
\* main() makes its calls in the order of its program.
LEMMA Order ==
    ASSUME NEW r \in Runs, TypeOK, Advance(r), Stages(r),
           main[r] \notin Ended
    PROVE  /\ main[r] = "shmget" => main' = [main EXCEPT ![r] = "shmat"]
           /\ main[r] = "shmat" =>
                  main' = [main EXCEPT ![r] = IF Locked(r) THEN "semget" ELSE "fork"]
           /\ main[r] = "semget" => main' = [main EXCEPT ![r] = "setval"]
           /\ main[r] = "setval" =>
                  main' = [main EXCEPT ![r] = IF Prog[r] = "thread" THEN "create0"
                                                                  ELSE "fork"]
           /\ main[r] = "create0" => main' = [main EXCEPT ![r] = "create1"]
           /\ main[r] \in {"fork", "create1"} => main' = [main EXCEPT ![r] = "work"]
           /\ main[r] = "work" => main' = [main EXCEPT ![r] = "shmdt"]
           /\ main[r] = "shmdt" =>
                  main' = [main EXCEPT ![r] = IF Locked(r) THEN "rmsem" ELSE "rmshm"]
           /\ main[r] = "rmsem" => main' = [main EXCEPT ![r] = "rmshm"]
           /\ main[r] = "rmshm" => main' = [main EXCEPT ![r] = "done"]
  <1>1. CASE Prog[r] = "unsafe"
    <2>1. main' = [main EXCEPT ![r] = UnsafeMain[main[r]]]
      BY <1>1 DEF Advance, MainOf
    <2>2. /\ main[r] \notin {"semget", "setval", "create0", "create1", "rmsem"}
          /\ ~Locked(r)
      BY <1>1 DEF Stages, Locked
    <2>3. /\ UnsafeMain["shmget"] = "shmat"
          /\ UnsafeMain["shmat"] = "fork"
          /\ UnsafeMain["fork"] = "work"
          /\ UnsafeMain["work"] = "shmdt"
          /\ UnsafeMain["shmdt"] = "rmshm"
          /\ UnsafeMain["rmshm"] = "done"
      BY DEF UnsafeMain
    <2> QED
      BY <1>1, <2>1, <2>2, <2>3
  <1>2. CASE Prog[r] = "safe"
    <2>1. main' = [main EXCEPT ![r] = SafeMain[main[r]]]
      BY <1>2 DEF Advance, MainOf
    <2>2. /\ main[r] \notin {"create0", "create1"}
          /\ Locked(r)
      BY <1>2 DEF Stages, Locked
    <2>3. /\ SafeMain["shmget"] = "shmat"
          /\ SafeMain["shmat"] = "semget"
          /\ SafeMain["semget"] = "setval"
          /\ SafeMain["setval"] = "fork"
          /\ SafeMain["fork"] = "work"
          /\ SafeMain["work"] = "shmdt"
          /\ SafeMain["shmdt"] = "rmsem"
          /\ SafeMain["rmsem"] = "rmshm"
          /\ SafeMain["rmshm"] = "done"
      BY DEF SafeMain
    <2> QED
      BY <1>2, <2>1, <2>2, <2>3
  <1>3. CASE Prog[r] = "thread"
    <2>1. main' = [main EXCEPT ![r] = ThreadMain[main[r]]]
      BY <1>3 DEF Advance, MainOf
    <2>2. /\ main[r] # "fork"
          /\ Locked(r)
      BY <1>3 DEF Stages, Locked
    <2>3. /\ ThreadMain["shmget"] = "shmat"
          /\ ThreadMain["shmat"] = "semget"
          /\ ThreadMain["semget"] = "setval"
          /\ ThreadMain["setval"] = "create0"
          /\ ThreadMain["create0"] = "create1"
          /\ ThreadMain["create1"] = "work"
          /\ ThreadMain["work"] = "shmdt"
          /\ ThreadMain["shmdt"] = "rmsem"
          /\ ThreadMain["rmsem"] = "rmshm"
          /\ ThreadMain["rmshm"] = "done"
      BY DEF ThreadMain
    <2> QED
      BY <1>3, <2>1, <2>2, <2>3
  <1>4. QED
    BY <1>1, <1>2, <1>3, ProgAssumption

-------------------------------------------------------------------------------
\* A step of main() that leaves the workers alone.
LEMMA MainTypes ==
    ASSUME TypeInv, NEW r \in Runs,
           \/ ShmGet(r) \/ ShmAt(r) \/ SemGet(r) \/ SetVal(r) \/ Join(r)
           \/ ShmDt(r) \/ RmSem(r) \/ RmShm(r)
    PROVE  TypeInv'
  <1> USE DEF TypeInv
  <1>0. UNCHANGED <<pc, done, reg, kills>> /\ Advance(r) /\ main[r] \notin Ended
    BY DEF ShmGet, ShmAt, SemGet, SetVal, Join, ShmDt, RmSem, RmShm, work, shm, sem,
           Ended
  <1>1. TypeOK'
    <2>1. main' \in [Runs -> {"shmget", "shmat", "semget", "setval", "fork",
                              "create0", "create1", "work", "shmdt", "rmsem",
                              "rmshm"} \union Ended]
      BY <1>0, Order DEF TypeOK, ShmGet, ShmAt, SemGet, SetVal, Join, ShmDt, RmSem,
         RmShm, Ended
    <2>2. /\ shmKey' \in Runs \union {NoId}
          /\ counter' \in [Runs -> Int]
          /\ shmid' \in [Runs -> Runs \union {NoId}]
          /\ att' \subseteq Workers
      BY DEF TypeOK, ShmGet, ShmAt, SemGet, SetVal, Join, ShmDt, RmSem, RmShm, shm,
             Workers
    <2>3. base' \in [Runs -> Int]
      <3>1. CASE ShmAt(r)
        BY <3>1 DEF TypeOK, ShmAt, Known, Ended
      <3>2. CASE ~ShmAt(r)
        BY <3>2 DEF TypeOK, ShmGet, SemGet, SetVal, Join, ShmDt, RmSem, RmShm, shm
      <3> QED  BY <3>1, <3>2
    <2>4. /\ semKey' \in Runs \union {NoId}
          /\ semid' \in [Runs -> Runs \union {NoId}]
          /\ semval' \in Nat
          /\ adj' \in [Workers -> Int]
      BY DEF TypeOK, ShmGet, ShmAt, SemGet, SetVal, Join, ShmDt, RmSem, RmShm, sem
    <2> QED
      BY <1>0, <2>1, <2>2, <2>3, <2>4 DEF TypeOK
  <1>2. ASSUME NEW q \in Runs PROVE Stages(q)' /\ Known(q)'
    <2>1. CASE q # r
      <3>1. main'[q] = main[q] /\ shmid'[q] = shmid[q]
        BY <1>0, <2>1 DEF TypeOK, Advance, ShmGet, ShmAt, SemGet, SetVal, Join, ShmDt,
           RmSem, RmShm, shm
      <3> QED
        BY <1>0, <3>1 DEF Stages, Known, Working, P, C, Locked
    <2>2. CASE q = r
      <3>1. Stages(r) /\ Known(r) /\ TypeOK
        OBVIOUS
      <3>2. CASE ShmGet(r)
        <4>1. main' = [main EXCEPT ![r] = "shmat"] /\ shmid'[r] \in Runs
          BY <1>0, <3>2, Order DEF ShmGet, TypeOK
        <4> QED
          BY <1>0, <2>2, <3>1, <3>2, <4>1
          DEF ShmGet, Stages, Known, Working, TypeOK, Ended, Locked
      <3>3. CASE ShmAt(r)
        <4>1. main'[r] = IF Locked(r) THEN "semget" ELSE "fork"
          BY <1>0, <3>3, Order DEF ShmAt, TypeOK
        <4> QED
          BY <1>0, <2>2, <3>1, <3>3, <4>1
          DEF ShmAt, Stages, Known, Working, TypeOK, Ended, Locked
      <3>4. CASE SemGet(r) \/ SetVal(r)
        <4>1. /\ main[r] \in {"semget", "setval"} /\ shmid' = shmid
              /\ main'[r] = IF main[r] = "semget" THEN "setval" ELSE
                            IF Prog[r] = "thread" THEN "create0" ELSE "fork"
          BY <1>0, <3>4, Order DEF SemGet, SetVal, TypeOK, shm
        <4> QED
          BY <1>0, <2>2, <3>1, <4>1 DEF Stages, Known, Working, TypeOK, Ended, Locked
      <3>5. CASE Join(r)
        <4>1. /\ main[r] = "work" /\ main'[r] = "shmdt" /\ shmid' = shmid
              /\ pc[P(r)] \in {"done", "killed"} /\ pc[C(r)] \in {"done", "killed"}
          BY <1>0, <3>5, Order DEF Join, TypeOK, shm, P, C
        <4> QED
          BY <1>0, <2>2, <3>1, <4>1 DEF Stages, Known, Working, TypeOK, Ended, Locked,
             P, C, Kinds
      <3>6. CASE ShmDt(r) \/ RmSem(r) \/ RmShm(r)
        <4>1. /\ main[r] \in {"shmdt", "rmsem", "rmshm"} /\ shmid' = shmid
              /\ main'[r] = IF main[r] = "shmdt" /\ Locked(r) THEN "rmsem" ELSE
                            IF main[r] = "rmshm" THEN "done" ELSE "rmshm"
          BY <1>0, <3>6, Order DEF ShmDt, RmSem, RmShm, TypeOK, shm
        <4> QED
          BY <1>0, <2>2, <3>1, <4>1 DEF Stages, Known, Working, TypeOK, Ended, Locked
      <3> QED
        BY <3>2, <3>3, <3>4, <3>5, <3>6
    <2> QED
      BY <2>1, <2>2
  <1> QED
    BY <1>1, <1>2

\* The steps of main() that start workers.
LEMMA StartTypes ==
    ASSUME TypeInv, NEW r \in Runs,
           \/ Fork(r)
           \/ CreateThread(r, "create0", "parent")
           \/ CreateThread(r, "create1", "child")
    PROVE  TypeInv'
  <1> USE DEF TypeInv
  <1>0. /\ main[r] \in {"fork", "create0", "create1"} /\ Advance(r)
        /\ UNCHANGED <<done, reg, shmKey, counter, shmid, base, sem, kills>>
        /\ EnterLoop(r) \in {"lock", "load"}
        /\ EnterLoop(r) = "lock" <=> Locked(r)
    BY DEF Fork, CreateThread, shm, EnterLoop
  <1>1. /\ main' = [main EXCEPT ![r] = IF main[r] = "create0" THEN "create1"
                                                              ELSE "work"]
        /\ main' \in [Runs -> {"shmget", "shmat", "semget", "setval", "fork", "create0",
                               "create1", "work", "shmdt", "rmsem", "rmshm"}
                                \union Ended]
    BY <1>0, Order DEF TypeOK, Ended
  <1>2. /\ pc' \in [Workers -> {"idle", "lock", "load", "store", "unlock", "exit",
                                "done", "killed"}]
        /\ att' \subseteq Workers
    <2>1. <<r, "parent">> \in Workers /\ <<r, "child">> \in Workers
      BY DEF Workers
    <2> QED
      BY <1>0, <2>1 DEF Fork, CreateThread, TypeOK, shm
  <1>3. TypeOK'
    BY <1>0, <1>1, <1>2 DEF TypeOK, sem
  <1>4. ASSUME NEW q \in Runs PROVE Stages(q)' /\ Known(q)'
    <2>1. CASE q # r
      <3>1. main'[q] = main[q] /\ pc'[P(q)] = pc[P(q)] /\ pc'[C(q)] = pc[C(q)]
        BY <1>1, <2>1 DEF Fork, CreateThread, TypeOK, P, C, Workers
      <3>2. Stages(q) /\ Known(q)
        OBVIOUS
      <3> QED
        BY <1>0, <3>1, <3>2 DEF Stages, Known, Working, P, C, Locked, Kinds
    <2>2. CASE q = r
      <3>1. Stages(r) /\ Known(r) /\ TypeOK
        OBVIOUS
      <3>2. shmid'[r] \in Runs
        BY <1>0, <3>1 DEF Known, Ended
      <3>3. CASE Fork(r)
        <4>1. /\ main[r] = "fork" /\ main'[r] = "work"
              /\ pc'[P(r)] = EnterLoop(r) /\ pc'[C(r)] = EnterLoop(r)
          BY <1>1, <3>3 DEF Fork, TypeOK, P, C, Workers
        <4> QED
          BY <1>0, <2>2, <3>1, <3>2, <4>1, MaxTryAssumption
          DEF Stages, Known, Working, P, C, Locked, Kinds, Ended
      <3>4. CASE CreateThread(r, "create0", "parent")
        <4>1. /\ main[r] = "create0" /\ main'[r] = "create1"
              /\ pc'[P(r)] = EnterLoop(r) /\ pc'[C(r)] = pc[C(r)]
          BY <1>1, <3>4 DEF CreateThread, TypeOK, P, C, Workers
        <4> QED
          BY <1>0, <2>2, <3>1, <3>2, <4>1, MaxTryAssumption
          DEF Stages, Known, Working, P, C, Locked, Kinds, Ended
      <3>5. CASE CreateThread(r, "create1", "child")
        <4>1. /\ main[r] = "create1" /\ main'[r] = "work"
              /\ pc'[P(r)] = pc[P(r)] /\ pc'[C(r)] = EnterLoop(r)
          BY <1>1, <3>5 DEF CreateThread, TypeOK, P, C, Workers
        <4> QED
          BY <1>0, <2>2, <3>1, <3>2, <4>1, MaxTryAssumption
          DEF Stages, Known, Working, P, C, Locked, Kinds, Ended
      <3> QED
        BY <3>3, <3>4, <3>5
    <2> QED
      BY <2>1, <2>2
  <1> QED
    BY <1>3, <1>4

\* A step of a worker inside do_add or do_sub.
LEMMA WorkerTypes ==
    ASSUME TypeInv, NEW r \in Runs, NEW k \in Kinds,
           Lock(<<r, k>>) \/ Load(<<r, k>>) \/ Store(<<r, k>>) \/ Unlock(<<r, k>>)
    PROVE  TypeInv'
  <1> USE DEF TypeInv
  <1> DEFINE w == <<r, k>>
  <1>0. /\ w \in Workers /\ w[1] = r /\ Proc(w) \in Workers /\ Delta(w) \in Int
        /\ k \in {"parent", "child"}
    BY DEF Workers, Kinds, Proc, Delta
  <1> HIDE DEF w
  <1>1. /\ UNCHANGED <<main, shmKey, shmid, att, base, semKey, semid, kills>>
        /\ pc[w] \in {"lock", "load", "store", "unlock"}
    BY DEF Lock, Load, Store, Unlock, shm, sem, w
  <1>2. shmid[r] \in Runs
    BY <1>0, <1>1 DEF Known, Working, P, C, w
  <1>3. /\ pc[w] = "store" => done[w] + 1 \in 0..MaxTry
        /\ pc[w] \in {"lock", "load"} => done[w] < MaxTry
    BY <1>0, <1>1, MaxTryAssumption DEF Stages, TypeOK, w
  <1>4. /\ pc' = [pc EXCEPT ![w] = pc'[w]]
        /\ pc[w] = "lock" => pc'[w] = "load" /\ done' = done
        /\ pc[w] = "load" => pc'[w] = "store" /\ done' = done
        /\ pc[w] = "store" =>
               /\ done' = [done EXCEPT ![w] = @ + 1]
               /\ \/ pc'[w] = "load" /\ done'[w] < MaxTry
                  \/ pc'[w] = "unlock" /\ Locked(r)
                  \/ pc'[w] = "done"
                  \/ pc'[w] = "exit" /\ k = "child" /\ Prog[r] # "thread"
        /\ pc[w] = "unlock" =>
               /\ done' = done
               /\ \/ pc'[w] = "done"
                  \/ pc'[w] = "exit" /\ k = "child" /\ Prog[r] # "thread"
    <2>1. \/ Return(w) = "done"
          \/ Return(w) = "exit" /\ k = "child" /\ Prog[r] # "thread"
      BY DEF Return, Proc, w
    <2>2. CASE Lock(w)
      BY <1>0, <2>2 DEF Lock, TypeOK
    <2>3. CASE Load(w)
      BY <1>0, <2>3 DEF Load, TypeOK
    <2>4. CASE Store(w)
      BY <1>0, <2>1, <2>4 DEF Store, TypeOK, LeaveLoop
    <2>5. CASE Unlock(w)
      BY <1>0, <2>1, <2>5 DEF Unlock, TypeOK
    <2> QED
      BY <2>2, <2>3, <2>4, <2>5 DEF w
  <1>5. TypeOK'
    <2>1. /\ pc' \in [Workers -> {"idle", "lock", "load", "store", "unlock", "exit",
                                  "done", "killed"}]
          /\ done' \in [Workers -> 0..MaxTry]
      BY <1>0, <1>1, <1>3, <1>4 DEF TypeOK
    <2>2. /\ reg' \in [Workers -> Int]
          /\ counter' \in [Runs -> Int]
          /\ semval' \in Nat
          /\ adj' \in [Workers -> Int]
      <3>1. CASE Lock(w)
        BY <1>0, <3>1 DEF Lock, TypeOK, shm
      <3>2. CASE Load(w)
        BY <1>0, <1>2, <3>2 DEF Load, TypeOK, shm, sem
      <3>3. CASE Store(w)
        BY <1>0, <1>2, <3>3 DEF Store, TypeOK, sem
      <3>4. CASE Unlock(w)
        BY <1>0, <3>4 DEF Unlock, TypeOK, shm
      <3> QED
        BY <3>1, <3>2, <3>3, <3>4 DEF w
    <2> QED
      BY <1>1, <2>1, <2>2 DEF TypeOK
  <1>6. ASSUME NEW q \in Runs PROVE Stages(q)' /\ Known(q)'
    <2>1. Stages(q) /\ Known(q) /\ TypeOK
      OBVIOUS
    <2>2. CASE q # r
      <3>1. \A j \in Kinds : pc'[<<q, j>>] = pc[<<q, j>>] /\ done'[<<q, j>>] = done[<<q, j>>]
        BY <1>0, <1>1, <1>4, <2>2 DEF TypeOK, w, Workers, Kinds
      <3> QED
        BY <1>1, <2>1, <3>1 DEF Stages, Known, Working, P, C, Kinds, Locked
    <2>3. CASE q = r
      <3>1. /\ main[r] \in Ended => k = "child" /\ Prog[r] # "thread"
            /\ main[r] \notin {"shmget", "shmat", "semget", "setval", "fork",
                               "create0", "shmdt", "rmsem", "rmshm"}
            /\ main[r] = "create1" => k = "parent"
        BY <1>1, <2>1, <2>3 DEF Stages, P, C, Working, Kinds, w
      <3>2. \A j \in Kinds : j # k =>
                pc'[<<q, j>>] = pc[<<q, j>>] /\ done'[<<q, j>>] = done[<<q, j>>]
        BY <1>0, <1>1, <1>4 DEF TypeOK, w, Workers, Kinds
      <3>3. /\ pc'[w] \notin {"idle", "lock"}
            /\ pc'[w] = "unlock" => Locked(r)
            /\ pc'[w] \in {"load", "store"} => done'[w] < MaxTry
            /\ pc'[w] = "exit" => k = "child" /\ Prog[r] # "thread"
        BY <1>1, <1>3, <1>4
      <3> QED
        BY <1>1, <1>2, <2>1, <2>3, <3>1, <3>2, <3>3
        DEF Stages, Known, Working, P, C, Kinds, Locked, w
    <2> QED
      BY <2>2, <2>3
  <1> QED
    BY <1>5, <1>6

\* The end of the process of main(), which takes its threads with it.
LEMMA EndMainTypes ==
    ASSUME TypeInv, NEW r \in Runs, EndProcess(P(r), "killed"),
           main' \in {[main EXCEPT ![r] = "failed"], [main EXCEPT ![r] = "killed"]},
           kills' \in {kills, kills + 1}
    PROVE  TypeInv'
  <1> USE DEF TypeInv
  <1>0. P(r) \in Workers /\ C(r) \in Workers /\ P(r) # C(r)
    BY DEF P, C, Workers
  <1>1. main'[r] \in {"failed", "killed"} /\ \A q \in Runs \ {r} : main'[q] = main[q]
    BY DEF TypeOK
  <1>2. ASSUME NEW w \in Workers
        PROVE  pc'[w] = IF Proc(w) = P(r) /\ pc[w] # "done" THEN "killed" ELSE pc[w]
    BY DEF EndProcess
  <1>3. TypeOK'
    BY <1>0 DEF TypeOK, EndProcess, Ended
  <1>4. ASSUME NEW q \in Runs PROVE Stages(q)' /\ Known(q)'
    <2>1. Stages(q) /\ Known(q) /\ done' = done /\ shmid' = shmid
      BY DEF EndProcess
    <2>2. ASSUME NEW k \in Kinds PROVE <<q, k>> \in Workers
      BY DEF Workers, Kinds
    <2>3. CASE q # r
      <3>1. \A k \in Kinds : pc'[<<q, k>>] = pc[<<q, k>>]
        BY <1>2, <2>2, <2>3 DEF Proc, P
      <3> QED
        BY <1>1, <2>1, <2>3, <3>1 DEF Stages, Known, Working, P, C, Kinds, Locked
    <2>4. CASE q = r
      <3>1. pc'[P(r)] \in {"done", "killed"}
        BY <1>0, <1>2 DEF Proc, P
      <3>2. pc'[C(r)] = IF Prog[r] = "thread" /\ pc[C(r)] # "done" THEN "killed"
                                                                   ELSE pc[C(r)]
        BY <1>0, <1>2 DEF Proc, P, C
      <3> QED
        BY <1>1, <2>1, <2>4, <3>1, <3>2
        DEF Stages, Known, Working, P, C, Kinds, Locked, Ended
    <2> QED
      BY <2>3, <2>4
  <1> QED
    BY <1>3, <1>4

\* The end of a child process.
LEMMA EndChildTypes ==
    ASSUME TypeInv, NEW r \in Runs, NEW how \in {"done", "killed"},
           EndProcess(C(r), how), Prog[r] # "thread", main' = main,
           kills' \in {kills, kills + 1}, pc[C(r)] \notin {"idle", "done", "killed"}
    PROVE  TypeInv'
  <1> USE DEF TypeInv
  <1>0. P(r) \in Workers /\ C(r) \in Workers /\ P(r) # C(r)
    BY DEF P, C, Workers
  <1>1. ASSUME NEW w \in Workers
        PROVE  pc'[w] = IF w = C(r) THEN how ELSE pc[w]
    BY DEF EndProcess, Proc, C
  <1>2. TypeOK'
    BY <1>0 DEF TypeOK, EndProcess
  <1>3. ASSUME NEW q \in Runs PROVE Stages(q)' /\ Known(q)'
    <2>1. Stages(q) /\ Known(q) /\ done' = done /\ shmid' = shmid
      BY DEF EndProcess
    <2>2. ASSUME NEW k \in Kinds PROVE <<q, k>> \in Workers
      BY DEF Workers, Kinds
    <2>3. CASE q # r
      <3>1. \A k \in Kinds : pc'[<<q, k>>] = pc[<<q, k>>]
        BY <1>1, <2>2, <2>3 DEF C
      <3> QED
        BY <2>1, <3>1 DEF Stages, Known, Working, P, C, Kinds, Locked
    <2>4. CASE q = r
      <3>1. pc'[P(r)] = pc[P(r)] /\ pc'[C(r)] = how
        BY <1>0, <1>1
      <3> QED
        BY <2>1, <2>4, <3>1 DEF Stages, Known, Working, P, C, Kinds, Locked, Ended
    <2> QED
      BY <2>3, <2>4
  <1> QED
    BY <1>2, <1>3

-------------------------------------------------------------------------------
\* The steps of Next, by what they do to the processes.
LEMMA Steps ==
    ASSUME TypeInv, Next
    PROVE  \E r \in Runs :
             \/ ShmGet(r) \/ ShmAt(r) \/ SemGet(r) \/ SetVal(r) \/ Join(r)
             \/ ShmDt(r) \/ RmSem(r) \/ RmShm(r)
             \/ Fork(r)
             \/ CreateThread(r, "create0", "parent")
             \/ CreateThread(r, "create1", "child")
             \/ \E k \in Kinds : Lock(<<r, k>>) \/ Load(<<r, k>>)
                                    \/ Store(<<r, k>>) \/ Unlock(<<r, k>>)
             \/ /\ EndProcess(P(r), "killed")
                /\ main[r] \notin Ended
                /\ main' \in {[main EXCEPT ![r] = "failed"],
                              [main EXCEPT ![r] = "killed"]}
                /\ kills' \in {kills, kills + 1}
             \/ /\ \E how \in {"done", "killed"} : EndProcess(C(r), how)
                /\ Prog[r] # "thread" /\ main' = main
                /\ kills' \in {kills, kills + 1}
                /\ pc[C(r)] \notin {"idle", "done", "killed"}
  <1>1. ASSUME NEW r \in Runs, Fail(r) \/ SegmentGone(r) \/ KillMain(r)
        PROVE  /\ EndProcess(P(r), "killed")
               /\ main[r] \notin Ended
               /\ main' \in {[main EXCEPT ![r] = "failed"],
                             [main EXCEPT ![r] = "killed"]}
               /\ kills' \in {kills, kills + 1}
    BY <1>1 DEF Fail, SegmentGone, KillMain, Abort, P, Ended
  <1>2. ASSUME NEW r \in Runs, NEW k \in Kinds, ChildExit(<<r, k>>)
        PROVE  /\ \E how \in {"done", "killed"} : EndProcess(C(r), how)
               /\ Prog[r] # "thread" /\ main' = main
               /\ kills' \in {kills, kills + 1}
               /\ pc[C(r)] \notin {"idle", "done", "killed"}
    <2>1. k = "child" /\ Prog[r] # "thread"
      BY <1>2 DEF ChildExit, TypeInv, Stages, Kinds, P, C
    <2> QED
      BY <1>2, <2>1 DEF ChildExit, C
  <1>3. ASSUME NEW r \in Runs, NEW k \in Kinds, KillChild(<<r, k>>)
        PROVE  /\ \E how \in {"done", "killed"} : EndProcess(C(r), how)
               /\ Prog[r] # "thread" /\ main' = main
               /\ kills' \in {kills, kills + 1}
               /\ pc[C(r)] \notin {"idle", "done", "killed"}
    <2>1. k = "child" /\ Prog[r] # "thread"
      BY <1>3 DEF KillChild, Proc, Kinds
    <2> QED
      BY <1>3, <2>1 DEF KillChild, C
  <1>4. ASSUME NEW w \in Workers
        PROVE  \E r \in Runs, k \in Kinds : w = <<r, k>>
    BY DEF Workers, Kinds
  <1>5. CASE \E r \in Runs : MainStep(r) \/ Fail(r) \/ KillMain(r)
    BY <1>1, <1>5 DEF MainStep
  <1>6. CASE \E w \in Workers : WorkerStep(w) \/ KillChild(w)
    <2>1. PICK r \in Runs, k \in Kinds :
              WorkerStep(<<r, k>>) \/ KillChild(<<r, k>>)
      BY <1>4, <1>6
    <2>2. CASE ChildExit(<<r, k>>)
      BY <1>2, <2>2
    <2>3. CASE KillChild(<<r, k>>)
      BY <1>3, <2>3
    <2> QED
      BY <2>1, <2>2, <2>3 DEF WorkerStep
  <1> QED
    BY <1>5, <1>6 DEF Next

\* Nothing has been opened or counted yet.
LEMMA TypeStart == Init => TypeInv
  <1> SUFFICES ASSUME Init PROVE TypeInv
    OBVIOUS
  <1>1. TypeOK
    BY MaxTryAssumption DEF Init, TypeOK, Ended
  <1>2. ASSUME NEW r \in Runs PROVE Stages(r) /\ Known(r)
    <2>1. \A k \in Kinds : <<r, k>> \in Workers
      BY DEF Workers, Kinds
    <2> QED
      BY <2>1 DEF Init, Stages, Known, Working, P, C, Kinds, Ended
  <1> QED
    BY <1>1, <1>2 DEF TypeInv

\* Every step keeps the types.
LEMMA TypeStep == TypeInv /\ [Next]_vars => TypeInv'
  <1> SUFFICES ASSUME TypeInv, [Next]_vars PROVE TypeInv'
    OBVIOUS
  <1>1. CASE Next
    BY <1>1, Steps, MainTypes, StartTypes, WorkerTypes, EndMainTypes, EndChildTypes
  <1>2. CASE UNCHANGED vars
    BY <1>2 DEF TypeInv, TypeOK, Stages, Known, Working, P, C, Locked, vars, work, shm,
       sem
  <1> QED
    BY <1>1, <1>2

\* Every variable has its type: in particular semval never goes below 0,
\* although the kernel subtracts from it on behalf of dead processes, and no
\* worker makes more than MAX_TRY updates.
THEOREM TypeCorrect == Spec => []TypeOK
  <1>1. TypeInv => TypeOK
    BY DEF TypeInv
  <1> QED
    BY <1>1, TypeStart, TypeStep, PTL DEF Spec

-------------------------------------------------------------------------------
(***************************************************************************)
(* Runs that do not overlap.  The three parts of the inductive invariant   *)
(* below the properties, for one run:                                      *)
(***************************************************************************)

\* At most one run is between its first system call and its end.
OneActive == \A q, r \in Runs : Active(q) /\ Active(r) => q = r

\* Which processes have the segment, and that nobody takes it from them.
Segment(r) ==
    /\ P(r) \in att <=> main[r] \in {"semget", "setval", "fork", "create0",
                                     "create1", "work", "shmdt"}
    /\ C(r) \in att <=> Working(C(r)) /\ Prog[r] # "thread"
    /\ Active(r) /\ main[r] # "done" => shmid[r] \in Runs /\ shmid[r] = shmKey

\* The semaphore of a run past SETVAL is 1, or 0 with one worker inside, and
\* the adjustment of that worker's process is 1.
Semaphore(r) ==
    /\ Locked(r) /\ (\/ main[r] \in {"setval", "fork", "create0", "create1", "work",
                                     "shmdt", "rmsem"}
                     \/ Working(C(r))) => Live(r)
    /\ ~(InSection(P(r)) /\ InSection(C(r)))
    /\ \A k \in Kinds :
           /\ InSection(<<r, k>>) => adj[Proc(<<r, k>>)] = 1 /\ semval = 0
           /\ adj[<<r, k>>] \in {0, 1}
    /\ adj[P(r)] = 1 => \/ InSection(P(r))
                        \/ InSection(C(r)) /\ Prog[r] = "thread"
    /\ adj[C(r)] = 1 => InSection(C(r)) /\ Prog[r] # "thread"
    /\ Locked(r) /\ (main[r] \in {"fork", "create0", "create1", "work"} \/ Working(C(r)))
         => semval \in {0, 1} /\ (semval = 0 => InSection(P(r)) \/ InSection(C(r)))

\* The counter of the segment against the history of the run.
Counting(r) ==
    P(r) \in att \/ C(r) \in att =>
        /\ counter[shmid[r]] \in (base[r] - done[P(r)])..(base[r] + done[C(r)])
        /\ Locked(r) => counter[shmid[r]] = base[r] + done[C(r)] - done[P(r)]
        /\ \A k \in Kinds : pc[<<r, k>>] = "store" =>
               /\ reg[<<r, k>>] \in (base[r] - done[P(r)])..(base[r] + done[C(r)])
               /\ Locked(r) => reg[<<r, k>>] = counter[shmid[r]]

RunInv(r) == Segment(r) /\ Semaphore(r) /\ Counting(r)

Inv == TypeInv /\ OneActive /\ \A r \in Runs : RunInv(r)

\* A run that is not active has nothing attached, holds nothing and is not
\* inside do_add or do_sub.
LEMMA Quiet ==
    ASSUME TypeInv, NEW q \in Runs, RunInv(q), ~Active(q)
    PROVE  /\ main[q] \in {"shmget"} \union Ended
           /\ ~Working(P(q)) /\ ~Working(C(q))
           /\ P(q) \notin att /\ C(q) \notin att
           /\ adj[P(q)] = 0 /\ adj[C(q)] = 0
  <1>1. Stages(q) /\ Segment(q) /\ Semaphore(q)
    BY DEF TypeInv, RunInv
  <1>2. main[q] \in {"shmget"} \union Ended /\ ~Working(P(q)) /\ ~Working(C(q))
    BY <1>1 DEF Active, Over, Stages, Working, P, C
  <1>3. P(q) \notin att /\ C(q) \notin att
    BY <1>1, <1>2 DEF Segment, Ended
  <1>4. adj[P(q)] = 0 /\ adj[C(q)] = 0
    BY <1>1, <1>2 DEF Semaphore, InSection, Working, Kinds, P, C
  <1> QED
    BY <1>2, <1>3, <1>4

\* What a step of another run leaves a run with.
Apart(q) ==
    /\ main'[q] = main[q] /\ pc'[P(q)] = pc[P(q)] /\ pc'[C(q)] = pc[C(q)]
    /\ P(q) \in att' <=> P(q) \in att
    /\ C(q) \in att' <=> C(q) \in att
    /\ adj'[P(q)] \in {0, adj[P(q)]} /\ adj'[C(q)] \in {0, adj[C(q)]}

\* Steps that touch no worker, no lock and no counter keep the invariant.
LEMMA QuietKept ==
    ASSUME TypeInv, NEW q \in Runs, RunInv(q), ~Active(q), Apart(q)
    PROVE  RunInv(q)' /\ ~Active(q)'
  <1>1. /\ main[q] \in {"shmget"} \union Ended
        /\ ~Working(P(q)) /\ ~Working(C(q))
        /\ P(q) \notin att /\ C(q) \notin att
        /\ adj[P(q)] = 0 /\ adj[C(q)] = 0
    BY Quiet
  <1>2. ~Active(q)'
    BY DEF Apart, Active, Over, P, C
  <1>3. ~Working(P(q))' /\ ~Working(C(q))'
    BY <1>1 DEF Apart, Working
  <1>4. Segment(q)'
    BY <1>1, <1>2, <1>3 DEF Apart, Segment, Ended
  <1>5. Semaphore(q)'
    BY <1>1, <1>3 DEF Apart, Semaphore, InSection, Working, Kinds, P, C, Ended
  <1>6. Counting(q)'
    BY <1>1 DEF Apart, Counting
  <1> QED
    BY <1>2, <1>4, <1>5, <1>6 DEF RunInv

\* Between shmget and its end a run is the active one.
LEMMA Acting ==
    ASSUME Inv, NEW r \in Runs,
           main[r] \notin {"shmget"} \union Ended \/ Working(P(r)) \/ Working(C(r))
    PROVE  Active(r) /\ \A q \in Runs \ {r} : ~Active(q)
  <1>1. main[r] # "shmget"
    BY DEF Inv, TypeInv, Stages, Working, P, C
  <1>2. ~Over(r)
    BY DEF Over, Working, P, C
  <1> QED
    BY <1>1, <1>2 DEF Active, Inv, OneActive

\* The steps of main() that leave the workers alone.
LEMMA MainKeeps ==
    ASSUME Inv, ~Overlap, NEW r \in Runs,
           \/ ShmGet(r) \/ ShmAt(r) \/ SemGet(r) \/ SetVal(r) \/ Join(r)
           \/ ShmDt(r) \/ RmSem(r) \/ RmShm(r)
    PROVE  /\ RunInv(r)'
           /\ \A q \in Runs \ {r} : ~Active(q) /\ Apart(q)
  <1>0. /\ TypeInv /\ TypeOK /\ Stages(r) /\ Known(r) /\ RunInv(r)
        /\ Segment(r) /\ Semaphore(r) /\ Counting(r)
    BY DEF Inv, TypeInv, RunInv
  <1>1. UNCHANGED <<pc, done, reg, kills>> /\ Advance(r) /\ main[r] \notin Ended
    BY DEF ShmGet, ShmAt, SemGet, SetVal, Join, ShmDt, RmSem, RmShm, work, shm, sem,
           Ended
  <1>2. P(r) \in Workers /\ C(r) \in Workers /\ P(r) # C(r)
    BY DEF P, C, Workers
  <1>3. \A q \in Runs \ {r} : ~Active(q)
    <2>1. CASE ShmGet(r)
      BY <2>1 DEF ShmGet
    <2>2. CASE ~ShmGet(r)
      <3>1. main[r] \notin {"shmget"} \union Ended
        BY <2>2 DEF ShmAt, SemGet, SetVal, Join, ShmDt, RmSem, RmShm, Ended
      <3> QED
        BY <3>1, Acting
    <2> QED
      BY <2>1, <2>2
  <1>4. ASSUME NEW q \in Runs \ {r} PROVE Apart(q)
    <2>1. main'[q] = main[q]
      BY <1>0, <1>1 DEF Advance, TypeOK
    <2>2. att' \in {att, att \union {P(r)}, att \ {P(r)}}
      BY DEF ShmGet, ShmAt, SemGet, SetVal, Join, ShmDt, RmSem, RmShm, shm, P
    <2>3. P(q) # P(r) /\ C(q) # P(r) /\ P(q) \in Workers /\ C(q) \in Workers
      BY DEF P, C, Workers
    <2>4. adj' \in {adj, [p \in Workers |-> 0]}
      BY DEF ShmGet, ShmAt, SemGet, SetVal, Join, ShmDt, RmSem, RmShm, sem
    <2> QED
      BY <1>1, <2>1, <2>2, <2>3, <2>4 DEF Apart
  <1>5. RunInv(r)'
    <2>1. CASE ShmGet(r)
      <3>1. /\ main[r] = "shmget" /\ main'[r] = "shmat"
            /\ shmid'[r] = shmKey' /\ shmKey' \in Runs
            /\ UNCHANGED <<att, semKey, semid, semval, adj>>
        BY <1>0, <1>1, <2>1, Order DEF ShmGet, TypeOK, shm, sem
      <3>2. pc[P(r)] = "idle" /\ pc[C(r)] = "idle"
        BY <1>0, <3>1 DEF Stages
      <3>3. P(r) \notin att /\ C(r) \notin att
        BY <1>0, <3>1, <3>2 DEF Segment, Working
      <3>4. Segment(r)'
        BY <1>1, <3>1, <3>2, <3>3 DEF Segment, Working
      <3>5. Semaphore(r)'
        BY <1>0, <1>1, <3>1, <3>2 DEF Semaphore, InSection, Working, Kinds, P, C, Live
      <3>6. Counting(r)'
        BY <3>1, <3>3 DEF Counting
      <3> QED
        BY <3>4, <3>5, <3>6 DEF RunInv
    <2>2. CASE ShmAt(r)
      <3>1. /\ main[r] = "shmat" /\ main'[r] = IF Locked(r) THEN "semget" ELSE "fork"
            /\ att' = att \union {P(r)}
            /\ base'[r] = counter[shmid[r]]
            /\ UNCHANGED <<shmKey, counter, shmid, semKey, semid, semval, adj>>
        BY <1>0, <1>1, <2>2, Order DEF ShmAt, TypeOK, sem, P
      <3>2. pc[P(r)] = "idle" /\ pc[C(r)] = "idle"
        BY <1>0, <3>1 DEF Stages
      <3>3. done[P(r)] = 0 /\ done[C(r)] = 0
        BY <1>0, <3>2 DEF Stages, P, C, Kinds
      <3>4. Active(r) /\ shmid[r] \in Runs /\ shmid[r] = shmKey /\ C(r) \notin att
        BY <1>0, <3>1, <3>2, Acting DEF Segment, Working, Ended
      <3>5. Segment(r)'
        BY <1>1, <1>2, <3>1, <3>2, <3>4 DEF Segment, Working
      <3>6. Semaphore(r)'
        BY <1>0, <1>1, <3>1, <3>2 DEF Semaphore, InSection, Working, Kinds, P, C, Live
      <3>7. Counting(r)'
        <4>1. counter[shmid[r]] \in Int
          BY <1>0, <3>4 DEF TypeOK
        <4> QED
          BY <1>1, <3>1, <3>2, <3>3, <4>1 DEF Counting, P, C, Kinds
      <3> QED
        BY <3>5, <3>6, <3>7 DEF RunInv
    <2>3. CASE SemGet(r)
      <3>1. /\ main[r] = "semget" /\ main'[r] = "setval"
            /\ semKey' \in Runs /\ semid'[r] = semKey'
            /\ UNCHANGED <<shmKey, counter, shmid, att, base, adj>>
        BY <1>0, <1>1, <2>3, Order DEF SemGet, TypeOK, shm
      <3>2. pc[P(r)] = "idle" /\ pc[C(r)] = "idle"
        BY <1>0, <3>1 DEF Stages
      <3>3. Active(r)
        BY <3>1, Acting DEF Ended
      <3>4. Segment(r)'
        BY <1>0, <1>1, <3>1, <3>3 DEF Segment, Working, Ended
      <3>5. Semaphore(r)'
        BY <1>0, <1>1, <3>1, <3>2, NoIdAssumption
        DEF Semaphore, InSection, Working, Kinds, P, C, Live
      <3>6. Counting(r)'
        BY <1>0, <1>1, <3>1 DEF Counting
      <3> QED
        BY <3>4, <3>5, <3>6 DEF RunInv
    <2>4. CASE SetVal(r)
      <3>1. /\ main[r] = "setval"
            /\ main'[r] = IF Prog[r] = "thread" THEN "create0" ELSE "fork"
            /\ UNCHANGED <<shmKey, counter, shmid, att, base, semKey, semid>>
            /\ Live(r)
            /\ semval' = 1 /\ adj' = [p \in Workers |-> 0]
        BY <1>0, <1>1, <2>4, Order DEF SetVal, TypeOK, shm, Semaphore, Stages
      <3>2. pc[P(r)] = "idle" /\ pc[C(r)] = "idle"
        BY <1>0, <3>1 DEF Stages
      <3>3. Active(r)
        BY <3>1, Acting DEF Ended
      <3>4. Segment(r)'
        BY <1>0, <1>1, <3>1, <3>3 DEF Segment, Working, Ended
      <3>5. adj'[P(r)] = 0 /\ adj'[C(r)] = 0
        BY <1>2, <3>1
      <3>6. Semaphore(r)'
        BY <1>0, <1>1, <3>1, <3>2, <3>5
        DEF Semaphore, InSection, Working, Kinds, P, C, Live
      <3>7. Counting(r)'
        BY <1>0, <1>1, <3>1 DEF Counting
      <3> QED
        BY <3>4, <3>6, <3>7 DEF RunInv
    <2>5. CASE Join(r)
      <3>1. /\ main[r] = "work" /\ main'[r] = "shmdt"
            /\ pc[P(r)] \in {"done", "killed"} /\ pc[C(r)] \in {"done", "killed"}
            /\ UNCHANGED <<shmKey, counter, shmid, att, base, semKey, semid, semval, adj>>
        BY <1>0, <1>1, <2>5, Order DEF Join, TypeOK, shm, sem, P, C
      <3>2. Active(r)
        BY <3>1, Acting DEF Ended
      <3>3. Segment(r)'
        BY <1>0, <1>1, <3>1, <3>2 DEF Segment, Working, Ended
      <3>4. Semaphore(r)'
        BY <1>0, <1>1, <3>1 DEF Semaphore, InSection, Working, Kinds, P, C, Live
      <3>5. Counting(r)'
        BY <1>0, <1>1, <3>1 DEF Counting
      <3> QED
        BY <3>3, <3>4, <3>5 DEF RunInv
    <2>6. CASE ShmDt(r)
      <3>1. /\ main[r] = "shmdt" /\ main'[r] = IF Locked(r) THEN "rmsem" ELSE "rmshm"
            /\ att' = att \ {P(r)}
            /\ UNCHANGED <<shmKey, counter, shmid, base, semKey, semid, semval, adj>>
        BY <1>0, <1>1, <2>6, Order DEF ShmDt, TypeOK, sem, P
      <3>2. Active(r) /\ ~Working(P(r)) /\ ~Working(C(r))
        BY <1>0, <3>1, Acting DEF Ended, Stages
      <3>3. Segment(r)'
        BY <1>0, <1>1, <3>1, <3>2 DEF Segment, Working, Ended
      <3>4. Semaphore(r)'
        BY <1>0, <1>1, <3>1, <3>2 DEF Semaphore, InSection, Working, Kinds, P, C, Live
      <3>5. Counting(r)'
        BY <1>0, <1>1, <3>1, <3>2 DEF Counting, Segment
      <3> QED
        BY <3>3, <3>4, <3>5 DEF RunInv
    <2>7. CASE RmSem(r)
      <3>1. /\ main[r] = "rmsem" /\ main'[r] = "rmshm"
            /\ UNCHANGED <<shmKey, counter, shmid, att, base>>
            /\ semval' \in {0, semval} /\ adj' \in {adj, [p \in Workers |-> 0]}
        BY <1>0, <1>1, <2>7, Order DEF RmSem, TypeOK, shm
      <3>2. Active(r) /\ ~Working(P(r)) /\ ~Working(C(r))
        BY <1>0, <3>1, Acting DEF Ended, Stages
      <3>3. Segment(r)'
        BY <1>0, <1>1, <3>1, <3>2 DEF Segment, Working, Ended
      <3>4. adj'[P(r)] \in {0, adj[P(r)]} /\ adj'[C(r)] \in {0, adj[C(r)]}
        BY <1>2, <3>1
      <3>5. Semaphore(r)'
        BY <1>0, <1>1, <3>1, <3>2, <3>4
        DEF Semaphore, InSection, Working, Kinds, P, C, Live
      <3>6. Counting(r)'
        BY <1>0, <1>1, <3>1, <3>2 DEF Counting, Segment
      <3> QED
        BY <3>3, <3>5, <3>6 DEF RunInv
    <2>8. CASE RmShm(r)
      <3>1. /\ main[r] = "rmshm" /\ main'[r] = "done"
            /\ UNCHANGED <<att, counter, shmid, base, semKey, semid, semval, adj>>
        BY <1>0, <1>1, <2>8, Order DEF RmShm, TypeOK, sem
      <3>2. ~Working(P(r)) /\ ~Working(C(r))
        BY <1>0, <3>1 DEF Stages
      <3>3. Segment(r)'
        BY <1>0, <1>1, <3>1, <3>2 DEF Segment, Working, Ended
      <3>4. Semaphore(r)'
        BY <1>0, <1>1, <3>1, <3>2 DEF Semaphore, InSection, Working, Kinds, P, C, Live
      <3>5. Counting(r)'
        BY <1>0, <1>1, <3>1, <3>2 DEF Counting, Segment
      <3> QED
        BY <3>3, <3>4, <3>5 DEF RunInv
    <2> QED
      BY <2>1, <2>2, <2>3, <2>4, <2>5, <2>6, <2>7, <2>8
  <1> QED
    BY <1>3, <1>4, <1>5

\* The steps of main() that start workers.
LEMMA StartKeeps ==
    ASSUME Inv, NEW r \in Runs,
           \/ Fork(r)
           \/ CreateThread(r, "create0", "parent")
           \/ CreateThread(r, "create1", "child")
    PROVE  /\ RunInv(r)'
           /\ \A q \in Runs \ {r} : ~Active(q) /\ Apart(q)
  <1>0. /\ TypeInv /\ TypeOK /\ Stages(r) /\ Known(r) /\ RunInv(r)
        /\ Segment(r) /\ Semaphore(r) /\ Counting(r)
    BY DEF Inv, TypeInv, RunInv
  <1>1. /\ main[r] \in {"fork", "create0", "create1"} /\ Advance(r)
        /\ UNCHANGED <<done, reg, shmKey, counter, shmid, base, semKey, semid, semval,
                       adj, kills>>
        /\ EnterLoop(r) \in {"lock", "load"}
        /\ EnterLoop(r) = "lock" <=> Locked(r)
    BY DEF Fork, CreateThread, shm, sem, EnterLoop
  <1>2. main' = [main EXCEPT ![r] = IF main[r] = "create0" THEN "create1" ELSE "work"]
    BY <1>0, <1>1, Order DEF Ended
  <1>3. P(r) \in Workers /\ C(r) \in Workers /\ P(r) # C(r)
    BY DEF P, C, Workers
  <1>4. Active(r) /\ \A q \in Runs \ {r} : ~Active(q)
    BY <1>1, Acting DEF Ended
  <1>5. ASSUME NEW q \in Runs \ {r} PROVE Apart(q)
    <2>1. main'[q] = main[q] /\ pc'[P(q)] = pc[P(q)] /\ pc'[C(q)] = pc[C(q)]
      BY <1>0, <1>2 DEF Fork, CreateThread, TypeOK, P, C, Workers
    <2>2. att' \in {att, att \union {C(r)}}
      BY DEF Fork, CreateThread, C, shm
    <2> QED
      BY <1>1, <2>1, <2>2 DEF Apart, P, C
  <1>6. RunInv(r)'
    <2>1. CASE Fork(r)
      <3>1. /\ main[r] = "fork" /\ main'[r] = "work" /\ Prog[r] # "thread"
            /\ pc'[P(r)] = EnterLoop(r) /\ pc'[C(r)] = EnterLoop(r)
            /\ att' = att \union {C(r)}
            /\ pc[P(r)] = "idle" /\ pc[C(r)] = "idle"
        BY <1>0, <1>2, <1>3, <2>1 DEF Fork, TypeOK, Stages, P, C
      <3>2. Segment(r)'
        BY <1>0, <1>1, <1>3, <1>4, <3>1 DEF Segment, Working
      <3>3. Semaphore(r)'
        BY <1>0, <1>1, <3>1 DEF Semaphore, InSection, Working, Kinds, P, C, Live
      <3>4. Counting(r)'
        BY <1>0, <1>1, <3>1 DEF Counting, Segment, Kinds, P, C
      <3> QED
        BY <3>2, <3>3, <3>4 DEF RunInv
    <2>2. CASE CreateThread(r, "create0", "parent")
      <3>1. /\ main[r] = "create0" /\ main'[r] = "create1" /\ Prog[r] = "thread"
            /\ pc'[P(r)] = EnterLoop(r) /\ pc'[C(r)] = pc[C(r)]
            /\ att' = att /\ pc[P(r)] = "idle" /\ pc[C(r)] = "idle"
        BY <1>0, <1>2, <1>3, <2>2 DEF CreateThread, TypeOK, Stages, P, C, shm
      <3>2. Segment(r)'
        BY <1>0, <1>1, <1>4, <3>1 DEF Segment, Working
      <3>3. Semaphore(r)'
        BY <1>0, <1>1, <3>1
        DEF Semaphore, InSection, Working, Kinds, P, C, Live, Locked
      <3>4. Counting(r)'
        BY <1>0, <1>1, <3>1 DEF Counting, Segment, Kinds, P, C
      <3> QED
        BY <3>2, <3>3, <3>4 DEF RunInv
    <2>3. CASE CreateThread(r, "create1", "child")
      <3>1. /\ main[r] = "create1" /\ main'[r] = "work" /\ Prog[r] = "thread"
            /\ pc'[P(r)] = pc[P(r)] /\ pc'[C(r)] = EnterLoop(r)
            /\ att' = att /\ pc[C(r)] = "idle"
        BY <1>0, <1>2, <1>3, <2>3 DEF CreateThread, TypeOK, Stages, P, C, shm
      <3>2. Segment(r)'
        BY <1>0, <1>1, <1>4, <3>1 DEF Segment, Working
      <3>3. EnterLoop(r) = "lock"
        BY <1>1, <3>1 DEF Locked
      <3>4. Semaphore(r)'
        BY <1>0, <1>1, <3>1, <3>3
        DEF Semaphore, InSection, Working, Kinds, P, C, Live
      <3>5. Counting(r)'
        BY <1>0, <1>1, <3>1, <3>3 DEF Counting, Segment, Kinds, P, C
      <3> QED
        BY <3>2, <3>4, <3>5 DEF RunInv
    <2> QED
      BY <2>1, <2>2, <2>3
  <1> QED
    BY <1>4, <1>5, <1>6

\* What the two workers of a run have to do with each other: exactly one is
\* the other's "other", and they share a process only in the threaded program.
LEMMA TwoWorkers ==
    ASSUME NEW r \in Runs, NEW k \in Kinds
    PROVE  /\ P(r) \in Workers /\ C(r) \in Workers /\ P(r) # C(r)
           /\ <<r, k>> \in {P(r), C(r)} /\ <<r, k>>[1] = r
           /\ Proc(P(r)) = P(r)
           /\ Proc(C(r)) = IF Prog[r] = "thread" THEN P(r) ELSE C(r)
           /\ Proc(<<r, k>>) \in {P(r), C(r)}
           /\ Delta(P(r)) = -1 /\ Delta(C(r)) = 1
  BY DEF P, C, Workers, Kinds, Proc, Delta

\* A worker runs while main() starts the other one or waits for both, or it is
\* a child that main() left behind.
LEMMA InLoop ==
    ASSUME TypeOK, NEW r \in Runs, Stages(r), Working(P(r)) \/ Working(C(r))
    PROVE  main[r] \in {"create1", "work"} \/ Working(C(r))
  <1>1. CASE Working(P(r))
    <2>1. pc[P(r)] # "idle" /\ main[r] \notin Ended
      BY <1>1 DEF Stages, Working
    <2>2. main[r] \notin {"shmget", "shmat", "semget", "setval", "fork", "create0",
                         "shmdt", "rmsem", "rmshm"}
      BY <1>1, <2>1 DEF Stages
    <2> QED
      BY <2>1, <2>2 DEF TypeOK
  <1> QED
    BY <1>1

\* sem_lock: the semaphore goes from 1 to 0 and the worker is alone inside.
LEMMA LockKeeps ==
    ASSUME Inv, NEW r \in Runs, NEW k \in Kinds, Lock(<<r, k>>)
    PROVE  RunInv(r)'
  <1> DEFINE w == <<r, k>>
  <1>0. /\ TypeOK /\ Stages(r) /\ Segment(r) /\ Semaphore(r) /\ Counting(r)
        /\ w \in {P(r), C(r)} /\ w \in Workers
    BY TwoWorkers DEF Inv, TypeInv, RunInv
  <1>1. /\ pc[w] = "lock" /\ pc' = [pc EXCEPT ![w] = "load"]
        /\ UNCHANGED <<main, done, reg, shmKey, counter, shmid, att, base, semKey,
                       semid, kills>>
    BY DEF Lock, shm
  <1>2. Locked(r) /\ (Working(P(r)) \/ Working(C(r)))
    BY <1>0, <1>1 DEF Stages, Working
  <1>3. /\ Live(r)
        /\ main[r] \in {"create1", "work"} \/ Working(C(r))
    BY <1>0, <1>2, InLoop DEF Semaphore
  <1>4. /\ semval = 1 /\ semval' = 0
        /\ adj' = [adj EXCEPT ![Proc(w)] = @ + 1]
    BY <1>0, <1>2, <1>3, TwoWorkers DEF Lock, Semaphore, TypeOK
  <1>5. /\ ~InSection(P(r)) /\ ~InSection(C(r))
        /\ adj[P(r)] = 0 /\ adj[C(r)] = 0
    BY <1>0, <1>4 DEF Semaphore, P, C, Kinds
  <1>6. Active(r)
    BY <1>2, Acting
  <1>7. Segment(r)'
    <2>1. Working(C(r))' <=> Working(C(r))
      BY <1>0, <1>1 DEF TypeOK, Working
    <2> QED
      BY <1>0, <1>1, <1>6, <2>1 DEF Segment
  <1>8. Semaphore(r)'
    <2>1. adj'[Proc(w)] = 1
      BY <1>0, <1>4, <1>5, TwoWorkers DEF TypeOK
    <2>2. CASE w = P(r)
      <3>1. /\ pc'[P(r)] = "load" /\ pc'[C(r)] = pc[C(r)]
            /\ adj'[P(r)] = 1 /\ adj'[C(r)] = 0
        BY <1>0, <1>1, <1>4, <1>5, <2>1, <2>2, TwoWorkers DEF TypeOK
      <3> QED
        BY <1>0, <1>1, <1>2, <1>3, <1>4, <1>5, <3>1, TwoWorkers
        DEF Semaphore, InSection, Working, Kinds, P, C, Live
    <2>3. CASE w = C(r) /\ Prog[r] = "thread"
      <3>1. /\ pc'[C(r)] = "load" /\ pc'[P(r)] = pc[P(r)]
            /\ adj'[P(r)] = 1 /\ adj'[C(r)] = 0
        BY <1>0, <1>1, <1>4, <1>5, <2>1, <2>3, TwoWorkers DEF TypeOK
      <3> QED
        BY <1>0, <1>1, <1>2, <1>3, <1>4, <1>5, <2>3, <3>1, TwoWorkers
        DEF Semaphore, InSection, Working, Kinds, P, C, Live
    <2>4. CASE w = C(r) /\ Prog[r] # "thread"
      <3>1. /\ pc'[C(r)] = "load" /\ pc'[P(r)] = pc[P(r)]
            /\ adj'[C(r)] = 1 /\ adj'[P(r)] = 0
        BY <1>0, <1>1, <1>4, <1>5, <2>1, <2>4, TwoWorkers DEF TypeOK
      <3> QED
        BY <1>0, <1>1, <1>2, <1>3, <1>4, <1>5, <2>4, <3>1, TwoWorkers
        DEF Semaphore, InSection, Working, Kinds, P, C, Live
    <2> QED
      BY <1>0, <2>2, <2>3, <2>4
  <1>9. Counting(r)'
    <2>1. \A j \in Kinds : pc'[<<r, j>>] = "store" => pc[<<r, j>>] = "store"
      BY <1>0, <1>1, TwoWorkers DEF TypeOK
    <2> QED
      BY <1>0, <1>1, <2>1 DEF Counting
  <1> QED
    BY <1>7, <1>8, <1>9 DEF RunInv

\* sem_unlock: the semaphore goes back to 1.
LEMMA UnlockKeeps ==
    ASSUME Inv, NEW r \in Runs, NEW k \in Kinds, Unlock(<<r, k>>)
    PROVE  RunInv(r)'
  <1> DEFINE w == <<r, k>>
  <1>0. /\ TypeOK /\ Stages(r) /\ Segment(r) /\ Semaphore(r) /\ Counting(r)
        /\ w \in {P(r), C(r)} /\ w \in Workers /\ w[1] = r
    BY TwoWorkers DEF Inv, TypeInv, RunInv
  <1>1. /\ pc[w] = "unlock" /\ pc' = [pc EXCEPT ![w] = Return(w)]
        /\ Return(P(r)) = "done"
        /\ Return(C(r)) = IF Prog[r] = "thread" THEN "done" ELSE "exit"
        /\ UNCHANGED <<main, done, reg, shmKey, counter, shmid, att, base, semKey,
                       semid, kills>>
    <2>1. P(r)[2] = "parent" /\ C(r)[2] = "child"
      BY DEF P, C
    <2> QED
      BY <2>1, TwoWorkers DEF Unlock, shm, Return
  <1>2. Locked(r) /\ InSection(w) /\ (Working(P(r)) \/ Working(C(r)))
    <2>1. Locked(r)
      BY <1>0, <1>1 DEF Stages
    <2>2. Working(P(r)) \/ Working(C(r))
      BY <1>0, <1>1 DEF Working
    <2>3. InSection(w)
      BY <1>1, <2>1 DEF InSection, Locked
    <2> QED
      BY <2>1, <2>2, <2>3
  <1>3. /\ Live(r)
        /\ main[r] \in {"create1", "work"} \/ Working(C(r))
    BY <1>0, <1>2, InLoop DEF Semaphore
  <1>4. /\ semval = 0 /\ adj[Proc(w)] = 1
        /\ semval' = 1 /\ adj' = [adj EXCEPT ![Proc(w)] = 0]
    <2>1. semval = 0 /\ adj[Proc(w)] = 1
      BY <1>0, <1>2 DEF Semaphore
    <2>2. /\ semval' = semval + 1
          /\ adj' = [adj EXCEPT ![Proc(w)] = adj[Proc(w)] - 1]
      BY <1>0, <1>3 DEF Unlock, Live
    <2> QED
      BY <2>1, <2>2
  <1>5. Active(r)
    BY <1>2, Acting
  <1>7. Segment(r)'
    <2>1. Working(C(r))' /\ Prog[r] # "thread" <=> Working(C(r)) /\ Prog[r] # "thread"
      BY <1>0, <1>1, TwoWorkers DEF TypeOK, Working
    <2> QED
      BY <1>0, <1>1, <1>5, <2>1 DEF Segment
  <1>8. Semaphore(r)'
    <2>1. CASE w = P(r)
      <3>1. /\ pc'[P(r)] = "done" /\ pc'[C(r)] = pc[C(r)]
            /\ adj'[P(r)] = 0 /\ adj'[C(r)] = adj[C(r)]
            /\ ~InSection(C(r))
        BY <1>0, <1>1, <1>2, <1>4, <2>1, TwoWorkers DEF TypeOK, Semaphore
      <3> QED
        BY <1>0, <1>1, <1>2, <1>3, <1>4, <3>1, TwoWorkers
        DEF Semaphore, InSection, Working, Kinds, P, C, Live
    <2>2. CASE w = C(r) /\ Prog[r] = "thread"
      <3>1. /\ pc'[C(r)] = "done" /\ pc'[P(r)] = pc[P(r)]
            /\ adj'[P(r)] = 0 /\ adj'[C(r)] = adj[C(r)]
            /\ ~InSection(P(r))
        BY <1>0, <1>1, <1>2, <1>4, <2>2, TwoWorkers DEF TypeOK, Semaphore
      <3> QED
        BY <1>0, <1>1, <1>2, <1>3, <1>4, <2>2, <3>1, TwoWorkers
        DEF Semaphore, InSection, Working, Kinds, P, C, Live
    <2>3. CASE w = C(r) /\ Prog[r] # "thread"
      <3>1. /\ pc'[C(r)] = "exit" /\ pc'[P(r)] = pc[P(r)]
            /\ adj'[C(r)] = 0 /\ adj'[P(r)] = adj[P(r)]
            /\ ~InSection(P(r))
        BY <1>0, <1>1, <1>2, <1>4, <2>3, TwoWorkers DEF TypeOK, Semaphore
      <3> QED
        BY <1>0, <1>1, <1>2, <1>3, <1>4, <2>3, <3>1, TwoWorkers
        DEF Semaphore, InSection, Working, Kinds, P, C, Live
    <2> QED
      BY <1>0, <2>1, <2>2, <2>3
  <1>9. Counting(r)'
    <2>1. \A j \in Kinds : pc'[<<r, j>>] = "store" => pc[<<r, j>>] = "store"
      <3>1. pc'[w] # "store"
        BY <1>0, <1>1 DEF TypeOK
      <3> QED
        BY <1>0, <1>1, <3>1, TwoWorkers DEF TypeOK
    <2> QED
      BY <1>0, <1>1, <2>1 DEF Counting
  <1> QED
    BY <1>7, <1>8, <1>9 DEF RunInv

\* The load: the register agrees with the counter it was read from.
LEMMA LoadKeeps ==
    ASSUME Inv, NEW r \in Runs, NEW k \in Kinds, Load(<<r, k>>)
    PROVE  RunInv(r)'
  <1> DEFINE w == <<r, k>>
  <1>0. /\ TypeOK /\ Stages(r) /\ Segment(r) /\ Semaphore(r) /\ Counting(r)
        /\ w \in {P(r), C(r)} /\ w \in Workers
    BY TwoWorkers DEF Inv, TypeInv, RunInv
  <1>1. /\ pc[w] = "load" /\ pc' = [pc EXCEPT ![w] = "store"]
        /\ reg' = [reg EXCEPT ![w] = counter[shmid[r]]]
        /\ UNCHANGED <<main, done, shmKey, counter, shmid, att, base, semKey, semid,
                       semval, adj, kills>>
    BY DEF Load, shm, sem
  <1>2. Active(r)
    <2>1. Working(P(r)) \/ Working(C(r))
      BY <1>0, <1>1 DEF Working
    <2> QED
      BY <2>1, Acting
  <1>3. \A j \in Kinds :
            \/ pc'[<<r, j>>] = pc[<<r, j>>]
            \/ pc[<<r, j>>] = "load" /\ pc'[<<r, j>>] = "store"
    BY <1>0, <1>1 DEF TypeOK, Workers, Kinds
  <1>4. /\ Working(P(r))' <=> Working(P(r))
        /\ Working(C(r))' <=> Working(C(r))
        /\ InSection(P(r))' <=> InSection(P(r))
        /\ InSection(C(r))' <=> InSection(C(r))
        /\ \A j \in Kinds : InSection(<<r, j>>)' <=> InSection(<<r, j>>)
    BY <1>3 DEF Working, InSection, P, C, Kinds
  <1>5. Segment(r)'
    BY <1>0, <1>1, <1>2, <1>4 DEF Segment
  <1>6. Semaphore(r)'
    BY <1>0, <1>1, <1>4 DEF Semaphore, Live
  <1>7. Counting(r)'
    <2>1. \A j \in Kinds : pc'[<<r, j>>] = "store" =>
              \/ pc[<<r, j>>] = "store" /\ reg'[<<r, j>>] = reg[<<r, j>>]
              \/ reg'[<<r, j>>] = counter[shmid[r]]
      <3> SUFFICES ASSUME NEW j \in Kinds, pc'[<<r, j>>] = "store", j # k
                   PROVE  pc[<<r, j>>] = "store" /\ reg'[<<r, j>>] = reg[<<r, j>>]
        BY <1>0, <1>1 DEF TypeOK
      <3>1. <<r, j>> \in Workers /\ <<r, j>> # w
        BY DEF Workers, Kinds
      <3> QED
        BY <1>0, <1>1, <3>1 DEF TypeOK
    <2> QED
      BY <1>0, <1>1, <2>1 DEF Counting
  <1> QED
    BY <1>5, <1>6, <1>7 DEF RunInv

\* The store: with the lock the other worker has nothing loaded; without it
\* the counter moves at most one step from a value within the bounds.
LEMMA StoreKeeps ==
    ASSUME Inv, NEW r \in Runs, NEW k \in Kinds, Store(<<r, k>>)
    PROVE  RunInv(r)'
  <1> DEFINE w == <<r, k>>
  <1>0. /\ TypeOK /\ Stages(r) /\ Known(r) /\ Segment(r) /\ Semaphore(r) /\ Counting(r)
        /\ w \in {P(r), C(r)} /\ w \in Workers /\ P(r) # C(r)
        /\ P(r) \in Workers /\ C(r) \in Workers
    BY TwoWorkers DEF Inv, TypeInv, RunInv
  <1>1. /\ pc[w] = "store"
        /\ counter' = [counter EXCEPT ![shmid[r]] = reg[w] + Delta(w)]
        /\ done' = [done EXCEPT ![w] = @ + 1]
        /\ \E next \in {"load", LeaveLoop(w)} : pc' = [pc EXCEPT ![w] = next]
        /\ UNCHANGED <<main, reg, shmKey, shmid, att, base, semKey, semid, semval, adj,
                       kills>>
    BY DEF Store, shm, sem
  <1>2. /\ LeaveLoop(w) \in {"unlock", "done", "exit"}
        /\ Locked(r) => LeaveLoop(w) = "unlock"
        /\ w = C(r) /\ Prog[r] # "thread" => LeaveLoop(w) \in {"unlock", "exit"}
    BY DEF LeaveLoop, Return, Proc, C, Locked
  <1>3. Active(r) /\ shmid[r] \in Runs
    <2>1. Working(P(r)) \/ Working(C(r))
      BY <1>0, <1>1 DEF Working
    <2> QED
      BY <1>0, <2>1, Acting DEF Known
  <1>4. \A j \in Kinds :
            /\ <<r, j>> # w => pc'[<<r, j>>] = pc[<<r, j>>]
            /\ pc'[<<r, j>>] # "store" \/ <<r, j>> # w
            /\ Locked(r) /\ <<r, j>> = w => pc'[<<r, j>>] \in {"load", "unlock"}
    BY <1>0, <1>1, <1>2 DEF TypeOK, Workers, Kinds
  <1>5. /\ Prog[r] # "thread" => (Working(C(r))' <=> Working(C(r)))
        /\ Locked(r) => (Working(C(r))' <=> Working(C(r)))
        /\ InSection(P(r))' <=> InSection(P(r))
        /\ InSection(C(r))' <=> InSection(C(r))
        /\ \A j \in Kinds : InSection(<<r, j>>)' <=> InSection(<<r, j>>)
    <2>1. CASE w = C(r)
      <3>1. pc'[C(r)] \in {"load", LeaveLoop(w)} /\ pc[C(r)] = "store"
        BY <1>0, <1>1, <2>1 DEF TypeOK
      <3>2. /\ Prog[r] # "thread" => (Working(C(r))' <=> Working(C(r)))
            /\ Locked(r) => (Working(C(r))' <=> Working(C(r)))
        BY <1>2, <2>1, <3>1 DEF Working
      <3> QED
        BY <1>1, <1>4, <3>2 DEF InSection, P, C, Kinds
    <2>2. CASE w = P(r)
      <3>1. pc'[C(r)] = pc[C(r)]
        BY <1>0, <1>1, <2>2 DEF TypeOK
      <3> QED
        BY <1>1, <1>4, <3>1 DEF Working, InSection, P, C, Kinds
    <2> QED
      BY <1>0, <2>1, <2>2
  <1>6. Segment(r)'
    BY <1>0, <1>1, <1>3, <1>5 DEF Segment
  <1>7. Semaphore(r)'
    BY <1>0, <1>1, <1>5 DEF Semaphore, Live
  <1>8. Counting(r)'
    <2> SUFFICES ASSUME P(r) \in att \/ C(r) \in att PROVE Counting(r)'
      BY <1>1 DEF Counting
    <2> DEFINE lo == base[r] - done[P(r)]
               hi == base[r] + done[C(r)]
    <2>1. /\ lo \in Int /\ hi \in Int /\ base[r] \in Int
          /\ done[P(r)] \in Int /\ done[C(r)] \in Int
          /\ base'[r] = base[r]
          /\ counter[shmid[r]] \in lo..hi
          /\ counter'[shmid'[r]] = reg[w] + Delta(w)
          /\ reg[w] \in lo..hi
          /\ Locked(r) => reg[w] = base[r] + done[C(r)] - done[P(r)]
      BY <1>0, <1>1, <1>3 DEF Counting, TypeOK
    <2>2. CASE w = P(r)
      <3>1. /\ done'[P(r)] = done[P(r)] + 1 /\ done'[C(r)] = done[C(r)]
            /\ Delta(w) = -1
        BY <1>0, <1>1, <2>2, TwoWorkers DEF TypeOK
      <3>2. pc'[P(r)] # "store" /\ (pc'[C(r)] = "store" => pc[C(r)] = "store")
        BY <1>0, <1>1, <1>2, <2>2 DEF TypeOK
      <3>3. pc'[C(r)] = "store" => ~Locked(r) /\ reg'[C(r)] \in lo..hi
        BY <1>0, <1>1, <2>2, <3>2
        DEF Counting, Semaphore, InSection, P, C, Kinds
      <3> QED
        BY <1>1, <2>1, <3>1, <3>2, <3>3 DEF Counting, Kinds, P, C
    <2>3. CASE w = C(r)
      <3>1. /\ done'[C(r)] = done[C(r)] + 1 /\ done'[P(r)] = done[P(r)]
            /\ Delta(w) = 1
        BY <1>0, <1>1, <2>3, TwoWorkers DEF TypeOK
      <3>2. pc'[C(r)] # "store" /\ (pc'[P(r)] = "store" => pc[P(r)] = "store")
        BY <1>0, <1>1, <1>2, <2>3 DEF TypeOK
      <3>3. pc'[P(r)] = "store" => ~Locked(r) /\ reg'[P(r)] \in lo..hi
        BY <1>0, <1>1, <2>3, <3>2
        DEF Counting, Semaphore, InSection, P, C, Kinds
      <3> QED
        BY <1>1, <2>1, <3>1, <3>2, <3>3 DEF Counting, Kinds, P, C
    <2> QED
      BY <1>0, <2>2, <2>3
  <1> QED
    BY <1>6, <1>7, <1>8 DEF RunInv

\* A worker of one run does not touch the others.
LEMMA WorkerApart ==
    ASSUME Inv, NEW r \in Runs, NEW k \in Kinds,
           Lock(<<r, k>>) \/ Load(<<r, k>>) \/ Store(<<r, k>>) \/ Unlock(<<r, k>>),
           NEW q \in Runs \ {r}
    PROVE  ~Active(q) /\ Apart(q)
  <1> DEFINE w == <<r, k>>
  <1>0. TypeOK /\ w \in Workers /\ w \in {P(r), C(r)} /\ Proc(w) \in {P(r), C(r)}
    BY TwoWorkers DEF Inv, TypeInv
  <1>1. P(q) \in Workers /\ C(q) \in Workers /\ {P(q), C(q)} \cap {P(r), C(r)} = {}
    BY DEF P, C, Workers
  <1>2. ~Active(q)
    <2>1. pc[w] \in {"lock", "load", "store", "unlock"}
      BY DEF Lock, Load, Store, Unlock
    <2>2. Working(P(r)) \/ Working(C(r))
      BY <1>0, <2>1 DEF Working
    <2> QED
      BY <2>2, Acting
  <1>3. /\ main' = main /\ att' = att
        /\ \E x : pc' = [pc EXCEPT ![w] = x]
        /\ adj' = adj \/ \E x : adj' = [adj EXCEPT ![Proc(w)] = x]
    BY DEF Lock, Load, Store, Unlock, shm, sem
  <1>4. pc'[P(q)] = pc[P(q)] /\ pc'[C(q)] = pc[C(q)]
    BY <1>0, <1>1, <1>3 DEF TypeOK
  <1>5. adj'[P(q)] = adj[P(q)] /\ adj'[C(q)] = adj[C(q)]
    BY <1>0, <1>1, <1>3 DEF TypeOK
  <1> QED
    BY <1>2, <1>3, <1>4, <1>5 DEF Apart

\* The end of main()'s process gives back exactly what it held.
LEMMA EndMainKeeps ==
    ASSUME Inv, NEW r \in Runs, EndProcess(P(r), "killed"), main[r] \notin Ended,
           main' \in {[main EXCEPT ![r] = "failed"], [main EXCEPT ![r] = "killed"]}
    PROVE  /\ RunInv(r)'
           /\ \A q \in Runs \ {r} : RunInv(q)' /\ (Active(q)' <=> Active(q))
           /\ Active(r)' => Active(r)
  <1>0. /\ TypeInv /\ TypeOK /\ Stages(r) /\ RunInv(r)
        /\ Segment(r) /\ Semaphore(r) /\ Counting(r)
        /\ P(r) \in Workers /\ C(r) \in Workers /\ P(r) # C(r)
    BY TwoWorkers DEF Inv, TypeInv, RunInv, Kinds
  <1>1. main'[r] \in {"failed", "killed"} /\ \A q \in Runs \ {r} : main'[q] = main[q]
    BY <1>0 DEF TypeOK
  <1>2. /\ pc'[P(r)] \in {"done", "killed"}
        /\ pc'[C(r)] = IF Prog[r] = "thread" /\ pc[C(r)] # "done" THEN "killed"
                                                                  ELSE pc[C(r)]
        /\ att' = att \ {P(r)}
        /\ semval' = IF semval + adj[P(r)] < 0 THEN 0 ELSE semval + adj[P(r)]
        /\ adj' = [adj EXCEPT ![P(r)] = 0]
        /\ UNCHANGED <<done, reg, shmKey, counter, shmid, base, semKey, semid>>
    <2>1. /\ Proc(P(r)) = P(r)
          /\ Proc(C(r)) = IF Prog[r] = "thread" THEN P(r) ELSE C(r)
      BY TwoWorkers DEF Kinds
    <2> QED
      BY <1>0, <2>1 DEF EndProcess
  <1>3. ASSUME NEW q \in Runs \ {r}
        PROVE  /\ Apart(q) /\ (Active(q)' <=> Active(q))
               /\ \A k \in Kinds : pc'[<<q, k>>] = pc[<<q, k>>]
               /\ adj'[P(q)] = adj[P(q)] /\ adj'[C(q)] = adj[C(q)]
    <2>1. \A k \in Kinds : <<q, k>> \in Workers /\ <<q, k>> \notin {P(r), C(r)}
                             /\ Proc(<<q, k>>) # P(r)
      BY DEF P, C, Workers, Kinds, Proc
    <2>2. \A k \in Kinds : pc'[<<q, k>>] = pc[<<q, k>>]
      BY <2>1 DEF EndProcess
    <2>3. P(q) \in Workers /\ C(q) \in Workers /\ {P(q), C(q)} \cap {P(r)} = {}
      BY <2>1 DEF P, C, Kinds
    <2>4. adj'[P(q)] = adj[P(q)] /\ adj'[C(q)] = adj[C(q)]
      BY <1>0, <1>2, <2>3 DEF TypeOK
    <2> QED
      BY <1>1, <1>2, <2>2, <2>3, <2>4 DEF Apart, Active, Over, P, C, Kinds
  <1>4. Active(r)' => Active(r)
    BY <1>0, <1>1, <1>2 DEF Active, Over, Ended, P, C, Stages
  <1>5. CASE main[r] = "shmget"
    <2>1. ~Active(r)
      BY <1>5 DEF Active
    <2>2. P(r) \notin att /\ C(r) \notin att /\ adj[P(r)] = 0 /\ adj[C(r)] = 0
          /\ ~Working(C(r))
      BY <1>0, <2>1, Quiet
    <2>3. att' = att /\ semval' = semval /\ adj' = adj
      BY <1>0, <1>2, <2>2 DEF TypeOK
    <2>4. ASSUME NEW q \in Runs \ {r} PROVE RunInv(q)'
      <3>1. RunInv(q) /\ TypeOK
        BY DEF Inv, TypeInv
      <3>2. Segment(q)'
        BY <1>1, <1>2, <1>3, <2>3, <3>1 DEF RunInv, Segment, Working, Kinds, P, C
      <3>3. Semaphore(q)'
        BY <1>1, <1>2, <1>3, <2>3, <3>1
        DEF RunInv, Semaphore, InSection, Working, Live, Kinds, P, C
      <3>4. Counting(q)'
        BY <1>1, <1>2, <1>3, <2>3, <3>1 DEF RunInv, Counting
      <3> QED
        BY <3>2, <3>3, <3>4 DEF RunInv
    <2>5. ~Working(P(r))' /\ ~Working(C(r))'
      BY <1>2, <2>2 DEF Working
    <2>6. RunInv(r)'
      <3>1. Segment(r)'
        BY <1>1, <2>1, <1>4, <2>2, <2>3, <2>5 DEF Segment
      <3>2. Semaphore(r)'
        BY <1>1, <2>2, <2>3, <2>5 DEF Semaphore, InSection, Working, Kinds, P, C
      <3>3. Counting(r)'
        BY <2>2, <2>3 DEF Counting
      <3> QED
        BY <3>1, <3>2, <3>3 DEF RunInv
    <2> QED
      BY <1>3, <1>4, <2>4, <2>6
  <1>6. CASE main[r] # "shmget"
    <2>1. Active(r) /\ \A q \in Runs \ {r} : ~Active(q)
      BY <1>6, Acting
    <2>2. ASSUME NEW q \in Runs \ {r} PROVE RunInv(q)'
      <3>1. RunInv(q)
        BY DEF Inv
      <3> QED
        BY <1>0, <1>3, <2>1, <3>1, QuietKept
    <2>3. /\ ~Working(P(r))'
          /\ Working(C(r))' <=> Working(C(r)) /\ Prog[r] # "thread"
          /\ ~InSection(P(r))'
          /\ InSection(C(r))' <=> InSection(C(r)) /\ Prog[r] # "thread"
      BY <1>2 DEF Working, InSection, P, C
    <2>4. Segment(r)'
      BY <1>0, <1>1, <1>2, <2>1, <2>3 DEF Segment, Ended
    <2>5. Semaphore(r)'
      <3>1. /\ adj[P(r)] \in {0, 1} /\ adj[C(r)] \in {0, 1}
            /\ adj[P(r)] = 1 => semval = 0
            /\ InSection(P(r)) => semval = 0 /\ adj[P(r)] = 1
            /\ InSection(C(r)) => semval = 0 /\ adj[Proc(C(r))] = 1
        <4>1. Proc(P(r)) = P(r)
          BY DEF Proc, P
        <4> QED
          BY <1>0, <4>1 DEF Semaphore, Kinds, P, C
      <3>2. adj'[P(r)] = 0 /\ adj'[C(r)] = adj[C(r)] /\ semval' = semval + adj[P(r)]
        BY <1>0, <1>2, <3>1 DEF TypeOK
      <3>3. InSection(C(r)) /\ Prog[r] # "thread" => adj[C(r)] = 1 /\ adj[P(r)] = 0
        BY <1>0, <3>1, TwoWorkers DEF Semaphore, Kinds
      <3>4. adj[P(r)] = 1 /\ Prog[r] # "thread" => InSection(P(r)) /\ ~InSection(C(r))
        BY <1>0 DEF Semaphore
      <3>5. ASSUME NEW k \in Kinds
            PROVE  /\ InSection(<<r, k>>)' => adj'[Proc(<<r, k>>)] = 1 /\ semval' = 0
                   /\ adj'[<<r, k>>] \in {0, 1}
        <4>1. <<r, k>> \in {P(r), C(r)}
          BY TwoWorkers
        <4>2. CASE <<r, k>> = P(r)
          BY <2>3, <3>2, <4>2
        <4>3. CASE <<r, k>> = C(r)
          BY <2>3, <3>1, <3>2, <3>3, <4>3, TwoWorkers
        <4> QED
          BY <4>1, <4>2, <4>3
      <3>6. Locked(r) /\ Working(C(r))' =>
                /\ Live(r)'
                /\ semval' \in {0, 1}
                /\ semval' = 0 => InSection(C(r))'
        BY <1>0, <1>2, <2>3, <3>1, <3>2, <3>3, <3>4 DEF Semaphore, Live, TypeOK
      <3>7. adj'[C(r)] = 1 => InSection(C(r))' /\ Prog[r] # "thread"
        BY <1>0, <2>3, <3>2 DEF Semaphore
      <3> QED
        BY <1>1, <2>3, <3>2, <3>5, <3>6, <3>7 DEF Semaphore
    <2>6. Counting(r)'
      BY <1>0, <1>2 DEF Counting, P, C, Kinds
    <2> QED
      BY <1>3, <1>4, <2>2, <2>4, <2>5, <2>6 DEF RunInv
  <1> QED
    BY <1>5, <1>6

\* The end of a child process gives back exactly what it held.
LEMMA EndChildKeeps ==
    ASSUME Inv, NEW r \in Runs, NEW how \in {"done", "killed"},
           EndProcess(C(r), how), Prog[r] # "thread", main' = main,
           pc[C(r)] \notin {"idle", "done", "killed"}
    PROVE  /\ RunInv(r)'
           /\ \A q \in Runs \ {r} : RunInv(q)' /\ (Active(q)' <=> Active(q))
           /\ Active(r)' => Active(r)
  <1>0. /\ TypeInv /\ TypeOK /\ Stages(r) /\ RunInv(r)
        /\ Segment(r) /\ Semaphore(r) /\ Counting(r)
        /\ P(r) \in Workers /\ C(r) \in Workers /\ P(r) # C(r)
    BY TwoWorkers DEF Inv, TypeInv, RunInv, Kinds
  <1>1. ASSUME NEW w \in Workers
        PROVE  pc'[w] = IF w = C(r) THEN how ELSE pc[w]
    BY DEF EndProcess, Proc, C
  <1>2. /\ pc'[P(r)] = pc[P(r)] /\ pc'[C(r)] = how
        /\ att' = att \ {C(r)}
        /\ semval' = IF semval + adj[C(r)] < 0 THEN 0 ELSE semval + adj[C(r)]
        /\ adj' = [adj EXCEPT ![C(r)] = 0]
        /\ UNCHANGED <<done, reg, shmKey, counter, shmid, base, semKey, semid>>
    BY <1>0, <1>1 DEF EndProcess
  <1>3. Active(r) /\ Working(C(r)) /\ \A q \in Runs \ {r} : ~Active(q)
    <2>1. Working(C(r))
      BY <1>0 DEF Working, TypeOK
    <2> QED
      BY <2>1, Acting
  <1>4. ASSUME NEW q \in Runs \ {r}
        PROVE  (Active(q)' <=> Active(q)) /\ RunInv(q)'
    <2>1. P(q) \in Workers /\ C(q) \in Workers /\ P(q) # C(r) /\ C(q) # C(r)
      BY DEF P, C, Workers
    <2>2. pc'[P(q)] = pc[P(q)] /\ pc'[C(q)] = pc[C(q)]
      BY <1>1, <2>1
    <2>3. adj'[P(q)] = adj[P(q)] /\ adj'[C(q)] = adj[C(q)]
      BY <1>0, <1>2, <2>1 DEF TypeOK
    <2>4. Apart(q)
      BY <1>2, <2>1, <2>2, <2>3 DEF Apart
    <2>5. RunInv(q) /\ ~Active(q)
      BY <1>3 DEF Inv
    <2> QED
      BY <1>0, <2>4, <2>5, QuietKept
  <1>5. /\ Working(P(r))' <=> Working(P(r))
        /\ ~Working(C(r))' /\ ~InSection(C(r))'
        /\ InSection(P(r))' <=> InSection(P(r))
    BY <1>2 DEF Working, InSection, P, C
  <1>6. Segment(r)'
    BY <1>0, <1>2, <1>3, <1>5 DEF Segment
  <1>7. Semaphore(r)'
    <2>1. /\ adj[P(r)] \in {0, 1} /\ adj[C(r)] \in {0, 1}
          /\ adj[C(r)] = 1 => InSection(C(r)) /\ semval = 0 /\ ~InSection(P(r))
          /\ InSection(C(r)) => semval = 0 /\ adj[C(r)] = 1 /\ ~InSection(P(r))
          /\ InSection(P(r)) => semval = 0 /\ adj[P(r)] = 1 /\ adj[C(r)] = 0
      BY <1>0, TwoWorkers DEF Semaphore, Kinds, P, C
    <2>2. adj'[C(r)] = 0 /\ adj'[P(r)] = adj[P(r)] /\ semval' = semval + adj[C(r)]
      BY <1>0, <1>2, <2>1 DEF TypeOK
    <2>3. ASSUME NEW k \in Kinds
          PROVE  /\ InSection(<<r, k>>)' => adj'[Proc(<<r, k>>)] = 1 /\ semval' = 0
                 /\ adj'[<<r, k>>] \in {0, 1}
      <3>1. <<r, k>> \in {P(r), C(r)}
        BY TwoWorkers
      <3>2. CASE <<r, k>> = P(r)
        BY <1>5, <2>1, <2>2, <3>2, TwoWorkers
      <3>3. CASE <<r, k>> = C(r)
        BY <1>5, <2>2, <3>3
      <3> QED
        BY <3>1, <3>2, <3>3
    <2>4. Locked(r) /\ main'[r] \in {"fork", "create0", "create1", "work"} =>
              semval' \in {0, 1} /\ (semval' = 0 => InSection(P(r))')
      BY <1>0, <1>5, <2>1, <2>2 DEF Semaphore
    <2>5. Live(r)' = Live(r)
      BY <1>2 DEF Live
    <2> QED
      BY <1>0, <1>5, <2>2, <2>3, <2>4, <2>5 DEF Semaphore
  <1>8. Counting(r)'
    BY <1>0, <1>2, <1>3 DEF Counting, Segment, Kinds, P, C
  <1> QED
    BY <1>3, <1>4, <1>6, <1>7, <1>8 DEF RunInv

-------------------------------------------------------------------------------
\* The invariant holds before the first run.
LEMMA InvStart == Init => Inv
  <1> SUFFICES ASSUME Init PROVE Inv
    OBVIOUS
  <1>1. TypeInv
    BY TypeStart
  <1>2. ASSUME NEW r \in Runs PROVE ~Active(r)
    BY DEF Init, Active
  <1>3. ASSUME NEW r \in Runs PROVE RunInv(r)
    <2>1. /\ P(r) \in Workers /\ C(r) \in Workers
          /\ \A k \in Kinds : <<r, k>> \in Workers
      BY DEF P, C, Workers, Kinds
    <2> QED
      BY <1>2, <2>1 DEF Init, RunInv, Segment, Semaphore, Counting, InSection, Working,
         P, C
  <1> QED
    BY <1>1, <1>2, <1>3 DEF Inv, OneActive

\* When runs do not overlap, a step of the active run keeps its own invariant
\* and the quiet runs stay quiet.
LEMMA InvStep == ~Overlap /\ Inv /\ [Next]_vars => Inv'
  <1> SUFFICES ASSUME ~Overlap, Inv, [Next]_vars PROVE Inv'
    OBVIOUS
  <1>0. TypeInv /\ TypeInv'
    BY TypeStep DEF Inv
  <1>1. ASSUME NEW r \in Runs, RunInv(r)', \A q \in Runs \ {r} : ~Active(q) /\ Apart(q)
        PROVE  Inv'
    <2>1. ASSUME NEW q \in Runs \ {r} PROVE RunInv(q)' /\ ~Active(q)'
      <3>1. RunInv(q) /\ ~Active(q) /\ Apart(q)
        BY <1>1 DEF Inv
      <3> QED
        BY <1>0, <3>1, QuietKept
    <2> QED
      BY <1>0, <1>1, <2>1 DEF Inv, OneActive
  <1>2. ASSUME NEW r \in Runs, RunInv(r)', Active(r)' => Active(r),
               \A q \in Runs \ {r} : RunInv(q)' /\ (Active(q)' <=> Active(q))
        PROVE  Inv'
    BY <1>0, <1>2 DEF Inv, OneActive
  <1>3. CASE Next
    <2>1. PICK r \in Runs :
             \/ ShmGet(r) \/ ShmAt(r) \/ SemGet(r) \/ SetVal(r) \/ Join(r)
             \/ ShmDt(r) \/ RmSem(r) \/ RmShm(r)
             \/ Fork(r)
             \/ CreateThread(r, "create0", "parent")
             \/ CreateThread(r, "create1", "child")
             \/ \E k \in Kinds : Lock(<<r, k>>) \/ Load(<<r, k>>)
                                    \/ Store(<<r, k>>) \/ Unlock(<<r, k>>)
             \/ /\ EndProcess(P(r), "killed")
                /\ main[r] \notin Ended
                /\ main' \in {[main EXCEPT ![r] = "failed"],
                              [main EXCEPT ![r] = "killed"]}
                /\ kills' \in {kills, kills + 1}
             \/ /\ \E how \in {"done", "killed"} : EndProcess(C(r), how)
                /\ Prog[r] # "thread" /\ main' = main
                /\ kills' \in {kills, kills + 1}
                /\ pc[C(r)] \notin {"idle", "done", "killed"}
      BY <1>0, <1>3, Steps
    <2>2. CASE \/ ShmGet(r) \/ ShmAt(r) \/ SemGet(r) \/ SetVal(r) \/ Join(r)
               \/ ShmDt(r) \/ RmSem(r) \/ RmShm(r)
      BY <1>1, <2>2, MainKeeps
    <2>3. CASE \/ Fork(r)
               \/ CreateThread(r, "create0", "parent")
               \/ CreateThread(r, "create1", "child")
      BY <1>1, <2>3, StartKeeps
    <2>4. CASE \E k \in Kinds : Lock(<<r, k>>) \/ Load(<<r, k>>)
                                   \/ Store(<<r, k>>) \/ Unlock(<<r, k>>)
      <3>1. RunInv(r)'
        BY <2>4, LockKeeps, LoadKeeps, StoreKeeps, UnlockKeeps
      <3>2. \A q \in Runs \ {r} : ~Active(q) /\ Apart(q)
        BY <2>4, WorkerApart
      <3> QED
        BY <1>1, <3>1, <3>2
    <2>5. CASE /\ EndProcess(P(r), "killed")
               /\ main[r] \notin Ended
               /\ main' \in {[main EXCEPT ![r] = "failed"],
                             [main EXCEPT ![r] = "killed"]}
      BY <1>2, <2>5, EndMainKeeps
    <2>6. CASE /\ \E how \in {"done", "killed"} : EndProcess(C(r), how)
               /\ Prog[r] # "thread" /\ main' = main
               /\ pc[C(r)] \notin {"idle", "done", "killed"}
      BY <1>2, <2>6, EndChildKeeps
    <2> QED
      BY <2>1, <2>2, <2>3, <2>4, <2>5, <2>6
  <1>4. CASE UNCHANGED vars
    <2>1. UNCHANGED <<main, pc, done, reg, shmKey, counter, shmid, att, base, semKey,
                      semid, semval, adj>>
      BY <1>4 DEF vars, work, shm, sem
    <2>2. ASSUME NEW r \in Runs
          PROVE  RunInv(r)' /\ (Active(r)' <=> Active(r))
      <3>1. RunInv(r)
        BY DEF Inv
      <3>2. Active(r)' <=> Active(r)
        BY <2>1 DEF Active, Over
      <3>3. Segment(r)'
        BY <2>1, <3>1, <3>2 DEF RunInv, Segment, Working
      <3>4. Semaphore(r)'
        BY <2>1, <3>1 DEF RunInv, Semaphore, InSection, Working, Live
      <3>5. Counting(r)'
        BY <2>1, <3>1 DEF RunInv, Counting
      <3> QED
        BY <3>2, <3>3, <3>4, <3>5 DEF RunInv
    <2> QED
      BY <1>0, <2>2 DEF Inv, OneActive
  <1> QED
    BY <1>3, <1>4

\* The invariant holds in every reachable state when runs do not overlap.
LEMMA Invariance == ASSUME ~Overlap PROVE Spec => []Inv
  BY InvStart, InvStep, PTL DEF Spec

-------------------------------------------------------------------------------
\* At any time at most one worker of all runs is inside its section.
LEMMA OneInSection ==
    ASSUME Inv, NEW v \in Workers, NEW w \in Workers, InSection(v), InSection(w)
    PROVE  v = w
  <1>1. PICK q \in Runs, j \in Kinds : v = <<q, j>>
    BY DEF Workers, Kinds
  <1>2. PICK r \in Runs, k \in Kinds : w = <<r, k>>
    BY DEF Workers, Kinds
  <1>3. v \in {P(q), C(q)} /\ w \in {P(r), C(r)}
    BY <1>1, <1>2, TwoWorkers
  <1>4. /\ Working(P(q)) \/ Working(C(q))
        /\ Working(P(r)) \/ Working(C(r))
    BY <1>3 DEF InSection, Working
  <1>5. q = r
    BY <1>4, Acting DEF Inv, OneActive
  <1>6. ~(InSection(P(r)) /\ InSection(C(r)))
    BY DEF Inv, RunInv, Semaphore
  <1> QED
    BY <1>3, <1>5, <1>6

\* The lock of the two locking programs excludes, whatever is killed or fails
\* and whatever an earlier run left: for any number of runs, one at a time.
THEOREM Exclusion == ASSUME ~Overlap PROVE Spec => []MutualExclusion
  <1>1. Inv => MutualExclusion
    BY OneInSection DEF MutualExclusion
  <1> QED
    BY <1>1, Invariance, PTL

\* A segment is attached by the process of main() or by the child.
LEMMA AttachedBy ==
    ASSUME TypeOK, NEW r \in Runs, Attached(r)
    PROVE  P(r) \in att \/ C(r) \in att
  <1>1. PICK p \in att : p[1] = r
    BY DEF Attached
  <1>2. p \in Workers
    BY <1>1 DEF TypeOK
  <1>3. PICK q \in Runs, k \in Kinds : p = <<q, k>>
    BY <1>2 DEF Workers, Kinds
  <1> QED
    BY <1>1, <1>3, TwoWorkers

\* No update of the locking programs is lost, whatever MAX_TRY is.
THEOREM Exactness == ASSUME ~Overlap PROVE Spec => []NoLostUpdate
  <1>1. Inv => NoLostUpdate
    <2> SUFFICES ASSUME Inv, NEW r \in Runs, Locked(r), Attached(r)
                 PROVE  counter[shmid[r]]
                            = base[r] + done[<<r, "child">>] - done[<<r, "parent">>]
      BY DEF NoLostUpdate
    <2>1. P(r) \in att \/ C(r) \in att
      BY AttachedBy DEF Inv, TypeInv
    <2>2. Counting(r)
      BY DEF Inv, RunInv
    <2> QED
      BY <2>1, <2>2 DEF Counting, P, C
  <1> QED
    BY <1>1, Invariance, PTL

\* Without the lock at most the updates made are lost, whatever MAX_TRY is.
THEOREM BoundedLoss == ASSUME ~Overlap PROVE Spec => []LossBounded
  <1>1. Inv => LossBounded
    <2> SUFFICES ASSUME Inv, NEW r \in Runs, Attached(r)
                 PROVE  counter[shmid[r]] \in (base[r] - done[<<r, "parent">>])
                                                ..(base[r] + done[<<r, "child">>])
      BY DEF LossBounded
    <2>1. P(r) \in att \/ C(r) \in att
      BY AttachedBy DEF Inv, TypeInv
    <2>2. Counting(r)
      BY DEF Inv, RunInv
    <2> QED
      BY <2>1, <2>2 DEF Counting, P, C
  <1> QED
    BY <1>1, Invariance, PTL

\* What the kernel undoes at the end of a process is what the process holds.
THEOREM UndoExact == ASSUME ~Overlap PROVE Spec => []UndoIsHolding
  <1>1. Inv => UndoIsHolding
    <2> SUFFICES ASSUME Inv, NEW w \in Workers
                 PROVE  /\ InSection(w) => adj[Proc(w)] = 1 /\ semval = 0
                        /\ adj[w] # 0 => \E v \in Workers : Proc(v) = w /\ InSection(v)
      BY DEF UndoIsHolding
    <2>1. PICK r \in Runs, k \in Kinds : w = <<r, k>>
      BY DEF Workers, Kinds
    <2>2. Semaphore(r) /\ w \in {P(r), C(r)}
      BY <2>1, TwoWorkers DEF Inv, RunInv
    <2>3. InSection(w) => adj[Proc(w)] = 1 /\ semval = 0
      BY <2>1, <2>2 DEF Semaphore
    <2>4. ASSUME adj[w] # 0 PROVE \E v \in Workers : Proc(v) = w /\ InSection(v)
      <3>1. adj[w] = 1
        BY <2>1, <2>2, <2>4 DEF Semaphore
      <3> QED
        BY <2>1, <2>2, <3>1, TwoWorkers DEF Semaphore
    <2> QED
      BY <2>3, <2>4
  <1> QED
    BY <1>1, Invariance, PTL

\* IPC_RMID never takes a segment or a semaphore from a worker that uses it.
THEOREM NothingRemovedInUse == ASSUME ~Overlap PROVE Spec => []RemovedAfterUse
  <1>1. Inv => RemovedAfterUse
    <2> SUFFICES ASSUME Inv, NEW w \in Workers,
                        pc[w] \in {"lock", "load", "store", "unlock"}
                 PROVE  /\ shmid[w[1]] = shmKey
                        /\ Locked(w[1]) => Live(w[1])
      BY DEF RemovedAfterUse
    <2>1. PICK r \in Runs, k \in Kinds : w = <<r, k>>
      BY DEF Workers, Kinds
    <2>2. Stages(r) /\ Segment(r) /\ Semaphore(r) /\ TypeOK
      BY DEF Inv, TypeInv, RunInv
    <2>3. Working(P(r)) \/ Working(C(r))
      BY <2>1, TwoWorkers DEF Working
    <2>4. Active(r) /\ main[r] # "done"
      BY <2>2, <2>3, Acting DEF Stages
    <2>5. shmid[r] = shmKey
      BY <2>2, <2>4 DEF Segment
    <2>6. Locked(r) => Live(r)
      BY <2>2, <2>3, InLoop DEF Semaphore
    <2> QED
      BY <2>1, <2>5, <2>6
  <1> QED
    BY <1>1, Invariance, PTL

-------------------------------------------------------------------------------
\* A segment nobody created yet is zero.
Fresh ==
    /\ shmKey # NoId => main[shmKey] # "shmget"
    /\ \A r \in Runs : main[r] = "shmget" => counter[r] = 0

\* Only shmget creates segments and only workers of active runs write to them.
LEMMA FreshStep == Inv /\ Fresh /\ [Next]_vars => Fresh'
  <1> SUFFICES ASSUME Inv, Fresh, [Next]_vars PROVE Fresh'
    OBVIOUS
  <1>0. TypeInv /\ TypeOK
    BY DEF Inv, TypeInv
  <1>1. ASSUME NEW r \in Runs,
               main' = main \/ main' = [main EXCEPT ![r] = main'[r]],
               main'[r] = "shmget" => main[r] = "shmget",
               UNCHANGED counter,
               \/ shmKey' \in {shmKey, NoId}
               \/ shmKey' = r /\ main'[r] # "shmget"
        PROVE  Fresh'
    BY <1>0, <1>1, NoIdAssumption DEF Fresh, TypeOK
  <1>2. CASE Next
    <2>1. PICK r \in Runs :
             \/ ShmGet(r) \/ ShmAt(r) \/ SemGet(r) \/ SetVal(r) \/ Join(r)
             \/ ShmDt(r) \/ RmSem(r) \/ RmShm(r)
             \/ Fork(r)
             \/ CreateThread(r, "create0", "parent")
             \/ CreateThread(r, "create1", "child")
             \/ \E k \in Kinds : Lock(<<r, k>>) \/ Load(<<r, k>>)
                                    \/ Store(<<r, k>>) \/ Unlock(<<r, k>>)
             \/ /\ EndProcess(P(r), "killed")
                /\ main[r] \notin Ended
                /\ main' \in {[main EXCEPT ![r] = "failed"],
                              [main EXCEPT ![r] = "killed"]}
             \/ \E how \in {"done", "killed"} : EndProcess(C(r), how) /\ main' = main
      BY <1>0, <1>2, Steps
    <2>2. CASE \/ ShmGet(r) \/ ShmAt(r) \/ SemGet(r) \/ SetVal(r) \/ Join(r)
               \/ ShmDt(r) \/ RmSem(r) \/ RmShm(r)
               \/ Fork(r)
               \/ CreateThread(r, "create0", "parent")
               \/ CreateThread(r, "create1", "child")
      <3>1. Advance(r) /\ main[r] \notin Ended /\ UNCHANGED counter
        BY <2>2 DEF ShmGet, ShmAt, SemGet, SetVal, Join, ShmDt, RmSem, RmShm, Fork,
           CreateThread, shm, Ended
      <3>2. main'[r] # "shmget"
        BY <1>0, <3>1, Order DEF TypeInv, TypeOK, Ended
      <3>3. main' = [main EXCEPT ![r] = main'[r]]
        BY <1>0, <3>1 DEF Advance, TypeOK
      <3>4. shmKey' \in {shmKey, NoId, r}
        BY <2>2 DEF ShmGet, ShmAt, SemGet, SetVal, Join, ShmDt, RmSem, RmShm, Fork,
           CreateThread, shm
      <3> QED
        BY <1>1, <3>1, <3>2, <3>3, <3>4
    <2>3. ASSUME NEW k \in Kinds, Lock(<<r, k>>) \/ Load(<<r, k>>) \/ Unlock(<<r, k>>)
          PROVE  Fresh'
      BY <2>3 DEF Fresh, Lock, Load, Unlock, shm
    <2>4. ASSUME NEW k \in Kinds, Store(<<r, k>>) PROVE Fresh'
      <3>1. pc[<<r, k>>] = "store" /\ <<r, k>> \in {P(r), C(r)}
        BY <2>4, TwoWorkers DEF Store
      <3>2. Working(P(r)) \/ Working(C(r))
        BY <3>1 DEF Working
      <3>3. Stages(r) /\ Segment(r) /\ Active(r)
        BY <3>2, Acting DEF Inv, TypeInv, RunInv
      <3>4. shmid[r] = shmKey /\ shmid[r] \in Runs /\ main[shmid[r]] # "shmget"
        BY <3>2, <3>3, NoIdAssumption DEF Stages, Segment, Fresh
      <3>5. /\ UNCHANGED <<main, shmKey>>
            /\ \E x : counter' = [counter EXCEPT ![shmid[r]] = x]
        BY <2>4 DEF Store
      <3> QED
        BY <1>0, <3>4, <3>5 DEF Fresh, TypeOK
    <2>5. CASE /\ EndProcess(P(r), "killed")
               /\ main[r] \notin Ended
               /\ main' \in {[main EXCEPT ![r] = "failed"],
                             [main EXCEPT ![r] = "killed"]}
      BY <1>0, <1>1, <2>5 DEF EndProcess, TypeOK
    <2>6. CASE \E how \in {"done", "killed"} : EndProcess(C(r), how) /\ main' = main
      BY <2>6 DEF Fresh, EndProcess
    <2> QED
      BY <2>1, <2>2, <2>3, <2>4, <2>5, <2>6
  <1>3. CASE UNCHANGED vars
    BY <1>3 DEF Fresh, vars, shm
  <1> QED
    BY <1>2, <1>3

\* A worker has the segment, through its own process or its threads' one.
LEMMA AttachedInLoop ==
    ASSUME TypeOK, NEW r \in Runs, Stages(r), Segment(r), Working(P(r)) \/ Working(C(r))
    PROVE  P(r) \in att \/ C(r) \in att
  <1>1. CASE Working(C(r)) /\ Prog[r] # "thread"
    BY <1>1 DEF Segment
  <1>2. CASE Working(C(r)) /\ Prog[r] = "thread"
    <2>1. pc[C(r)] # "idle" /\ main[r] \notin Ended
      BY <1>2 DEF Stages, Working
    <2>2. main[r] \notin {"shmget", "shmat", "semget", "setval", "fork", "create0",
                         "shmdt", "rmsem", "rmshm"}
      BY <1>2, <2>1 DEF Stages
    <2> QED
      BY <2>1, <2>2 DEF Segment, TypeOK
  <1>3. CASE ~Working(C(r))
    BY <1>3, InLoop DEF Segment
  <1> QED
    BY <1>1, <1>2, <1>3

\* No two workers are inside their sections.
Alone == \A v, w \in Workers : InSection(v) /\ InSection(w) => v = w

\* The owner is the one worker inside its section.
LEMMA OwnerIs ==
    ASSUME Alone, Alone'
    PROVE  /\ \A w \in Workers : InSection(w) => Owner = w
           /\ (\A w \in Workers : ~InSection(w)) => Owner = NoId
           /\ \A w \in Workers : InSection(w)' => Owner' = w
           /\ (\A w \in Workers : ~InSection(w)') => Owner' = NoId
  BY DEF Owner, Alone

\* Every step of non-overlapping runs of the locking programs is a step of the
\* guarded counter or leaves it alone.
LEMMA StepMaps ==
    ASSUME ~Overlap, \A r \in Runs : Locked(r),
           Inv, Alone, Alone', Fresh, [Next]_vars
    PROVE  [AtomicCounter!Next]_<<Value, Owner>>
  <1>0. TypeInv /\ TypeOK
    BY DEF Inv, TypeInv
  <1>1. ASSUME \A w \in Workers : InSection(w)' <=> InSection(w)
        PROVE  Owner' = Owner
    BY <1>1, OwnerIs
  <1>2. CASE Next
    <2>1. PICK r \in Runs :
             \/ ShmGet(r) \/ ShmAt(r) \/ SemGet(r) \/ SetVal(r) \/ Join(r)
             \/ ShmDt(r) \/ RmSem(r) \/ RmShm(r)
             \/ Fork(r)
             \/ CreateThread(r, "create0", "parent")
             \/ CreateThread(r, "create1", "child")
             \/ \E k \in Kinds : Lock(<<r, k>>) \/ Load(<<r, k>>)
                                    \/ Store(<<r, k>>) \/ Unlock(<<r, k>>)
             \/ EndProcess(P(r), "killed")
             \/ \E how \in {"done", "killed"} : EndProcess(C(r), how)
      BY <1>0, <1>2, Steps
    <2>2. CASE \/ ShmGet(r) \/ ShmAt(r) \/ SemGet(r) \/ SetVal(r) \/ Join(r)
               \/ ShmDt(r) \/ RmSem(r)
      <3>1. UNCHANGED <<pc, counter>>
        BY <2>2 DEF ShmGet, ShmAt, SemGet, SetVal, Join, ShmDt, RmSem, work, shm
      <3>2. Owner' = Owner
        BY <1>1, <3>1 DEF InSection
      <3>3. Value' = Value
        <4>1. CASE ShmGet(r)
          <5>1. /\ shmKey' = IF shmKey = NoId THEN r ELSE shmKey
                /\ counter[r] = 0
            BY <4>1 DEF ShmGet, Fresh
          <5> QED
            BY <3>1, <5>1, NoIdAssumption DEF Value
        <4>2. CASE ~ShmGet(r)
          <5>1. shmKey' = shmKey
            BY <2>2, <4>2 DEF ShmAt, SemGet, SetVal, Join, ShmDt, RmSem, shm
          <5> QED
            BY <3>1, <5>1 DEF Value
        <4> QED
          BY <4>1, <4>2
      <3> QED
        BY <3>2, <3>3
    <2>3. CASE RmShm(r)
      <3>1. UNCHANGED <<pc, counter>> /\ main[r] = "rmshm" /\ shmKey' \in {shmKey, NoId}
        BY <2>3 DEF RmShm, work
      <3>2. Owner' = Owner
        BY <1>1, <3>1 DEF InSection
      <3>3. Value' \in {Value, 0}
        BY <3>1 DEF Value
      <3>4. Owner = NoId
        <4>1. ~Working(P(r)) /\ ~Working(C(r))
          BY <1>0, <3>1 DEF TypeInv, Stages
        <4>2. \A q \in Runs \ {r} : ~Active(q)
          BY <3>1, Acting DEF Ended
        <4>3. ASSUME NEW w \in Workers PROVE ~InSection(w)
          <5>1. PICK q \in Runs, k \in Kinds : w = <<q, k>>
            BY DEF Workers, Kinds
          <5>2. RunInv(q)
            BY DEF Inv
          <5>3. ~Working(P(q)) /\ ~Working(C(q))
            BY <1>0, <4>1, <4>2, <5>2, Quiet
          <5> QED
            BY <5>1, <5>3, TwoWorkers DEF InSection, Working
        <4> QED
          BY <4>3, OwnerIs
      <3> QED
        BY <3>2, <3>3, <3>4 DEF AtomicCounter!Next, AtomicCounter!Reset
    <2>4. CASE \/ Fork(r)
               \/ CreateThread(r, "create0", "parent")
               \/ CreateThread(r, "create1", "child")
      <3>1. /\ UNCHANGED <<counter, shmKey>>
            /\ \A w \in Workers : pc'[w] # pc[w] => pc'[w] = "lock" /\ pc[w] = "idle"
        <4>1. EnterLoop(r) = "lock" /\ <<r, "parent">> \in Workers
                                    /\ <<r, "child">> \in Workers
          BY DEF EnterLoop, Workers
        <4>2. Stages(r)
          BY <1>0 DEF TypeInv
        <4>3. CASE Fork(r)
          <5>1. pc[<<r, "parent">>] = "idle" /\ pc[<<r, "child">>] = "idle"
            BY <4>2, <4>3 DEF Fork, Stages, P, C
          <5>2. /\ pc' = [pc EXCEPT ![<<r, "parent">>] = "lock", ![<<r, "child">>] = "lock"]
                /\ UNCHANGED <<counter, shmKey>>
            BY <4>1, <4>3 DEF Fork
          <5> QED
            BY <1>0, <4>1, <5>1, <5>2 DEF TypeOK
        <4>4. CASE CreateThread(r, "create0", "parent")
          <5>1. pc[<<r, "parent">>] = "idle"
            BY <4>2, <4>4 DEF CreateThread, Stages, P, C
          <5>2. /\ pc' = [pc EXCEPT ![<<r, "parent">>] = "lock"]
                /\ UNCHANGED <<counter, shmKey>>
            BY <4>1, <4>4 DEF CreateThread, shm
          <5> QED
            BY <1>0, <4>1, <5>1, <5>2 DEF TypeOK
        <4>5. CASE CreateThread(r, "create1", "child")
          <5>1. pc[<<r, "child">>] = "idle"
            BY <4>2, <4>5 DEF CreateThread, Stages, P, C
          <5>2. /\ pc' = [pc EXCEPT ![<<r, "child">>] = "lock"]
                /\ UNCHANGED <<counter, shmKey>>
            BY <4>1, <4>5 DEF CreateThread, shm
          <5> QED
            BY <1>0, <4>1, <5>1, <5>2 DEF TypeOK
        <4> QED
          BY <2>4, <4>3, <4>4, <4>5
      <3>2. Owner' = Owner
        BY <1>1, <3>1 DEF InSection
      <3>3. Value' = Value
        BY <3>1 DEF Value
      <3> QED
        BY <3>2, <3>3
    <2>5. ASSUME NEW k \in Kinds,
                 Lock(<<r, k>>) \/ Load(<<r, k>>) \/ Store(<<r, k>>) \/ Unlock(<<r, k>>)
          PROVE  [AtomicCounter!Next]_<<Value, Owner>>
      <3> DEFINE w == <<r, k>>
      <3>1. w \in Workers /\ w \in {P(r), C(r)} /\ Locked(r)
        BY TwoWorkers
      <3>2. \A v \in Workers : v # w => (InSection(v)' <=> InSection(v))
        BY <1>0, <2>5, <3>1 DEF Lock, Load, Store, Unlock, InSection, TypeOK
      <3>3. CASE Lock(w)
        <4>1. Value' = Value
          BY <3>3 DEF Lock, shm, Value
        <4>2. InSection(w)'
          BY <1>0, <3>1, <3>3 DEF Lock, InSection, TypeOK, Locked
        <4>3. Owner' = w
          BY <3>1, <4>2, OwnerIs
        <4>4. ~InSection(w)
          BY <3>3 DEF Lock, InSection
        <4>5. \A v \in Workers : ~InSection(v)
          BY <3>1, <3>2, <4>2, <4>4 DEF Alone
        <4>6. Owner = NoId
          BY <4>5, OwnerIs
        <4> QED
          BY <3>1, <4>1, <4>3, <4>6 DEF AtomicCounter!Next, AtomicCounter!Acquire
      <3>4. CASE Load(w)
        <4>1. Value' = Value
          BY <3>4 DEF Load, shm, Value
        <4>2. InSection(w)' /\ InSection(w)
          BY <1>0, <3>1, <3>4 DEF Load, InSection, TypeOK, Locked
        <4>3. Owner' = Owner
          BY <3>1, <4>2, OwnerIs
        <4> QED
          BY <4>1, <4>3
      <3>5. CASE Store(w)
        <4>1. InSection(w)
          BY <3>1, <3>5 DEF Store, InSection, Locked
        <4>2. InSection(w)'
          <5>1. LeaveLoop(w) = "unlock"
            BY <3>1 DEF LeaveLoop, Locked
          <5> QED
            BY <1>0, <3>1, <3>5, <5>1 DEF Store, InSection, TypeOK, Locked
        <4>3. Owner = w /\ Owner' = w
          BY <3>1, <4>1, <4>2, OwnerIs
        <4>4. /\ pc[w] = "store"
              /\ counter' = [counter EXCEPT ![shmid[r]] = reg[w] + Delta(w)]
              /\ shmKey' = shmKey
          BY <3>5 DEF Store
        <4>5. Working(P(r)) \/ Working(C(r))
          BY <3>1, <4>4 DEF Working
        <4>6. /\ Stages(r) /\ Segment(r) /\ Counting(r) /\ Active(r)
          BY <4>5, Acting DEF Inv, TypeInv, RunInv
        <4>7. shmid[r] = shmKey /\ shmKey \in Runs
          BY <4>5, <4>6 DEF Stages, Segment
        <4>8. P(r) \in att \/ C(r) \in att
          BY <1>0, <4>5, <4>6, AttachedInLoop
        <4>9. reg[w] = counter[shmKey]
          BY <3>1, <4>4, <4>6, <4>7, <4>8 DEF Counting
        <4>10. Value' = Value + Delta(w)
          BY <1>0, <4>4, <4>7, <4>9, NoIdAssumption DEF Value, TypeOK
        <4> QED
          BY <3>1, <4>3, <4>10 DEF AtomicCounter!Next, AtomicCounter!Update, Amounts
      <3>6. CASE Unlock(w)
        <4>1. Value' = Value
          BY <3>6 DEF Unlock, shm, Value
        <4>2. InSection(w)
          BY <3>1, <3>6 DEF Unlock, InSection, Locked
        <4>3. ~InSection(w)'
          BY <1>0, <3>1, <3>6 DEF Unlock, InSection, TypeOK, Return
        <4>4. \A v \in Workers : ~InSection(v)'
          BY <3>1, <3>2, <4>2, <4>3 DEF Alone
        <4>5. Owner' = NoId
          BY <4>4, OwnerIs
        <4> QED
          BY <4>1, <4>5 DEF AtomicCounter!Next, AtomicCounter!Release
      <3> QED
        BY <2>5, <3>3, <3>4, <3>5, <3>6
    <2>6. ASSUME NEW p, NEW how \in {"done", "killed"}, EndProcess(p, how)
          PROVE  [AtomicCounter!Next]_<<Value, Owner>>
      <3>1. Value' = Value
        BY <2>6 DEF EndProcess, Value
      <3>2. \A w \in Workers : InSection(w)' => InSection(w)
        BY <2>6 DEF EndProcess, InSection
      <3>3. CASE \E w \in Workers : InSection(w)'
        <4>1. Owner' = Owner
          BY <3>2, <3>3, OwnerIs
        <4> QED
          BY <3>1, <4>1
      <3>4. CASE \A w \in Workers : ~InSection(w)'
        <4>1. Owner' = NoId
          BY <3>4, OwnerIs
        <4> QED
          BY <3>1, <4>1 DEF AtomicCounter!Next, AtomicCounter!Release
      <3> QED
        BY <3>3, <3>4
    <2> QED
      BY <2>1, <2>2, <2>3, <2>4, <2>5, <2>6
  <1>3. CASE UNCHANGED vars
    <2>1. UNCHANGED <<pc, counter, shmKey>>
      BY <1>3 DEF vars, work, shm
    <2> QED
      BY <1>1, <2>1 DEF Value, InSection
  <1> QED
    BY <1>2, <1>3

\* The two locking programs implement the guarded counter: the section between
\* the semop calls makes every info->counter++ and info->counter-- atomic.
THEOREM Implementation ==
    ASSUME ~Overlap, \A r \in Runs : Locked(r)
    PROVE  Spec => ImplementsGuardedCounter
  <1>1. Init => AtomicCounter!Init /\ Fresh
    BY NoIdAssumption DEF Init, AtomicCounter!Init, Value, Owner, InSection, Fresh
  <1>2. Inv => Alone
    BY OneInSection DEF Alone
  <1>3. Inv /\ Alone /\ Alone' /\ Fresh /\ [Next]_vars
            => [AtomicCounter!Next]_<<Value, Owner>>
    BY StepMaps
  <1> QED
    BY <1>1, <1>2, <1>3, FreshStep, Invariance, PTL
    DEF Spec, ImplementsGuardedCounter, AtomicCounter!Spec

-------------------------------------------------------------------------------
(***************************************************************************)
(* Runs that overlap.  What SETVAL puts into a semaphore is never lost:    *)
(* the value and the adjustments of all processes together stay 1 or more. *)
(* A sum over the processes is counted in units, the positive ones less    *)
(* the negative ones.                                                      *)
(***************************************************************************)
Units(f)    == {u \in Workers \X (Nat \ {0}) : u[2] <= f[u[1]]}
Opposite(f) == [p \in Workers |-> -f[p]]
Countable(f) == IsFiniteSet(Units(f)) /\ IsFiniteSet(Units(Opposite(f)))
Total(f)    == Cardinality(Units(f)) - Cardinality(Units(Opposite(f)))

\* The units of one process.
Column(p, n) == {p} \X (1..n)

LEMMA ColumnSize ==
    ASSUME NEW p, NEW n \in Int
    PROVE  /\ IsFiniteSet(Column(p, n))
           /\ Cardinality(Column(p, n)) = IF n > 0 THEN n ELSE 0
  <1>1. IsFiniteSet(1..n) /\ Cardinality(1..n) = IF n > 0 THEN n ELSE 0
    BY FS_Interval
  <1>2. IsFiniteSet({p}) /\ Cardinality({p}) = 1
    BY FS_Singleton
  <1> QED
    BY <1>1, <1>2, FS_Product DEF Column

\* One process's units change and the other ones' stay.
LEMMA UnitsChange ==
    ASSUME NEW f \in [Workers -> Int], NEW p \in Workers, NEW n \in Int,
           IsFiniteSet(Units(f))
    PROVE  /\ IsFiniteSet(Units([f EXCEPT ![p] = n]))
           /\ Cardinality(Units([f EXCEPT ![p] = n])) =
                Cardinality(Units(f)) - (IF f[p] > 0 THEN f[p] ELSE 0)
                                      + (IF n > 0 THEN n ELSE 0)
  <1> DEFINE g == [f EXCEPT ![p] = n]
             rest == {u \in Units(f) : u[1] # p}
  <1>1. /\ IsFiniteSet(rest) /\ Cardinality(rest) \in Nat
        /\ IsFiniteSet(Column(p, f[p])) /\ IsFiniteSet(Column(p, n))
        /\ Cardinality(Column(p, f[p])) = IF f[p] > 0 THEN f[p] ELSE 0
        /\ Cardinality(Column(p, n)) = IF n > 0 THEN n ELSE 0
    BY FS_Subset, FS_CardinalityType, ColumnSize
  <1>2. Units(f) = rest \union Column(p, f[p]) /\ rest \intersect Column(p, f[p]) = {}
    BY DEF Units, Column
  <1>3. Units(g) = rest \union Column(p, n) /\ rest \intersect Column(p, n) = {}
    BY DEF Units, Column
  <1>4. Cardinality({}) = 0
    BY FS_EmptySet
  <1>5. Cardinality(Units(f)) = Cardinality(rest) + Cardinality(Column(p, f[p])) - 0
    <2> HIDE DEF rest
    <2> QED
      BY <1>1, <1>2, <1>4, FS_Union
  <1>6. /\ IsFiniteSet(Units(g))
        /\ Cardinality(Units(g)) = Cardinality(rest) + Cardinality(Column(p, n)) - 0
    <2> HIDE DEF rest, g
    <2>1. /\ IsFiniteSet(rest \union Column(p, n))
          /\ Cardinality(rest \union Column(p, n)) =
                Cardinality(rest) + Cardinality(Column(p, n)) - 0
      BY <1>1, <1>3, <1>4, FS_Union
    <2> QED
      BY <1>3, <2>1
  <1> QED
    BY <1>1, <1>5, <1>6

\* The sum follows the adjustment of one process.
LEMMA TotalChange ==
    ASSUME NEW f \in [Workers -> Int], NEW p \in Workers, NEW n \in Int,
           Countable(f)
    PROVE  /\ Countable([f EXCEPT ![p] = n])
           /\ Total([f EXCEPT ![p] = n]) = Total(f) - f[p] + n
           /\ Total(f) \in Int
  <1>1. Opposite(f) \in [Workers -> Int] /\ Opposite(f)[p] = -f[p]
    BY DEF Opposite
  <1>2. Opposite([f EXCEPT ![p] = n]) = [Opposite(f) EXCEPT ![p] = -n]
    BY DEF Opposite
  <1>3. /\ IsFiniteSet(Units(f)) /\ IsFiniteSet(Units(Opposite(f)))
        /\ Cardinality(Units(f)) \in Nat /\ Cardinality(Units(Opposite(f))) \in Nat
    BY FS_CardinalityType DEF Countable
  <1>4. /\ IsFiniteSet(Units([f EXCEPT ![p] = n]))
        /\ Cardinality(Units([f EXCEPT ![p] = n])) =
                Cardinality(Units(f)) - (IF f[p] > 0 THEN f[p] ELSE 0)
                                      + (IF n > 0 THEN n ELSE 0)
    BY <1>3, UnitsChange
  <1>5. /\ IsFiniteSet(Units([Opposite(f) EXCEPT ![p] = -n]))
        /\ Cardinality(Units([Opposite(f) EXCEPT ![p] = -n])) =
                Cardinality(Units(Opposite(f))) - (IF -f[p] > 0 THEN -f[p] ELSE 0)
                                      + (IF -n > 0 THEN -n ELSE 0)
    <2> DEFINE o == Opposite(f)
    <2>1. o \in [Workers -> Int] /\ o[p] = -f[p] /\ -n \in Int /\ IsFiniteSet(Units(o))
      BY <1>1, <1>3
    <2> HIDE DEF o
    <2>2. /\ IsFiniteSet(Units([o EXCEPT ![p] = -n]))
          /\ Cardinality(Units([o EXCEPT ![p] = -n])) =
                Cardinality(Units(o)) - (IF o[p] > 0 THEN o[p] ELSE 0)
                                      + (IF -n > 0 THEN -n ELSE 0)
      BY <2>1, UnitsChange
    <2> QED
      BY <2>1, <2>2 DEF o
  <1>6. f[p] \in Int
    OBVIOUS
  <1> QED
    BY <1>2, <1>3, <1>4, <1>5, <1>6 DEF Countable, Total

\* Nobody has anything to give back after SETVAL and IPC_RMID.
LEMMA TotalZero ==
    /\ Countable([p \in Workers |-> 0])
    /\ Total([p \in Workers |-> 0]) = 0
  <1> DEFINE z == [p \in Workers |-> 0]
  <1>1. Units(z) = {} /\ Units(Opposite(z)) = {}
    BY DEF Units, Opposite
  <1> QED
    BY <1>1, FS_EmptySet DEF Countable, Total

\* Somebody has something to give back when the sum is positive.
LEMMA TotalPositive ==
    ASSUME NEW f \in [Workers -> Int], Countable(f), Total(f) > 0
    PROVE  \E p \in Workers : f[p] > 0
  <1>1. Cardinality(Units(f)) \in Nat /\ Cardinality(Units(Opposite(f))) \in Nat
    BY FS_CardinalityType DEF Countable
  <1>2. Cardinality(Units(f)) # 0
    BY <1>1 DEF Total
  <1>3. PICK u \in Units(f) : TRUE
    BY <1>2, FS_EmptySet
  <1> QED
    BY <1>3 DEF Units

-------------------------------------------------------------------------------
\* A run that is past its SETVAL and before its IPC_RMID.
Begun(r) == \/ main[r] \in {"fork", "create0", "create1", "work"}
            \/ Working(P(r)) \/ Working(C(r))

\* Before a run calls semget it has no semaphore, and none is named after it:
\* whoever is Live has been so since its own semget.
Unborn(x) ==
    main[x] \in {"shmget", "shmat", "semget"} =>
        /\ semid[x] = NoId /\ semKey # x
        /\ \A r \in Runs : semid[r] # x

\* The value and all adjustments together, from the first SETVAL on.
Filled == (\E r \in Runs : Live(r) /\ Begun(r)) => semval + Total(adj) >= 1

WaitInv == TypeInv /\ (\A x \in Runs : Unborn(x)) /\ Countable(adj) /\ Filled

LEMMA UnbornKept ==
    ASSUME WaitInv, Next, TypeInv', NEW x \in Runs
    PROVE  Unborn(x)'
  <1>0. TypeOK /\ Unborn(x) /\ NoId \notin Runs
    BY NoIdAssumption DEF WaitInv, TypeInv
  <1>1. ASSUME NEW r \in Runs, SemGet(r) PROVE Unborn(x)'
    <2>1. main' = [main EXCEPT ![r] = "setval"] /\ semKey \in Runs \union {NoId}
      BY <1>0, <1>1, Order DEF SemGet, WaitInv, TypeInv, TypeOK, Ended
    <2>2. CASE x = r
      BY <1>0, <2>1, <2>2 DEF Unborn, TypeOK
    <2>3. CASE x # r
      BY <1>0, <1>1, <2>1, <2>3 DEF Unborn, TypeOK, SemGet
    <2> QED
      BY <2>2, <2>3
  <1>2. ASSUME NEW r \in Runs, RmSem(r) PROVE Unborn(x)'
    <2>1. main' = [main EXCEPT ![r] = "rmshm"]
      BY <1>0, <1>2, Order DEF RmSem, WaitInv, TypeInv, TypeOK, Ended
    <2> QED
      BY <1>0, <1>2, <2>1 DEF Unborn, TypeOK, RmSem
  <1>3. ASSUME UNCHANGED <<semKey, semid>>,
               main'[x] \in {"shmget", "shmat", "semget"} =>
                   main[x] \in {"shmget", "shmat", "semget"}
        PROVE  Unborn(x)'
    BY <1>0, <1>3 DEF Unborn
  <1>4. ASSUME NEW r \in Runs,
               \/ ShmGet(r) \/ ShmAt(r) \/ SetVal(r) \/ Join(r) \/ ShmDt(r) \/ RmShm(r)
               \/ Fork(r)
               \/ CreateThread(r, "create0", "parent")
               \/ CreateThread(r, "create1", "child")
        PROVE  Unborn(x)'
    <2>1. /\ main[r] \notin Ended
          /\ Advance(r) /\ Stages(r) /\ UNCHANGED <<semKey, semid>>
      BY <1>4 DEF ShmGet, ShmAt, SetVal, Join, ShmDt, RmShm, Fork, CreateThread, sem,
         Ended, WaitInv, TypeInv
    <2>2. main'[x] \in {"shmget", "shmat", "semget"} =>
              main[x] \in {"shmget", "shmat", "semget"}
      <3>1. CASE x # r
        BY <1>0, <2>1, <3>1 DEF Advance, TypeOK
      <3>2. CASE x = r /\ main[r] \in {"setval", "fork", "create0", "create1", "work",
                                       "shmdt", "rmshm"}
        BY <1>0, <2>1, <3>2, Order DEF TypeOK
      <3>3. CASE x = r /\ main[r] \in {"shmget", "shmat", "semget"}
        BY <3>3
      <3> QED
        BY <1>4, <3>1, <3>2, <3>3 DEF ShmGet, ShmAt, SetVal, Join, ShmDt, RmShm, Fork,
           CreateThread
    <2> QED
      BY <1>3, <2>1, <2>2
  <1>5. ASSUME NEW r \in Runs, NEW k \in Kinds,
               \/ Lock(<<r, k>>) \/ Load(<<r, k>>) \/ Store(<<r, k>>) \/ Unlock(<<r, k>>)
        PROVE  Unborn(x)'
    BY <1>3, <1>5 DEF Lock, Load, Store, Unlock, sem
  <1>6. ASSUME NEW r \in Runs, NEW p, NEW how, EndProcess(p, how),
               main' \in {main, [main EXCEPT ![r] = "failed"], [main EXCEPT ![r] = "killed"]}
        PROVE  Unborn(x)'
    BY <1>0, <1>3, <1>6 DEF EndProcess, TypeOK
  <1>7. PICK r \in Runs :
             \/ ShmGet(r) \/ ShmAt(r) \/ SemGet(r) \/ SetVal(r) \/ Join(r)
             \/ ShmDt(r) \/ RmSem(r) \/ RmShm(r)
             \/ Fork(r)
             \/ CreateThread(r, "create0", "parent")
             \/ CreateThread(r, "create1", "child")
             \/ \E k \in Kinds : Lock(<<r, k>>) \/ Load(<<r, k>>)
                                    \/ Store(<<r, k>>) \/ Unlock(<<r, k>>)
             \/ /\ EndProcess(P(r), "killed")
                /\ main' \in {[main EXCEPT ![r] = "failed"],
                              [main EXCEPT ![r] = "killed"]}
             \/ /\ \E how \in {"done", "killed"} : EndProcess(C(r), how)
                /\ main' = main
    BY Steps DEF WaitInv
  <1> QED
    BY <1>1, <1>2, <1>4, <1>5, <1>6, <1>7

\* The steps that leave the semaphore alone.
LEMMA FilledKept ==
    ASSUME WaitInv, NEW r \in Runs,
           \/ ShmGet(r) \/ ShmAt(r) \/ Join(r) \/ ShmDt(r) \/ RmShm(r) \/ Fork(r)
           \/ CreateThread(r, "create0", "parent")
           \/ CreateThread(r, "create1", "child")
           \/ \E k \in Kinds : Load(<<r, k>>) \/ Store(<<r, k>>)
    PROVE  Countable(adj)' /\ Filled'
  <1>1. /\ UNCHANGED <<semKey, semid, semval, adj>>
        /\ \A q \in Runs \ {r} : main'[q] = main[q] /\ pc'[P(q)] = pc[P(q)]
                                                   /\ pc'[C(q)] = pc[C(q)]
    <2>0. TypeOK
      BY DEF WaitInv, TypeInv
    <2>1. CASE ShmGet(r) \/ ShmAt(r) \/ Join(r) \/ ShmDt(r) \/ RmShm(r)
      BY <2>0, <2>1 DEF TypeOK, ShmGet, ShmAt, Join, ShmDt, RmShm, sem, work, Advance
    <2>2. CASE Fork(r)
      BY <2>0, <2>2 DEF TypeOK, Fork, sem, Advance, P, C, Workers
    <2>3. CASE CreateThread(r, "create0", "parent") \/ CreateThread(r, "create1", "child")
      BY <2>0, <2>3 DEF TypeOK, CreateThread, sem, Advance, P, C, Workers
    <2>4. CASE \E k \in Kinds : Load(<<r, k>>) \/ Store(<<r, k>>)
      BY <2>0, <2>4 DEF TypeOK, Load, Store, sem, P, C, Workers, Kinds
    <2> QED
      BY <2>1, <2>2, <2>3, <2>4
  <1>2. Countable(adj)'
    BY <1>1 DEF WaitInv, Countable, Units, Opposite
  <1>3. ASSUME Live(r), Begun(r)' PROVE Begun(r)
    <2>0. TypeOK /\ Stages(r) /\ Unborn(r)
      BY DEF WaitInv, TypeInv
    <2>1. CASE ShmGet(r) \/ ShmAt(r)
      <3>1. ~Live(r)
        BY <2>0, <2>1 DEF Unborn, Live, ShmGet, ShmAt
      <3> QED
        BY <1>3, <3>1
    <2>2. CASE ShmDt(r) \/ RmShm(r)
      <3>1. /\ main'[r] \in {"rmsem", "rmshm", "done"} /\ pc' = pc
            /\ ~Working(P(r)) /\ ~Working(C(r))
        BY <2>0, <2>2, Order DEF Stages, ShmDt, RmShm, work, TypeOK, Ended
      <3> QED
        BY <1>3, <3>1 DEF Begun, Working
    <2>3. CASE Join(r) \/ Fork(r)
      BY <2>3 DEF Join, Fork, Begun
    <2>4. CASE CreateThread(r, "create0", "parent") \/ CreateThread(r, "create1", "child")
      BY <2>4 DEF CreateThread, Begun
    <2>5. CASE \E k \in Kinds : Load(<<r, k>>) \/ Store(<<r, k>>)
      BY <2>5 DEF Load, Store, Begun, Working, P, C, Kinds
    <2> QED
      BY <2>1, <2>2, <2>3, <2>4, <2>5
  <1>4. ASSUME NEW q \in Runs, Live(q)', Begun(q)' PROVE Live(q) /\ Begun(q)
    <2>1. Live(q)
      BY <1>1, <1>4 DEF Live
    <2>2. CASE q # r
      BY <1>1, <1>4, <2>1, <2>2 DEF Begun, Working
    <2> QED
      BY <1>3, <1>4, <2>1, <2>2
  <1>5. Total(adj)' = Total(adj)
    BY <1>1 DEF Total, Units, Opposite
  <1>6. Filled'
    BY <1>1, <1>4, <1>5 DEF Filled, WaitInv
  <1> QED
    BY <1>2, <1>6

\* The calls of main() on the semaphore.
LEMMA SemGetFills == ASSUME WaitInv, NEW r \in Runs, SemGet(r) PROVE Countable(adj)' /\ Filled'
  <1>0. TypeOK /\ Stages(r) /\ (\A q \in Runs : Unborn(q))
    BY DEF WaitInv, TypeInv
  <1>1. main' = [main EXCEPT ![r] = "setval"] /\ pc' = pc
    BY <1>0, Order DEF SemGet, work, TypeOK, Ended
  <1>2. ~Begun(r)'
    BY <1>0, <1>1 DEF Stages, SemGet, Begun, Working, TypeOK
  <1>3. \A q \in Runs \ {r} : main'[q] = main[q] /\ semid'[q] = semid[q]
    BY <1>0, <1>1 DEF SemGet, TypeOK
  <1>4. CASE semKey = NoId
    <2>1. semKey' = r /\ \A q \in Runs \ {r} : semid'[q] # r
      BY <1>0, <1>3, <1>4 DEF SemGet, Unborn
    <2>2. \A q \in Runs : ~(Live(q)' /\ Begun(q)')
      BY <1>2, <2>1 DEF Live
    <2> QED
      BY <2>2 DEF Filled, SemGet, WaitInv, Countable, Units, Opposite
  <1>5. CASE semKey # NoId
    <2>1. semKey' = semKey /\ semval' = semval /\ adj' = adj
      BY <1>5 DEF SemGet
    <2>2. \A q \in Runs : Live(q)' /\ Begun(q)' => Live(q) /\ Begun(q)
      BY <1>1, <1>2, <1>3, <2>1 DEF Live, Begun, Working
    <2>3. Total(adj)' = Total(adj) /\ Countable(adj)'
      BY <2>1 DEF Total, Countable, Units, Opposite, WaitInv
    <2> QED
      BY <2>1, <2>2, <2>3 DEF Filled, WaitInv
  <1> QED
    BY <1>4, <1>5

LEMMA SetValFills == ASSUME WaitInv, NEW r \in Runs, SetVal(r) PROVE Countable(adj)' /\ Filled'
  <1>1. CASE Live(r)
    <2>1. semval' = 1 /\ adj' = [p \in Workers |-> 0]
      BY <1>1 DEF SetVal
    <2>2. Countable(adj') /\ Total(adj') = 0
      BY <2>1, TotalZero
    <2>3. Countable(adj)' /\ Total(adj)' = 0
      BY <2>2 DEF Countable, Total, Units, Opposite
    <2> QED
      BY <2>1, <2>3 DEF Filled
  <1>2. CASE ~Live(r)
    <2>1. UNCHANGED <<semKey, semid, semval, adj, pc>> /\ ~Live(r)'
      BY <1>2 DEF SetVal, Live, work
    <2>2. \A q \in Runs \ {r} : main'[q] = main[q]
      BY DEF SetVal, Advance, WaitInv, TypeInv, TypeOK
    <2>3. \A q \in Runs : Live(q)' /\ Begun(q)' => Live(q) /\ Begun(q)
      BY <2>1, <2>2 DEF Live, Begun, Working
    <2>4. Total(adj)' = Total(adj) /\ Countable(adj)'
      BY <2>1 DEF Total, Countable, Units, Opposite, WaitInv
    <2> QED
      BY <2>1, <2>3, <2>4 DEF Filled, WaitInv
  <1> QED
    BY <1>1, <1>2

LEMMA RmSemFills == ASSUME WaitInv, NEW r \in Runs, RmSem(r) PROVE Countable(adj)' /\ Filled'
  <1>0. TypeOK /\ Stages(r)
    BY DEF WaitInv, TypeInv
  <1>1. CASE Live(r)
    <2>1. semKey' = NoId /\ adj' = [p \in Workers |-> 0]
      BY <1>1 DEF RmSem
    <2>2. Countable(adj)'
      <3>1. Countable(adj')
        BY <2>1, TotalZero
      <3> QED
        BY <3>1 DEF Countable, Units, Opposite
    <2> QED
      BY <2>1, <2>2 DEF Filled, Live
  <1>2. CASE ~Live(r)
    <2>1. UNCHANGED <<semKey, semid, semval, adj, pc>> /\ ~Live(r)'
      BY <1>2 DEF RmSem, Live, work
    <2>2. \A q \in Runs \ {r} : main'[q] = main[q]
      BY DEF RmSem, Advance, WaitInv, TypeInv, TypeOK
    <2>3. \A q \in Runs : Live(q)' /\ Begun(q)' => Live(q) /\ Begun(q)
      BY <2>1, <2>2 DEF Live, Begun, Working
    <2>4. Total(adj)' = Total(adj) /\ Countable(adj)'
      BY <2>1 DEF Total, Countable, Units, Opposite, WaitInv
    <2> QED
      BY <2>1, <2>3, <2>4 DEF Filled, WaitInv
  <1> QED
    BY <1>1, <1>2

\* Primes inside the sum.
LEMMA SumNext ==
    /\ Countable(adj)' <=> Countable(adj')
    /\ Total(adj)' = Total(adj')
  BY DEF Countable, Total, Units, Opposite

\* A semop moves a unit between the value and the adjustment.
LEMMA SemopFills ==
    ASSUME WaitInv, NEW r \in Runs, NEW k \in Kinds, Lock(<<r, k>>) \/ Unlock(<<r, k>>)
    PROVE  Countable(adj)' /\ Filled'
  <1> DEFINE w == <<r, k>>
             p == Proc(w)
  <1>0. TypeOK /\ w \in Workers /\ p \in Workers /\ Countable(adj) /\ w[1] = r
    BY DEF WaitInv, TypeInv, Proc, Workers, Kinds
  <1>1. /\ UNCHANGED <<main, semKey, semid>>
        /\ Begun(r)
        /\ \A q \in Runs \ {r} : pc'[P(q)] = pc[P(q)] /\ pc'[C(q)] = pc[C(q)]
    BY <1>0 DEF Lock, Unlock, Begun, Working, TypeOK, P, C, Workers, Kinds
  <1>2. ASSUME NEW q \in Runs, Live(q)', Begun(q)' PROVE Live(q) /\ Begun(q)
    BY <1>1, <1>2 DEF Live, Begun, Working
  <1>3. CASE ~Live(r)
    <2>1. UNCHANGED <<semval, adj>>
      BY <1>0, <1>3 DEF Lock, Unlock
    <2> QED
      BY <1>2, <2>1, SumNext DEF Filled, WaitInv
  <1>4. CASE Live(r)
    <2>1. PICK d \in {-1, 1} : semval' = semval - d /\ adj' = [adj EXCEPT ![p] = @ + d]
      <3>1. CASE Lock(w)
        BY <1>0, <1>4, <3>1 DEF Lock, TypeOK
      <3>2. CASE Unlock(w)
        <4>1. semval' = semval - (-1) /\ adj' = [adj EXCEPT ![p] = @ + (-1)]
          <5>1. semval' = semval + 1 /\ adj' = [adj EXCEPT ![p] = adj[p] - 1]
            BY <1>0, <1>4, <3>2 DEF Unlock
          <5>2. semval + 1 = semval - (-1) /\ adj[p] - 1 = adj[p] + (-1)
            BY <1>0 DEF TypeOK
          <5> QED
            BY <5>1, <5>2
        <4> QED
          BY <4>1
      <3> QED
        BY <3>1, <3>2
    <2>2. adj[p] \in Int /\ adj \in [Workers -> Int] /\ adj[p] + d \in Int /\ semval \in Int
      BY <1>0 DEF TypeOK
    <2>3. /\ Countable([adj EXCEPT ![p] = adj[p] + d])
          /\ Total([adj EXCEPT ![p] = adj[p] + d]) = Total(adj) - adj[p] + (adj[p] + d)
          /\ Total(adj) \in Int
      <3> HIDE DEF p
      <3> QED  BY <1>0, <2>2, TotalChange
    <2>4. semval + Total(adj) >= 1
      BY <1>0, <1>1, <1>4 DEF Filled, WaitInv
    <2>5. adj' = [adj EXCEPT ![p] = adj[p] + d]
      BY <2>1
    <2>6. Total(adj') = Total(adj) + d /\ Countable(adj')
      BY <2>2, <2>3, <2>5
    <2> QED
      BY <2>1, <2>2, <2>3, <2>4, <2>6, SumNext DEF Filled
  <1> QED
    BY <1>3, <1>4

\* The kernel gives a dead process's adjustment back, and never less.
LEMMA EndFills ==
    ASSUME WaitInv, NEW r \in Runs, NEW p \in Workers, NEW how \in {"done", "killed"},
           EndProcess(p, how),
           main' \in {main, [main EXCEPT ![r] = "failed"], [main EXCEPT ![r] = "killed"]}
    PROVE  Countable(adj)' /\ Filled'
  <1>0. TypeOK /\ Countable(adj)
    BY DEF WaitInv, TypeInv
  <1>1. adj[p] \in Int /\ semval \in Nat /\ adj \in [Workers -> Int]
    BY <1>0 DEF TypeOK
  <1>2. /\ Countable([adj EXCEPT ![p] = 0])
        /\ Total([adj EXCEPT ![p] = 0]) = Total(adj) - adj[p] + 0
        /\ Total(adj) \in Int
    <2>1. \A n \in Int : /\ Countable([adj EXCEPT ![p] = n])
                         /\ Total([adj EXCEPT ![p] = n]) = Total(adj) - adj[p] + n
                         /\ Total(adj) \in Int
      BY <1>0, <1>1, TotalChange
    <2> QED
      BY <2>1
  <1>3. /\ adj' = [adj EXCEPT ![p] = 0]
        /\ semval' >= semval + adj[p] /\ semval' \in Int
        /\ UNCHANGED <<semKey, semid>>
    BY <1>1 DEF EndProcess
  <1>4. ASSUME NEW q \in Runs, Live(q)', Begun(q)' PROVE Live(q) /\ Begun(q)
    <2>1. \A v \in Workers : Working(v)' => Working(v)
      BY <1>0 DEF EndProcess, Working, TypeOK
    <2>2. main'[q] \in {main[q], "failed", "killed"}
      BY <1>0 DEF TypeOK
    <2>3. P(q) \in Workers /\ C(q) \in Workers
      BY DEF P, C, Workers
    <2> QED
      BY <1>3, <1>4, <2>1, <2>2, <2>3 DEF Live, Begun
  <1> QED
    BY <1>1, <1>2, <1>3, <1>4, SumNext DEF Filled, WaitInv

LEMMA WaitInvStart == Init => WaitInv
  <1> SUFFICES ASSUME Init PROVE WaitInv
    OBVIOUS
  <1>1. \A x \in Runs : Unborn(x)
    BY NoIdAssumption DEF Init, Unborn
  <1>2. Countable(adj)
    BY TotalZero DEF Init
  <1>3. Filled
    BY DEF Init, Filled, Live
  <1> QED
    BY <1>1, <1>2, <1>3, TypeStart DEF WaitInv

LEMMA WaitInvStep == WaitInv /\ [Next]_vars => WaitInv'
  <1> SUFFICES ASSUME WaitInv, [Next]_vars PROVE WaitInv'
    OBVIOUS
  <1>0. TypeInv /\ TypeInv'
    BY TypeStep DEF WaitInv
  <1>1. CASE Next
    <2>1. \A x \in Runs : Unborn(x)'
      BY <1>0, <1>1, UnbornKept
    <2>2. Countable(adj)' /\ Filled'
      <3>1. PICK r \in Runs :
             \/ ShmGet(r) \/ ShmAt(r) \/ SemGet(r) \/ SetVal(r) \/ Join(r)
             \/ ShmDt(r) \/ RmSem(r) \/ RmShm(r)
             \/ Fork(r)
             \/ CreateThread(r, "create0", "parent")
             \/ CreateThread(r, "create1", "child")
             \/ \E k \in Kinds : Lock(<<r, k>>) \/ Load(<<r, k>>)
                                    \/ Store(<<r, k>>) \/ Unlock(<<r, k>>)
             \/ /\ EndProcess(P(r), "killed")
                /\ main' \in {[main EXCEPT ![r] = "failed"],
                              [main EXCEPT ![r] = "killed"]}
             \/ /\ \E how \in {"done", "killed"} : EndProcess(C(r), how)
                /\ main' = main
        BY <1>0, <1>1, Steps
      <3>2. P(r) \in Workers /\ C(r) \in Workers
        BY DEF P, C, Workers
      <3>3. CASE SemGet(r) \/ SetVal(r) \/ RmSem(r)
        BY <3>3, SemGetFills, SetValFills, RmSemFills
      <3>4. CASE \E k \in Kinds : Lock(<<r, k>>) \/ Unlock(<<r, k>>)
        BY <3>4, SemopFills
      <3>5. CASE /\ EndProcess(P(r), "killed")
                 /\ main' \in {[main EXCEPT ![r] = "failed"],
                               [main EXCEPT ![r] = "killed"]}
        BY <3>2, <3>5, EndFills
      <3>6. CASE /\ \E how \in {"done", "killed"} : EndProcess(C(r), how)
                 /\ main' = main
        BY <3>2, <3>6, EndFills
      <3>7. CASE \/ ShmGet(r) \/ ShmAt(r) \/ Join(r) \/ ShmDt(r) \/ RmShm(r) \/ Fork(r)
                 \/ CreateThread(r, "create0", "parent")
                 \/ CreateThread(r, "create1", "child")
                 \/ \E k \in Kinds : Load(<<r, k>>) \/ Store(<<r, k>>)
        BY <3>7, FilledKept
      <3> QED
        BY <3>1, <3>3, <3>4, <3>5, <3>6, <3>7
    <2> QED
      BY <1>0, <2>1, <2>2 DEF WaitInv
  <1>2. CASE UNCHANGED vars
    <2>1. UNCHANGED <<main, pc, semKey, semid, semval, adj>>
      BY <1>2 DEF vars, work, sem
    <2>2. (\A x \in Runs : Unborn(x)') /\ Countable(adj)' /\ Total(adj)' = Total(adj)
      BY <2>1 DEF WaitInv, Unborn, Countable, Total, Units, Opposite
    <2>3. Filled'
      BY <2>1, <2>2 DEF WaitInv, Filled, Live, Begun, Working
    <2> QED
      BY <1>0, <2>2, <2>3 DEF WaitInv
  <1> QED
    BY <1>1, <1>2

\* What a process has in its adjustment, one of its workers took: at most a
\* unit for each worker between its semop calls.
Has(v) == IF InSection(v) /\ Live(v[1]) THEN 1 ELSE 0
Within(r) ==
    /\ adj[P(r)] <= Has(P(r)) + (IF Prog[r] = "thread" THEN Has(C(r)) ELSE 0)
    /\ adj[C(r)] <= (IF Prog[r] = "thread" THEN 0 ELSE Has(C(r)))

HeldInv == WaitInv /\ \A q \in Runs : Within(q)

\* A step that keeps the semaphore and every section keeps the bound.
LEMMA WithinSame ==
    ASSUME NEW q \in Runs, Within(q), UNCHANGED <<semKey, adj>>,
           semKey = NoId \/ semid'[q] = semid[q] \/ (~InSection(P(q)) /\ ~InSection(C(q))),
           InSection(P(q))' <=> InSection(P(q)),
           InSection(C(q))' <=> InSection(C(q))
    PROVE  Within(q)'
  BY DEF Within, Has, Live, P, C

\* The calls of main() other than semctl.
LEMMA MainWithin ==
    ASSUME WaitInv, NEW r \in Runs, NEW q \in Runs, Within(q),
           \/ ShmGet(r) \/ ShmAt(r) \/ Join(r) \/ ShmDt(r) \/ RmShm(r) \/ Fork(r)
           \/ CreateThread(r, "create0", "parent")
           \/ CreateThread(r, "create1", "child")
           \/ \E k \in Kinds : Load(<<r, k>>) \/ Store(<<r, k>>)
    PROVE  Within(q)'
  <1>0. TypeOK /\ Stages(r) /\ P(q) \in Workers /\ C(q) \in Workers
    BY DEF WaitInv, TypeInv, P, C, Workers
  <1>1. UNCHANGED <<semKey, semid, adj>>
    BY DEF ShmGet, ShmAt, Join, ShmDt, RmShm, Fork, CreateThread, Load, Store, sem
  <1>2. ASSUME NEW v \in Workers PROVE InSection(v)' <=> InSection(v)
    <2>1. CASE ShmGet(r) \/ ShmAt(r) \/ Join(r) \/ ShmDt(r) \/ RmShm(r)
      BY <2>1 DEF ShmGet, ShmAt, Join, ShmDt, RmShm, work, InSection
    <2>2. CASE Fork(r)
      <3>1. pc'[v] = pc[v] \/ (pc[v] = "idle" /\ v[1] = r /\ pc'[v] = EnterLoop(r))
        <4>1. pc[P(r)] = "idle" /\ pc[C(r)] = "idle"
          BY <1>0, <2>2 DEF Fork, Stages
        <4>2. pc' = [pc EXCEPT ![P(r)] = EnterLoop(r), ![C(r)] = EnterLoop(r)]
          BY <2>2 DEF Fork, P, C
        <4>3. P(r)[1] = r /\ C(r)[1] = r
          BY DEF P, C
        <4> QED
          BY <1>0, <4>1, <4>2, <4>3 DEF TypeOK
      <3> QED
        BY <3>1 DEF InSection, EnterLoop
    <2>3. CASE CreateThread(r, "create0", "parent") \/ CreateThread(r, "create1", "child")
      <3>1. pc'[v] = pc[v] \/ (pc[v] = "idle" /\ v[1] = r /\ pc'[v] = EnterLoop(r))
        <4>1. PICK u \in {P(r), C(r)} :
                  pc[u] = "idle" /\ pc' = [pc EXCEPT ![u] = EnterLoop(r)]
          BY <1>0, <2>3 DEF CreateThread, Stages, P, C
        <4>2. u[1] = r
          BY <4>1 DEF P, C
        <4> QED
          BY <1>0, <4>1, <4>2 DEF TypeOK
      <3> QED
        BY <3>1 DEF InSection, EnterLoop
    <2>4. CASE \E k \in Kinds : Load(<<r, k>>) \/ Store(<<r, k>>)
      <3>1. PICK k \in Kinds : Load(<<r, k>>) \/ Store(<<r, k>>)
        BY <2>4
      <3>2. CASE v # <<r, k>>
        <4>1. pc'[v] = pc[v]
          BY <1>0, <3>1, <3>2 DEF Load, Store, TypeOK
        <4> QED
          BY <4>1 DEF InSection
      <3>3. CASE v = <<r, k>>
        <4>1. Locked(v[1]) => InSection(v) /\ InSection(v)'
          BY <1>0, <3>1, <3>3 DEF Load, Store, TypeOK, InSection, LeaveLoop, Locked
        <4> QED
          BY <4>1 DEF InSection, Locked
      <3> QED
        BY <3>2, <3>3
    <2> QED
      BY <2>1, <2>2, <2>3, <2>4
  <1>3. /\ InSection(P(q))' <=> InSection(P(q))
        /\ InSection(C(q))' <=> InSection(C(q))
    BY <1>0, <1>2 DEF P, C
  <1> QED
    BY <1>1, <1>3, WithinSame

\* The calls of main() on the semaphore set.
LEMMA SetWithin ==
    ASSUME WaitInv, NEW r \in Runs, NEW q \in Runs, Within(q),
           SemGet(r) \/ SetVal(r) \/ RmSem(r)
    PROVE  Within(q)'
  <1>0. /\ TypeOK /\ Stages(r) /\ P(q) \in Workers /\ C(q) \in Workers
        /\ pc' = pc
    BY DEF WaitInv, TypeInv, P, C, Workers, SemGet, SetVal, RmSem, work
  <1>1. Has(P(q))' \in {0, 1} /\ Has(C(q))' \in {0, 1}
    BY DEF Has
  <1>2. CASE adj' = [p \in Workers |-> 0]
    BY <1>0, <1>1, <1>2 DEF Within
  <1>3. CASE (SetVal(r) \/ RmSem(r)) /\ ~Live(r)
    <2>1. UNCHANGED <<semKey, semid, adj, pc>>
      BY <1>3 DEF SetVal, RmSem, work
    <2> QED
      BY <2>1, WithinSame DEF InSection
  <1>4. CASE SemGet(r)
    <2>1. adj' = adj /\ (q # r => semid'[q] = semid[q])
      BY <1>0, <1>4 DEF SemGet, TypeOK
    <2>2. InSection(P(q))' = InSection(P(q)) /\ InSection(C(q))' = InSection(C(q))
      BY <1>0 DEF InSection
    <2>3. q = r => ~InSection(P(q)) /\ ~InSection(C(q))
      BY <1>0, <1>4 DEF SemGet, Stages, InSection
    <2>4. CASE semKey # NoId
      <3>1. semKey' = semKey
        BY <1>4, <2>4 DEF SemGet
      <3> QED
        BY <2>1, <2>2, <2>3, <3>1, WithinSame
    <2>5. CASE semKey = NoId
      <3>1. ~Live(q)
        BY <2>5 DEF Live
      <3>2. Has(P(q)) = 0 /\ Has(C(q)) = 0
        BY <3>1 DEF Has, P, C
      <3>3. adj[P(q)] <= 0 /\ adj[C(q)] <= 0
        BY <3>2 DEF Within
      <3>4. adj[P(q)] \in Int /\ adj[C(q)] \in Int
        BY <1>0 DEF TypeOK
      <3> QED
        BY <1>1, <2>1, <3>3, <3>4 DEF Within
    <2> QED
      BY <2>4, <2>5
  <1> QED
    BY <1>2, <1>3, <1>4 DEF SetVal, RmSem

\* A semop: the adjustment follows the section.
LEMMA SemopWithin ==
    ASSUME WaitInv, NEW r \in Runs, NEW q \in Runs, Within(q), NEW k \in Kinds,
           Lock(<<r, k>>) \/ Unlock(<<r, k>>)
    PROVE  Within(q)'
  <1> DEFINE w == <<r, k>>
  <1>0. /\ TypeOK /\ Stages(r) /\ P(q) \in Workers /\ C(q) \in Workers /\ w \in Workers
        /\ w[1] = r /\ Proc(w) \in Workers /\ k \in Kinds
        /\ \A x \in Runs : adj[P(x)] \in Int /\ adj[C(x)] \in Int
    BY DEF WaitInv, TypeInv, TypeOK, P, C, Workers, Kinds, Proc
  <1>1. UNCHANGED <<semKey, semid>> /\ (Live(q)' <=> Live(q))
    BY DEF Lock, Unlock, Live
  <1>2. CASE q # r
    <2>1. /\ adj'[P(q)] = adj[P(q)] /\ adj'[C(q)] = adj[C(q)]
          /\ pc'[P(q)] = pc[P(q)] /\ pc'[C(q)] = pc[C(q)]
      BY <1>0, <1>2 DEF Lock, Unlock, TypeOK, P, C, Proc
    <2>2. Has(P(q))' = Has(P(q)) /\ Has(C(q))' = Has(C(q))
      BY <1>1, <2>1 DEF Has, InSection, P, C
    <2> QED
      BY <2>1, <2>2 DEF Within
  <1>3. CASE q = r /\ ~Live(r)
    <2>1. adj' = adj
      BY <1>0, <1>3 DEF Lock, Unlock
    <2>2. Has(P(q))' = Has(P(q)) /\ Has(C(q))' = Has(C(q))
      BY <1>1, <1>3 DEF Has, P, C
    <2> QED
      BY <2>1, <2>2 DEF Within
  <1>4. CASE q = r /\ Live(r)
    <2>1. /\ adj' = [adj EXCEPT ![Proc(w)] = @ + (IF Lock(w) THEN 1 ELSE -1)]
          /\ pc' = [pc EXCEPT ![w] = pc'[w]]
      <3>1. CASE Lock(w)
        BY <1>0, <1>4, <3>1 DEF Lock, TypeOK
      <3>2. CASE ~Lock(w)
        <4>1. adj' = [adj EXCEPT ![Proc(w)] = adj[Proc(w)] - 1] /\ Unlock(w)
          BY <1>0, <1>4, <3>2 DEF Unlock
        <4>2. adj[Proc(w)] - 1 = adj[Proc(w)] + (-1)
          BY <1>0 DEF TypeOK
        <4> QED
          BY <1>0, <3>2, <4>1, <4>2 DEF Unlock, TypeOK
      <3> QED
        BY <3>1, <3>2
    <2>2. Has(w)' = Has(w) + (IF Lock(w) THEN 1 ELSE -1)
      <3>1. CASE Lock(w)
        <4>1. pc[w] = "lock" /\ pc'[w] = "load" /\ Locked(r)
          BY <1>0, <3>1 DEF Lock, TypeOK, Stages
        <4> QED
          BY <1>0, <1>1, <1>4, <3>1, <4>1 DEF Has, InSection, Locked
      <3>2. CASE ~Lock(w)
        <4>1. pc[w] = "unlock" /\ pc'[w] \in {"done", "exit"} /\ Locked(r)
          BY <1>0, <3>2 DEF Unlock, TypeOK, Stages, Return
        <4> QED
          BY <1>0, <1>1, <1>4, <3>2, <4>1 DEF Has, InSection, Locked
      <3> QED
        BY <3>1, <3>2
    <2>3. \A v \in {P(r), C(r)} : v # w => Has(v)' = Has(v)
      BY <1>0, <1>1, <1>4, <2>1 DEF Has, InSection, TypeOK, P, C, Workers
    <2>4. /\ P(r) # C(r) /\ w \in {P(r), C(r)}
          /\ Proc(w) = IF Prog[r] = "thread" THEN P(r) ELSE w
          /\ \A v \in {P(r), C(r)} : Has(v) \in {0, 1} /\ Has(v)' \in {0, 1}
      BY <1>0 DEF P, C, Proc, Kinds, Has
    <2>5. /\ adj'[Proc(w)] = adj[Proc(w)] + (IF Lock(w) THEN 1 ELSE -1)
          /\ \A v \in Workers : v # Proc(w) => adj'[v] = adj[v]
      BY <1>0, <2>1 DEF TypeOK
    <2> QED
      BY <1>0, <1>4, <2>2, <2>3, <2>4, <2>5 DEF Within
  <1> QED
    BY <1>2, <1>3, <1>4

\* The end of a process.
LEMMA EndWithin ==
    ASSUME WaitInv, NEW r \in Runs, NEW q \in Runs, Within(q),
           NEW p \in {P(r), C(r)}, NEW how \in {"done", "killed"}, EndProcess(p, how),
           p = C(r) => Prog[r] # "thread"
    PROVE  Within(q)'
  <1>0. /\ TypeOK /\ P(q) \in Workers /\ C(q) \in Workers /\ p \in Workers
        /\ adj' = [adj EXCEPT ![p] = 0] /\ UNCHANGED <<semKey, semid>>
        /\ P(q) # C(q)
    BY DEF WaitInv, TypeInv, P, C, Workers, EndProcess
  <1>1. /\ Has(P(q))' \in {0, 1} /\ Has(C(q))' \in {0, 1}
        /\ adj[P(q)] \in Int /\ adj[C(q)] \in Int
    BY <1>0 DEF Has, TypeOK
  <1>2. \A v \in Workers : Proc(v) # p => pc'[v] = pc[v]
    BY DEF EndProcess
  <1>3. \A v \in {P(q), C(q)} : Proc(v) # p => Has(v)' = Has(v)
    BY <1>0, <1>2 DEF Has, InSection, Live
  <1>4. /\ Proc(P(q)) = P(q) 
        /\ Proc(C(q)) = IF Prog[q] = "thread" THEN P(q) ELSE C(q)
    BY DEF Proc, P, C
  <1>5. /\ adj'[P(q)] = IF p = P(q) THEN 0 ELSE adj[P(q)]
        /\ adj'[C(q)] = IF p = C(q) THEN 0 ELSE adj[C(q)]
    BY <1>0 DEF TypeOK
  <1>6. p = C(q) => Prog[q] # "thread"
    BY DEF P, C
  <1> QED
    BY <1>0, <1>1, <1>3, <1>4, <1>5, <1>6 DEF Within

LEMMA WithinStart == ASSUME Init, NEW q \in Runs PROVE Within(q)
  <1>1. adj[P(q)] = 0 /\ adj[C(q)] = 0
    BY DEF Init, P, C, Workers
  <1>2. Has(P(q)) \in {0, 1} /\ Has(C(q)) \in {0, 1}
    BY DEF Has
  <1> QED
    BY <1>1, <1>2 DEF Within

LEMMA WithinStep ==
    ASSUME WaitInv, NEW q \in Runs, Within(q), [Next]_vars
    PROVE  Within(q)'
  <1>1. CASE Next
    <2>1. PICK r \in Runs :
             \/ ShmGet(r) \/ ShmAt(r) \/ SemGet(r) \/ SetVal(r) \/ Join(r)
             \/ ShmDt(r) \/ RmSem(r) \/ RmShm(r)
             \/ Fork(r)
             \/ CreateThread(r, "create0", "parent")
             \/ CreateThread(r, "create1", "child")
             \/ \E k \in Kinds : Lock(<<r, k>>) \/ Load(<<r, k>>)
                                    \/ Store(<<r, k>>) \/ Unlock(<<r, k>>)
             \/ EndProcess(P(r), "killed")
             \/ /\ \E how \in {"done", "killed"} : EndProcess(C(r), how)
                /\ Prog[r] # "thread"
      BY <1>1, Steps DEF WaitInv
    <2>2. CASE SemGet(r) \/ SetVal(r) \/ RmSem(r)
      BY <2>2, SetWithin
    <2>3. CASE \E k \in Kinds : Lock(<<r, k>>) \/ Unlock(<<r, k>>)
      BY <2>3, SemopWithin
    <2>4. CASE EndProcess(P(r), "killed")
      BY <2>4, EndWithin DEF P, C
    <2>5. CASE /\ \E how \in {"done", "killed"} : EndProcess(C(r), how)
               /\ Prog[r] # "thread"
      BY <2>5, EndWithin
    <2>6. CASE \/ ShmGet(r) \/ ShmAt(r) \/ Join(r) \/ ShmDt(r) \/ RmShm(r) \/ Fork(r)
               \/ CreateThread(r, "create0", "parent")
               \/ CreateThread(r, "create1", "child")
               \/ \E k \in Kinds : Load(<<r, k>>) \/ Store(<<r, k>>)
      BY <2>6, MainWithin
    <2> QED
      BY <2>1, <2>2, <2>3, <2>4, <2>5, <2>6
  <1>2. CASE UNCHANGED vars
    <2>1. UNCHANGED <<pc, semKey, semid, adj>>
      BY <1>2 DEF vars, work, sem
    <2> QED
      BY <2>1, WithinSame DEF InSection
  <1> QED
    BY <1>1, <1>2

\* Who waits, waits for a worker of the process that has the unit.
LEMMA HolderRuns == HeldInv => WaitsForHolder
  <1> SUFFICES ASSUME WaitInv, \A q \in Runs : Within(q), NEW w \in Workers,
                      pc[w] = "lock", Live(w[1]), semval = 0
               PROVE  \E v \in Workers : InSection(v) /\ Live(v[1]) /\ adj[Proc(v)] > 0
    BY DEF WaitsForHolder, HeldInv
  <1>1. w[1] \in Runs /\ Begun(w[1])
    BY DEF Workers, Begun, Working, P, C
  <1>2. adj \in [Workers -> Int] /\ Countable(adj) /\ Total(adj) \in Int
    <2>1. adj \in [Workers -> Int] /\ Countable(adj)
      BY DEF WaitInv, TypeInv, TypeOK
    <2> QED
      BY <2>1, FS_CardinalityType DEF Countable, Total
  <1>3. semval + Total(adj) >= 1
    BY <1>1 DEF WaitInv, Filled
  <1>4. PICK p \in Workers : adj[p] > 0
    BY <1>2, <1>3, TotalPositive
  <1>5. PICK r \in Runs : p \in {P(r), C(r)}
    BY DEF Workers, P, C
  <1>6. /\ P(r) \in Workers /\ C(r) \in Workers
        /\ Proc(P(r)) = P(r)
        /\ Proc(C(r)) = IF Prog[r] = "thread" THEN P(r) ELSE C(r)
    BY DEF Proc, P, C, Workers
  <1>7. \A v \in {P(r), C(r)} : Has(v) \in {0, 1}
    BY DEF Has
  <1>8. \E v \in {P(r), C(r)} : Proc(v) = p /\ Has(v) = 1
    BY <1>2, <1>4, <1>5, <1>6, <1>7 DEF Within
  <1> QED
    BY <1>4, <1>6, <1>8 DEF Has

\* In runs that overlap as they like, a worker that waits in semop waits for a
\* running one that is between its semop calls and has a unit of the semaphore:
\* no order of kills, of semctl(SETVAL)s on a semaphore in use and of removals
\* loses the last one.
THEOREM SomebodyHolds == Spec => []WaitsForHolder
  <1>1. Init => HeldInv
    BY WaitInvStart, WithinStart DEF HeldInv
  <1>2. HeldInv /\ [Next]_vars => HeldInv'
    BY WaitInvStep, WithinStep DEF HeldInv
  <1> QED
    BY <1>1, <1>2, HolderRuns, PTL DEF Spec

-------------------------------------------------------------------------------
\* What a run can do next without the help of another one: the next call of its
\* main(), or a step of one of its workers.
Goes(r) ==
    \/ main[r] \notin {"shmget", "work"} \union Ended
    \/ main[r] = "work" /\ \A k \in Kinds : pc[<<r, k>>] \in {"done", "killed"}
    \/ \E k \in Kinds :
          \/ pc[<<r, k>>] \in {"load", "store", "unlock", "exit"}
          \/ pc[<<r, k>>] = "lock" /\ (semval > 0 \/ ~Live(r))

\* main() waits for its workers only when both have been started.
Started(r) ==
    /\ main[r] = "work" => pc[P(r)] # "idle" /\ pc[C(r)] # "idle"
    /\ main[r] = "create1" => pc[P(r)] # "idle"

StartedInv == TypeInv /\ \A q \in Runs : Started(q)

\* While a run is active, some run goes on.
GoesOn == (\E r \in Runs : Active(r)) => \E r \in Runs : Goes(r)

LEMMA StartedStep ==
    ASSUME TypeInv, NEW q \in Runs, Started(q), [Next]_vars
    PROVE  Started(q)'
  <1>0. /\ TypeOK /\ Stages(q) /\ P(q) \in Workers /\ C(q) \in Workers
        /\ \A v \in Workers : v = P(v[1]) \/ v = C(v[1])
        /\ \A r \in Runs : P(r) \in Workers /\ C(r) \in Workers
    BY DEF TypeInv, P, C, Workers
  <1>1. CASE UNCHANGED vars
    BY <1>1 DEF vars, work, Started
  <1>2. CASE Next
    <2>1. PICK r \in Runs :
             \/ ShmGet(r) \/ ShmAt(r) \/ SemGet(r) \/ SetVal(r) \/ Join(r)
             \/ ShmDt(r) \/ RmSem(r) \/ RmShm(r)
             \/ Fork(r)
             \/ CreateThread(r, "create0", "parent")
             \/ CreateThread(r, "create1", "child")
             \/ \E k \in Kinds : Lock(<<r, k>>) \/ Load(<<r, k>>)
                                    \/ Store(<<r, k>>) \/ Unlock(<<r, k>>)
             \/ /\ EndProcess(P(r), "killed")
                /\ main' \in {[main EXCEPT ![r] = "failed"],
                              [main EXCEPT ![r] = "killed"]}
             \/ /\ \E how \in {"done", "killed"} : EndProcess(C(r), how)
                /\ main' = main
      BY <1>2, Steps
    <2>2. CASE \/ ShmGet(r) \/ ShmAt(r) \/ SemGet(r) \/ SetVal(r) \/ Join(r)
               \/ ShmDt(r) \/ RmSem(r) \/ RmShm(r)
      <3>1. pc' = pc /\ Advance(r) /\ main[r] \notin Ended \union {"create0", "create1", "fork"}
        BY <2>2 DEF ShmGet, ShmAt, SemGet, SetVal, Join, ShmDt, RmSem, RmShm, work, Ended
      <3>2. main'[q] = main[q] \/ (main'[q] \notin {"work", "create1"})
        BY <1>0, <2>2, <3>1, Order DEF TypeInv, TypeOK, Ended, ShmGet, ShmAt, SemGet,
           SetVal, Join, ShmDt, RmSem, RmShm
      <3> QED
        BY <3>1, <3>2 DEF Started
    <2>3. CASE Fork(r)
      <3>1. /\ pc' = [pc EXCEPT ![P(r)] = EnterLoop(r), ![C(r)] = EnterLoop(r)]
            /\ main' = [main EXCEPT ![r] = "work"]
        BY <2>3, Order DEF Fork, P, C, TypeInv, Ended
      <3>2. EnterLoop(r) # "idle"
        BY DEF EnterLoop
      <3> QED
        BY <1>0, <3>1, <3>2 DEF Started, TypeOK, P, C
    <2>4. CASE CreateThread(r, "create0", "parent")
      <3>1. /\ pc' = [pc EXCEPT ![P(r)] = EnterLoop(r)]
            /\ main' = [main EXCEPT ![r] = "create1"]
        BY <2>4, Order DEF CreateThread, P, C, TypeInv, Ended
      <3>2. EnterLoop(r) # "idle"
        BY DEF EnterLoop
      <3> QED
        BY <1>0, <3>1, <3>2 DEF Started, TypeOK, P, C
    <2>5. CASE CreateThread(r, "create1", "child")
      <3>1. /\ pc' = [pc EXCEPT ![C(r)] = EnterLoop(r)]
            /\ main' = [main EXCEPT ![r] = "work"] /\ main[r] = "create1"
        BY <2>5, Order DEF CreateThread, P, C, TypeInv, Ended
      <3>2. EnterLoop(r) # "idle"
        BY DEF EnterLoop
      <3> QED
        BY <1>0, <3>1, <3>2 DEF Started, TypeOK, P, C
    <2>6. CASE \E k \in Kinds : Lock(<<r, k>>) \/ Load(<<r, k>>)
                                    \/ Store(<<r, k>>) \/ Unlock(<<r, k>>)
      <3>1. PICK k \in Kinds : Lock(<<r, k>>) \/ Load(<<r, k>>)
                                    \/ Store(<<r, k>>) \/ Unlock(<<r, k>>)
        BY <2>6
      <3>2. \A v \in Workers : pc[v] # "idle" => pc'[v] # "idle"
        BY <1>0, <3>1 DEF Lock, Load, Store, Unlock, TypeOK, LeaveLoop, Return
      <3>3. main' = main
        BY <3>1 DEF Lock, Load, Store, Unlock
      <3> QED
        BY <1>0, <3>2, <3>3 DEF Started
    <2>7. CASE /\ \E p \in Workers, how \in {"done", "killed"} : EndProcess(p, how)
               /\ main' \in {main, [main EXCEPT ![r] = "failed"],
                             [main EXCEPT ![r] = "killed"]}
      <3>1. \A v \in Workers : pc[v] # "idle" => pc'[v] # "idle"
        BY <2>7 DEF EndProcess
      <3>2. main'[q] \in {main[q], "failed", "killed"}
        BY <1>0, <2>7 DEF TypeOK
      <3> QED
        BY <1>0, <3>1, <3>2 DEF Started
    <2> QED
      BY <1>0, <2>1, <2>2, <2>3, <2>4, <2>5, <2>6, <2>7
  <1> QED
    BY <1>1, <1>2

\* A run that is waited for is one that goes on.
LEMMA Onwards ==
    ASSUME TypeInv, \A q \in Runs : Started(q), WaitsForHolder,
           NEW r \in Runs, Active(r)
    PROVE  \E q \in Runs : Goes(q)
  <1>0. /\ TypeOK /\ Stages(r) /\ Started(r)
        /\ \A k \in Kinds : <<r, k>> \in Workers
    BY DEF TypeInv, Workers, Kinds
  <1>1. CASE main[r] \notin {"work"} \union Ended
    BY <1>1 DEF Active, Goes
  <1>2. ASSUME NEW k \in Kinds, Working(<<r, k>>)
        PROVE  \E q \in Runs : Goes(q)
    <2>1. CASE pc[<<r, k>>] # "lock" \/ semval > 0 \/ ~Live(r)
      BY <1>2, <2>1 DEF Working, Goes
    <2>2. CASE pc[<<r, k>>] = "lock" /\ ~(semval > 0) /\ Live(r)
      <3>1. semval = 0
        BY <1>0, <2>2 DEF TypeOK
      <3>2. PICK v \in Workers : InSection(v)
        BY <1>0, <2>2, <3>1 DEF WaitsForHolder
      <3>3. v[1] \in Runs /\ v[2] \in Kinds /\ v = <<v[1], v[2]>>
        BY DEF Workers, Kinds
      <3>4. pc[<<v[1], v[2]>>] \in {"load", "store", "unlock", "exit"}
        BY <3>2, <3>3 DEF InSection
      <3> QED
        BY <3>3, <3>4 DEF Goes
    <2> QED
      BY <2>1, <2>2
  <1>3. CASE main[r] = "work" /\ \A k \in Kinds : ~Working(<<r, k>>)
    <2>1. \A k \in Kinds : pc[<<r, k>>] \in {"done", "killed"}
      BY <1>0, <1>3 DEF TypeOK, Working, Started, Kinds, P, C
    <2> QED
      BY <1>3, <2>1 DEF Goes
  <1>4. CASE main[r] \in Ended /\ \A k \in Kinds : ~Working(<<r, k>>)
    BY <1>0, <1>4 DEF Active, Over, Working, TypeOK, Kinds
  <1> QED
    BY <1>1, <1>2, <1>3, <1>4

\* No order of steps, of any number of runs that overlap, fail or are killed,
\* leaves everyone waiting on everyone: while a run is active, one of them can
\* take its next step.
THEOREM NoDeadlock == Spec => []GoesOn
  <1>1. Init => StartedInv
    BY TypeStart DEF Init, Started, StartedInv
  <1>2. StartedInv /\ [Next]_vars => StartedInv'
    BY TypeStep, StartedStep DEF StartedInv
  <1>3. StartedInv /\ WaitsForHolder => GoesOn
    BY Onwards DEF StartedInv, GoesOn
  <1> QED
    BY <1>1, <1>2, <1>3, SomebodyHolds, PTL DEF Spec

-------------------------------------------------------------------------------
(***************************************************************************)
(* How long a run can go on: the calls its main() has left and the steps   *)
(* its two workers have left.                                              *)
(***************************************************************************)
CallsLeft == [shmget |-> 10, shmat |-> 9, semget |-> 8, setval |-> 7, create0 |-> 6,
              create1 |-> 5, fork |-> 5, work |-> 4, shmdt |-> 3, rmsem |-> 2,
              rmshm |-> 1, done |-> 0, failed |-> 0, killed |-> 0]

StepsLeft(w) ==
    CASE pc[w] = "idle"   -> 2 * MaxTry + 4
      [] pc[w] = "lock"   -> 2 * MaxTry + 3
      [] pc[w] = "load"   -> 2 * (MaxTry - done[w]) + 2
      [] pc[w] = "store"  -> 2 * (MaxTry - done[w]) + 1
      [] pc[w] = "unlock" -> 2
      [] pc[w] = "exit"   -> 1
      [] OTHER            -> 0

Left(r) == CallsLeft[main[r]] + StepsLeft(P(r)) + StepsLeft(C(r))

\* A step belongs to one run, which has less left after it.
Shortens(r) == /\ Left(r)' < Left(r)
               /\ \A q \in Runs \ {r} : Left(q)' = Left(q)

LEMMA CallsLeftNat ==
    ASSUME TypeOK, NEW r \in Runs
    PROVE  CallsLeft[main[r]] \in 0..10 /\ (main[r] \notin Ended => CallsLeft[main[r]] > 0)
  BY DEF TypeOK, CallsLeft, Ended

LEMMA StepsLeftNat ==
    ASSUME TypeInv, NEW w \in Workers
    PROVE  StepsLeft(w) \in 0..(2 * MaxTry + 4)
  <1>1. /\ pc[w] \in {"idle", "lock", "load", "store", "unlock", "exit", "done", "killed"}
        /\ done[w] \in 0..MaxTry /\ MaxTry \in Nat \ {0}
    BY MaxTryAssumption DEF TypeInv, TypeOK
  <1> QED
    BY <1>1 DEF StepsLeft

LEMMA LeftBounds == TypeInv => \A r \in Runs : Left(r) \in 0..(4 * MaxTry + 18)
  <1> SUFFICES ASSUME TypeInv, NEW r \in Runs PROVE Left(r) \in 0..(4 * MaxTry + 18)
    OBVIOUS
  <1>1. CallsLeft[main[r]] \in 0..10
    BY CallsLeftNat DEF TypeInv
  <1>2. P(r) \in Workers /\ C(r) \in Workers /\ MaxTry \in Nat
    BY MaxTryAssumption DEF P, C, Workers
  <1>3. /\ StepsLeft(P(r)) \in 0..(2 * MaxTry + 4)
        /\ StepsLeft(C(r)) \in 0..(2 * MaxTry + 4)
    BY <1>2, StepsLeftNat
  <1> QED
    BY <1>1, <1>2, <1>3 DEF Left

\* Each worker's part, by the step it makes.
LEMMA WorkerShortens ==
    ASSUME TypeInv, NEW r \in Runs, NEW k \in Kinds,
           Lock(<<r, k>>) \/ Load(<<r, k>>) \/ Store(<<r, k>>) \/ Unlock(<<r, k>>)
    PROVE  /\ StepsLeft(<<r, k>>)' < StepsLeft(<<r, k>>)
           /\ \A v \in Workers \ {<<r, k>>} : StepsLeft(v)' = StepsLeft(v)
           /\ main' = main
  <1> DEFINE w == <<r, k>>
  <1>0. /\ TypeOK /\ w \in Workers /\ MaxTry \in Nat \ {0} /\ done[w] \in 0..MaxTry
        /\ pc[w] \in {"idle", "lock"} => done[w] = 0
        /\ pc[w] \in {"load", "store"} => done[w] < MaxTry
    BY MaxTryAssumption DEF TypeInv, TypeOK, Workers, Kinds, Stages
  <1> HIDE DEF w
  <1>1. main' = main
    BY DEF Lock, Load, Store, Unlock
  <1>2. \A v \in Workers \ {w} : pc'[v] = pc[v] /\ done'[v] = done[v]
    BY <1>0 DEF Lock, Load, Store, Unlock, TypeOK, w
  <1>3. \A v \in Workers \ {w} : StepsLeft(v)' = StepsLeft(v)
    BY <1>2 DEF StepsLeft
  <1>4. CASE Lock(w)
    <2>1. pc[w] = "lock" /\ pc'[w] = "load" /\ done'[w] = done[w]
      BY <1>0, <1>4 DEF Lock, TypeOK
    <2> QED
      BY <1>0, <1>1, <1>3, <2>1 DEF StepsLeft, w
  <1>5. CASE Load(w)
    <2>1. pc[w] = "load" /\ pc'[w] = "store" /\ done'[w] = done[w]
      BY <1>0, <1>5 DEF Load, TypeOK
    <2> QED
      BY <1>0, <1>1, <1>3, <2>1 DEF StepsLeft, w
  <1>6. CASE Store(w)
    <2>1. /\ pc[w] = "store" /\ pc'[w] \in {"load", "unlock", "exit", "done"}
          /\ done'[w] = done[w] + 1
      BY <1>0, <1>6 DEF Store, TypeOK, LeaveLoop, Return
    <2> QED
      BY <1>0, <1>1, <1>3, <2>1 DEF StepsLeft, w
  <1>7. CASE Unlock(w)
    <2>1. pc[w] = "unlock" /\ pc'[w] \in {"exit", "done"}
      BY <1>0, <1>7 DEF Unlock, TypeOK, Return
    <2> QED
      BY <1>0, <1>1, <1>3, <2>1 DEF StepsLeft, w
  <1> QED
    BY <1>4, <1>5, <1>6, <1>7 DEF w

\* A call of main() and the end of a process take nobody's steps back.
LEMMA MainShortens ==
    ASSUME TypeInv, NEW r \in Runs,
           \/ ShmGet(r) \/ ShmAt(r) \/ SemGet(r) \/ SetVal(r) \/ Join(r)
           \/ ShmDt(r) \/ RmSem(r) \/ RmShm(r)
           \/ Fork(r)
           \/ CreateThread(r, "create0", "parent")
           \/ CreateThread(r, "create1", "child")
    PROVE  /\ CallsLeft[main'[r]] < CallsLeft[main[r]]
           /\ \A q \in Runs \ {r} : main'[q] = main[q]
           /\ \A v \in Workers : StepsLeft(v)' <= StepsLeft(v)
           /\ \A v \in Workers : v[1] # r => StepsLeft(v)' = StepsLeft(v)
  <1>0. TypeOK /\ Stages(r) /\ MaxTry \in Nat \ {0}
    BY MaxTryAssumption DEF TypeInv
  <1>1. Advance(r) /\ main[r] \notin Ended /\ done' = done
    BY DEF ShmGet, ShmAt, SemGet, SetVal, Join, ShmDt, RmSem, RmShm, Fork, CreateThread,
       work, Ended
  <1>2. \A q \in Runs \ {r} : main'[q] = main[q]
    BY <1>0, <1>1 DEF Advance, TypeOK
  <1>3. CallsLeft[main'[r]] < CallsLeft[main[r]]
    <2>1. \/ main[r] = "shmget" /\ main'[r] = "shmat"
          \/ main[r] = "shmat" /\ main'[r] \in {"semget", "fork"}
          \/ main[r] = "semget" /\ main'[r] = "setval"
          \/ main[r] = "setval" /\ main'[r] \in {"create0", "fork"}
          \/ main[r] = "create0" /\ main'[r] = "create1"
          \/ main[r] \in {"fork", "create1"} /\ main'[r] = "work"
          \/ main[r] = "work" /\ main'[r] = "shmdt"
          \/ main[r] = "shmdt" /\ main'[r] \in {"rmsem", "rmshm"}
          \/ main[r] = "rmsem" /\ main'[r] = "rmshm"
          \/ main[r] = "rmshm" /\ main'[r] = "done"
      BY <1>0, <1>1, Order DEF TypeOK, Ended
    <2> QED
      BY <2>1 DEF CallsLeft
  <1>4. \A v \in Workers : \/ pc'[v] = pc[v]
                           \/ v[1] = r /\ pc[v] = "idle" /\ pc'[v] \in {"lock", "load"}
    <2>1. CASE \/ ShmGet(r) \/ ShmAt(r) \/ SemGet(r) \/ SetVal(r) \/ Join(r)
               \/ ShmDt(r) \/ RmSem(r) \/ RmShm(r)
      BY <2>1 DEF ShmGet, ShmAt, SemGet, SetVal, Join, ShmDt, RmSem, RmShm, work
    <2>2. EnterLoop(r) \in {"lock", "load"} /\ P(r)[1] = r /\ C(r)[1] = r
      BY DEF EnterLoop, P, C
    <2>3. CASE Fork(r)
      <3>1. pc[P(r)] = "idle" /\ pc[C(r)] = "idle"
        BY <1>0, <2>3 DEF Fork, Stages
      <3>2. pc' = [pc EXCEPT ![P(r)] = EnterLoop(r), ![C(r)] = EnterLoop(r)]
        BY <2>3 DEF Fork, P, C
      <3> QED
        BY <1>0, <2>2, <3>1, <3>2 DEF TypeOK
    <2>4. CASE CreateThread(r, "create0", "parent") \/ CreateThread(r, "create1", "child")
      <3>1. PICK u \in {P(r), C(r)} :
                pc[u] = "idle" /\ pc' = [pc EXCEPT ![u] = EnterLoop(r)]
        BY <1>0, <2>4 DEF CreateThread, Stages, P, C
      <3> QED
        BY <1>0, <2>2, <3>1 DEF TypeOK
    <2> QED
      BY <2>1, <2>3, <2>4
  <1>5. ASSUME NEW v \in Workers
        PROVE  /\ StepsLeft(v)' <= StepsLeft(v)
               /\ v[1] # r => StepsLeft(v)' = StepsLeft(v)
    <2>1. PICK q \in Runs, k \in Kinds : v = <<q, k>>
      BY DEF Workers, Kinds
    <2>2. pc[v] = "idle" => done[v] = 0
      BY <2>1 DEF TypeInv, Stages
    <2>3. StepsLeft(v) \in Nat /\ done[v] \in Nat
      BY <1>0, StepsLeftNat DEF TypeOK
    <2>4. CASE pc'[v] = pc[v]
      BY <1>1, <2>3, <2>4 DEF StepsLeft
    <2>5. CASE v[1] = r /\ pc[v] = "idle" /\ pc'[v] \in {"lock", "load"}
      BY <1>0, <1>1, <2>2, <2>5 DEF StepsLeft
    <2> QED
      BY <1>4, <2>4, <2>5
  <1> QED
    BY <1>2, <1>3, <1>5

LEMMA EndShortens ==
    ASSUME TypeInv, NEW r \in Runs, NEW p \in {P(r), C(r)},
           p = C(r) => Prog[r] # "thread",
           NEW how \in {"done", "killed"}, EndProcess(p, how)
    PROVE  /\ \A v \in Workers : StepsLeft(v)' <= StepsLeft(v)
           /\ \A v \in Workers : v[1] # r => StepsLeft(v)' = StepsLeft(v)
           /\ p = C(r) /\ pc[p] \notin {"done", "killed"} => StepsLeft(p)' < StepsLeft(p)
  <1>0. TypeOK /\ MaxTry \in Nat \ {0} /\ done' = done
    BY MaxTryAssumption DEF TypeInv, EndProcess
  <1>1. ASSUME NEW v \in Workers
        PROVE  /\ StepsLeft(v)' <= StepsLeft(v)
               /\ v[1] # r => StepsLeft(v)' = StepsLeft(v)
    <2>1. pc'[v] = IF Proc(v) = p /\ pc[v] # "done" THEN how ELSE pc[v]
      BY DEF EndProcess
    <2>2. Proc(v) = p => v[1] = r
      BY DEF Proc, P, C, Workers
    <2>3. StepsLeft(v) \in Nat
      BY <1>0, StepsLeftNat
    <2>4. CASE pc'[v] = pc[v]
      BY <1>0, <2>3, <2>4 DEF StepsLeft
    <2>5. CASE pc'[v] = how /\ v[1] = r
      <3>1. StepsLeft(v)' = 0
        BY <2>5 DEF StepsLeft
      <3> QED
        BY <2>3, <2>5, <3>1
    <2> QED
      BY <2>1, <2>2, <2>4, <2>5
  <1>2. ASSUME p = C(r), pc[p] \notin {"done", "killed"} PROVE StepsLeft(p)' < StepsLeft(p)
    <2>1. p \in Workers /\ Proc(p) = p
      BY <1>2 DEF Proc, C, Workers
    <2>2. pc'[p] = how
      BY <1>2, <2>1 DEF EndProcess
    <2>3. StepsLeft(p)' = 0
      BY <2>2 DEF StepsLeft
    <2>4. /\ pc[p] \in {"idle", "lock", "load", "store", "unlock", "exit"}
          /\ done[p] \in 0..MaxTry
      BY <1>0, <1>2, <2>1 DEF TypeOK
    <2>5. StepsLeft(p) > 0
      BY <1>0, <2>4 DEF StepsLeft
    <2> QED
      BY <2>3, <2>5
  <1> QED
    BY <1>1, <1>2

LEMMA StepShortens ==
    ASSUME TypeInv, TypeInv', Next
    PROVE  \E r \in Runs : Shortens(r)
  <1>1. PICK r \in Runs :
             \/ ShmGet(r) \/ ShmAt(r) \/ SemGet(r) \/ SetVal(r) \/ Join(r)
             \/ ShmDt(r) \/ RmSem(r) \/ RmShm(r)
             \/ Fork(r)
             \/ CreateThread(r, "create0", "parent")
             \/ CreateThread(r, "create1", "child")
             \/ \E k \in Kinds : Lock(<<r, k>>) \/ Load(<<r, k>>)
                                    \/ Store(<<r, k>>) \/ Unlock(<<r, k>>)
             \/ /\ EndProcess(P(r), "killed")
                /\ main[r] \notin Ended
                /\ main' \in {[main EXCEPT ![r] = "failed"],
                              [main EXCEPT ![r] = "killed"]}
             \/ /\ \E how \in {"done", "killed"} : EndProcess(C(r), how)
                /\ Prog[r] # "thread" /\ main' = main
                /\ pc[C(r)] \notin {"idle", "done", "killed"}
    BY Steps
  <1> DEFINE calls(q) == CallsLeft[main[q]]
  <1>2. \A q \in Runs : /\ P(q) \in Workers /\ C(q) \in Workers
                        /\ P(q)[1] = q /\ C(q)[1] = q
    BY DEF P, C, Workers
  <1>3. \A v \in Workers : StepsLeft(v) \in Int /\ StepsLeft(v)' \in Int
    <2>1. ASSUME NEW v \in Workers PROVE StepsLeft(v) \in Int
      BY StepsLeftNat
    <2>2. ASSUME NEW v \in Workers PROVE StepsLeft(v)' \in Int
      <3>1. MaxTry \in Nat
        BY MaxTryAssumption
      <3>2. /\ pc'[v] \in {"idle", "lock", "load", "store", "unlock", "exit", "done", "killed"}
            /\ done'[v] \in 0..MaxTry
        BY DEF TypeInv, TypeOK
      <3> QED
        BY <3>1, <3>2 DEF StepsLeft
    <2> QED
      BY <2>1, <2>2
  <1>4. \A q \in Runs : calls(q) \in Int /\ calls(q)' \in Int
    <2>1. /\ \A q \in Runs : main[q] \in DOMAIN CallsLeft
          /\ \A q \in Runs : main'[q] \in DOMAIN CallsLeft
      BY DEF TypeInv, TypeOK, CallsLeft, Ended
    <2>2. \A x \in DOMAIN CallsLeft : CallsLeft[x] \in Int
      BY DEF CallsLeft
    <2> QED
      BY <2>1, <2>2
  \* It is enough to say what becomes of the three parts.
  <1>5. ASSUME calls(r)' <= calls(r), \A q \in Runs \ {r} : calls(q)' = calls(q),
               \A v \in Workers : StepsLeft(v)' <= StepsLeft(v),
               \A v \in Workers : v[1] # r => StepsLeft(v)' = StepsLeft(v),
               \/ calls(r)' < calls(r)
               \/ StepsLeft(P(r))' < StepsLeft(P(r)) \/ StepsLeft(C(r))' < StepsLeft(C(r))
        PROVE  Shortens(r)
    <2> HIDE DEF calls
    <2>1. \A q \in Runs : /\ Left(q) = calls(q) + StepsLeft(P(q)) + StepsLeft(C(q))
                          /\ Left(q)' = calls(q)' + StepsLeft(P(q))' + StepsLeft(C(q))'
      BY DEF Left, calls, P, C
    <2> QED
      BY <1>2, <1>3, <1>4, <1>5, <2>1 DEF Shortens
  <1>6. CASE \/ ShmGet(r) \/ ShmAt(r) \/ SemGet(r) \/ SetVal(r) \/ Join(r)
             \/ ShmDt(r) \/ RmSem(r) \/ RmShm(r)
             \/ Fork(r)
             \/ CreateThread(r, "create0", "parent")
             \/ CreateThread(r, "create1", "child")
    BY <1>4, <1>5, <1>6, MainShortens
  <1>7. CASE \E k \in Kinds : Lock(<<r, k>>) \/ Load(<<r, k>>)
                                    \/ Store(<<r, k>>) \/ Unlock(<<r, k>>)
    <2>1. PICK k \in Kinds : Lock(<<r, k>>) \/ Load(<<r, k>>)
                                    \/ Store(<<r, k>>) \/ Unlock(<<r, k>>)
      BY <1>7
    <2>2. /\ StepsLeft(<<r, k>>)' < StepsLeft(<<r, k>>)
          /\ \A v \in Workers \ {<<r, k>>} : StepsLeft(v)' = StepsLeft(v)
          /\ main' = main
      BY <2>1, WorkerShortens
    <2>3. <<r, k>> \in {P(r), C(r)} /\ <<r, k>>[1] = r
      BY DEF P, C, Kinds
    <2> QED
      BY <1>2, <1>3, <1>4, <1>5, <2>2, <2>3
  <1>8. CASE /\ EndProcess(P(r), "killed")
             /\ main[r] \notin Ended
             /\ main' \in {[main EXCEPT ![r] = "failed"],
                           [main EXCEPT ![r] = "killed"]}
    <2>1. /\ \A v \in Workers : StepsLeft(v)' <= StepsLeft(v)
          /\ \A v \in Workers : v[1] # r => StepsLeft(v)' = StepsLeft(v)
      BY <1>8, EndShortens DEF P, C
    <2>2. /\ main'[r] \in {"failed", "killed"}
          /\ \A q \in Runs \ {r} : main'[q] = main[q]
      BY <1>8 DEF TypeInv, TypeOK
    <2>3. calls(r)' = 0 /\ calls(r) > 0
      BY <1>8, <2>2, CallsLeftNat DEF CallsLeft, TypeInv
    <2> QED
      <3>1. calls(r)' < calls(r) /\ \A q \in Runs \ {r} : calls(q)' = calls(q)
        BY <2>2, <2>3
      <3>2. calls(r)' <= calls(r)
        <4>1. calls(r)' \in Int /\ calls(r) \in Int
          BY <1>4
        <4> HIDE DEF calls
        <4> QED
          BY <2>3, <4>1
      <3> QED
        BY <1>5, <2>1, <3>1, <3>2
  <1>9. CASE /\ \E how \in {"done", "killed"} : EndProcess(C(r), how)
             /\ Prog[r] # "thread" /\ main' = main
             /\ pc[C(r)] \notin {"idle", "done", "killed"}
    <2>1. /\ \A v \in Workers : StepsLeft(v)' <= StepsLeft(v)
          /\ \A v \in Workers : v[1] # r => StepsLeft(v)' = StepsLeft(v)
          /\ StepsLeft(C(r))' < StepsLeft(C(r))
      BY <1>9, EndShortens
    <2> QED
      BY <1>4, <1>5, <1>9, <2>1
  <1> QED
    BY <1>1, <1>6, <1>7, <1>8, <1>9

\* Nothing goes round in circles: every step of the runs, failures and kills
\* included, is a step of one of them and leaves that one with less to do, and
\* nobody else with more.  A run makes at most 4 * MAX_TRY + 18 steps;
\* together with NoDeadlock, runs that are scheduled at all come to an end.
THEOREM RunsShorten ==
    Spec => /\ [](\A r \in Runs : Left(r) \in 0..(4 * MaxTry + 18))
            /\ [][\E r \in Runs : Shortens(r)]_vars
  <1>1. TypeInv /\ TypeInv' /\ [Next]_vars => [\E r \in Runs : Shortens(r)]_vars
    BY StepShortens
  <1> QED
    BY <1>1, TypeStart, TypeStep, LeftBounds, PTL DEF Spec

-------------------------------------------------------------------------------
LEMMA BinaryStep ==
    ASSUME ~Overlap, Inv, BinarySemaphore, [Next]_vars
    PROVE  BinarySemaphore'
  <1>0. TypeInv /\ TypeOK /\ \A r \in Runs : Semaphore(r)
    BY DEF Inv, TypeInv, RunInv
  <1>1. CASE UNCHANGED vars
    BY <1>1 DEF vars, sem, BinarySemaphore
  <1>2. CASE Next
    <2>1. PICK r \in Runs :
             \/ ShmGet(r) \/ ShmAt(r) \/ SemGet(r) \/ SetVal(r) \/ Join(r)
             \/ ShmDt(r) \/ RmSem(r) \/ RmShm(r)
             \/ Fork(r)
             \/ CreateThread(r, "create0", "parent")
             \/ CreateThread(r, "create1", "child")
             \/ \E k \in Kinds : Lock(<<r, k>>) \/ Load(<<r, k>>)
                                    \/ Store(<<r, k>>) \/ Unlock(<<r, k>>)
             \/ EndProcess(P(r), "killed")
             \/ \E how \in {"done", "killed"} : EndProcess(C(r), how)
      BY <1>0, <1>2, Steps
    <2>2. CASE \/ ShmGet(r) \/ ShmAt(r) \/ SemGet(r) \/ SetVal(r) \/ Join(r)
               \/ ShmDt(r) \/ RmSem(r) \/ RmShm(r) \/ Fork(r)
               \/ CreateThread(r, "create0", "parent")
               \/ CreateThread(r, "create1", "child")
      BY <2>2 DEF BinarySemaphore, ShmGet, ShmAt, SemGet, SetVal, Join, ShmDt, RmSem,
         RmShm, Fork, CreateThread, sem
    <2>3. ASSUME NEW k \in Kinds, Lock(<<r, k>>) \/ Load(<<r, k>>) \/ Store(<<r, k>>)
          PROVE  BinarySemaphore'
      BY <2>3 DEF BinarySemaphore, Lock, Load, Store, sem
    <2>4. ASSUME NEW k \in Kinds, Unlock(<<r, k>>)
          PROVE  BinarySemaphore'
      <3>1. pc[<<r, k>>] = "unlock" /\ Locked(r)
        BY <1>0, <2>4 DEF Unlock, TypeInv, Stages
      <3>2. InSection(<<r, k>>)
        BY <3>1 DEF InSection, Locked
      <3>3. semval = 0
        BY <1>0, <3>2 DEF Semaphore
      <3> QED
        BY <2>4, <3>3 DEF BinarySemaphore, Unlock
    <2>5. ASSUME NEW p \in {P(r), C(r)}, NEW how, EndProcess(p, how)
          PROVE  BinarySemaphore'
      <3>1. adj[p] \in {0, 1}
        BY <1>0 DEF Semaphore, P, C, Kinds
      <3>2. adj[p] = 1 => semval = 0
        <4>1. adj[p] = 1 => InSection(P(r)) \/ InSection(C(r))
          BY <1>0 DEF Semaphore
        <4> QED
          BY <1>0, <4>1 DEF Semaphore, P, C, Kinds
      <3> QED
        BY <2>5, <3>1, <3>2 DEF EndProcess, BinarySemaphore
    <2> QED
      BY <2>1, <2>2, <2>3, <2>4, <2>5
  <1> QED
    BY <1>1, <1>2

\* "binary semaphore" (10_shm_sysv_safe.c:126) is right of runs that do not
\* overlap: its SETVAL, the deaths and what earlier runs left never make the
\* value more than 1.  A run that starts beside another one breaks it.
THEOREM BinaryAlone == ASSUME ~Overlap PROVE Spec => []BinarySemaphore
  <1>1. Init => BinarySemaphore
    BY DEF Init, BinarySemaphore
  <1>2. Inv /\ BinarySemaphore /\ [Next]_vars => BinarySemaphore'
    BY BinaryStep
  <1> QED
    BY <1>1, <1>2, Invariance, PTL DEF Spec
===============================================================================
