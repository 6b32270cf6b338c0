----------------------------- MODULE MappingProofs -----------------------------
(***************************************************************************)
(* Proofs about Mapping: any number of writers and readers, any number of  *)
(* rounds, failing calls and kills.                                        *)
(***************************************************************************)
EXTENDS Mapping, TLAPS

Goal == IF mapProg = "shm" THEN 1 ELSE Rounds

\* Who makes which steps; 9_anony_mapping.c has one writer.
Roles ==
    /\ \A w \in MapWriters : mapPc[w] # "read"
    /\ mapProg = "anon" => \A p \in MapProcs : mapPc[p] # "open"
    /\ mapProg = "anon" => \A w \in MapWriters :
          /\ w # Child => mapPc[w] = "off"
          /\ mapPc[w] \notin {"open", "ftruncate", "mmap"}
          /\ mapPc[Parent] = "mmap" => mapPc[w] = "off"

\* A file that a writer has opened is there, and sized once it was truncated.
Sized ==
    \A w \in MapWriters :
        /\ mapPc[w] = "ftruncate" => exists
        /\ mapPc[w] \in {"mmap", "pid", "load", "store", "munmap"} => exists /\ sized
        /\ mapPc[w] # "sigbus"

\* The rounds each process has made.
Counted ==
    \A p \in MapProcs :
        /\ mapPc[p] \in {"off", "open", "ftruncate", "mmap"} => n[p] = 0
        /\ mapPc[p] \in {"pid", "load", "store", "read"} => n[p] < Goal
        /\ p \in MapWriters /\ mapPc[p] \in {"munmap", "done"} => n[p] = Goal
        /\ n[p] <= Goal

\* A single writer works on the counter as it is.
Exact ==
    /\ counter <= added
    /\ \A w \in MapWriters : mapPc[w] = "store" => loaded[w] <= added
    /\ ~together =>
         /\ counter = added
         /\ \A w \in MapWriters : mapPc[w] = "store" => loaded[w] = counter
         /\ \A v, w \in MapWriters : Mapped(v) /\ Mapped(w) => v = w

\* After its first round a writer loads at least 1, and the last store of all is
\* that of a last round.
Rising ==
    \A w \in MapWriters :
        /\ n[w] > 0 => counter > 0
        /\ n[w] > 0 /\ mapPc[w] = "store" => loaded[w] > 0
LastIsTwo ==
    Goal > 1 /\ (\A w \in MapWriters : n[w] = Goal) => counter > 1

MapInv == MapTypeOK /\ Roles /\ Sized /\ Counted /\ Exact /\ Rising /\ LastIsTwo

LEMMA MapInvInit == MapInit => MapInv
  <1> SUFFICES ASSUME MapInit PROVE MapInv
    OBVIOUS
  <1>1. MapTypeOK
    <2>1. mapPc \in [MapProcs -> {"off", "open", "mmap"}]
      BY DEF MapInit
    <2>2. n \in [MapProcs -> 0..Rounds] /\ mapFaults \in 0..MapMaxFaults
      BY MapAssumption DEF MapInit
    <2> QED
      BY <2>1, <2>2 DEF MapInit, MapTypeOK
  <1>2. Goal > 0 /\ Goal \in Nat
    BY MapAssumption DEF Goal, MapInit
  <1>3. Roles /\ Sized
    <2>1. Parent \in MapProcs /\ \A w \in MapWriters : w \in MapProcs /\ w # Parent
      BY MapAssumption DEF MapProcs
    <2> QED
      BY <2>1 DEF MapInit, Roles, Sized
  <1>3a. Counted
    <2>1. \A p \in MapProcs : n[p] = 0 /\ mapPc[p] \in {"off", "open", "mmap"}
      BY DEF MapInit
    <2> QED
      BY <1>2, <2>1 DEF Counted
  <1>4. Exact /\ Rising
    BY MapAssumption DEF MapInit, Exact, Rising, Mapped, MapProcs
  <1>5. LastIsTwo
    BY MapAssumption DEF MapInit, LastIsTwo, MapProcs
  <1> QED
    BY <1>1, <1>3, <1>3a, <1>4, <1>5 DEF MapInv

LEMMA MapAnonymousKeeps == ASSUME MapInv, MapAnonymous PROVE MapInv'
  <1>0. /\ MapTypeOK /\ Roles /\ Sized /\ Counted /\ Exact /\ Rising /\ LastIsTwo
        /\ Child \in MapWriters /\ Parent \in MapReaders /\ Parent \notin MapWriters
        /\ Child \in MapProcs /\ Parent \in MapProcs
    BY MapAssumption DEF MapInv, MapProcs
  <1>1. /\ mapPc[Parent] = "mmap" /\ mapProg = "anon" /\ exists' = TRUE /\ sized' = TRUE
        /\ mapPc' = [mapPc EXCEPT ![Parent] = "read", ![Child] = "pid"]
        /\ UNCHANGED <<mapProg, pid, counter, loaded, added, n, together, mapFaults>>
    BY DEF MapAnonymous, fields
  <1>2. Goal' = Goal /\ Goal > 0
    BY <1>1, MapAssumption DEF Goal
  <1>3. MapTypeOK'
    BY <1>0, <1>1 DEF MapTypeOK
  <1>4. Roles' /\ Sized'
    BY <1>0, <1>1 DEF MapTypeOK, Roles, Sized, MapProcs
  <1>5. Counted'
    BY <1>0, <1>1, <1>2 DEF MapTypeOK, Roles, Counted
  <1>6. Exact' /\ Rising'
    BY <1>0, <1>1 DEF MapTypeOK, Roles, Exact, Rising, Mapped, MapProcs
  <1>7. LastIsTwo'
    BY <1>0, <1>1, <1>2 DEF LastIsTwo
  <1> QED
    BY <1>3, <1>4, <1>5, <1>6, <1>7 DEF MapInv

\* The calls before a writer has mapped the struct.
LEMMA OpeningKeeps ==
    ASSUME MapInv, NEW w \in MapWriters, Create(w) \/ Ftruncate(w) \/ MmapWrite(w)
    PROVE  MapInv'
  <1>0. /\ MapTypeOK /\ Roles /\ Sized /\ Counted /\ Exact /\ Rising /\ LastIsTwo
        /\ w \in MapProcs
    BY DEF MapInv, MapProcs
  <1>1. /\ UNCHANGED <<mapProg, pid, counter, loaded, added, n, mapFaults>>
        /\ \/ /\ mapPc[w] = "open" /\ mapPc' = [mapPc EXCEPT ![w] = "ftruncate"]
              /\ exists' = TRUE /\ sized' = sized /\ together' = together
           \/ /\ mapPc[w] = "ftruncate" /\ mapPc' = [mapPc EXCEPT ![w] = "mmap"]
              /\ exists' = exists /\ sized' = TRUE /\ together' = together
           \/ /\ mapPc[w] = "mmap" /\ mapPc' = [mapPc EXCEPT ![w] = "pid"]
              /\ UNCHANGED <<exists, sized>>
              /\ together' = (together \/ \E v \in MapWriters : Mapped(v))
    BY DEF Create, Ftruncate, MmapWrite, MapGoTo, fields
  <1>2. Goal' = Goal /\ Goal > 0
    BY <1>1, MapAssumption DEF Goal
  <1>3. MapTypeOK'
    BY <1>0, <1>1 DEF MapTypeOK, Create, Ftruncate, MmapWrite
  <1>4. Roles'
    BY <1>0, <1>1, MapAssumption DEF MapTypeOK, Roles, MapProcs
  <1>5. Sized'
    BY <1>0, <1>1 DEF MapTypeOK, Sized, MapProcs
  <1>6. Counted'
    BY <1>0, <1>1, <1>2 DEF MapTypeOK, Counted
  <1>7. Exact'
    BY <1>0, <1>1 DEF MapTypeOK, Exact, Mapped, MapProcs
  <1>8. Rising' /\ LastIsTwo'
    BY <1>0, <1>1, <1>2 DEF MapTypeOK, Rising, LastIsTwo, MapProcs
  <1> QED
    BY <1>3, <1>4, <1>5, <1>6, <1>7, <1>8 DEF MapInv

LEMMA LoadingKeeps ==
    ASSUME MapInv, NEW w \in MapWriters, StorePid(w) \/ LoadCounter(w)
    PROVE  MapInv'
  <1>0. /\ MapTypeOK /\ Roles /\ Sized /\ Counted /\ Exact /\ Rising /\ LastIsTwo
        /\ w \in MapProcs
    BY DEF MapInv, MapProcs
  <1>1. /\ UNCHANGED <<mapProg, exists, sized, counter, added, n, together, mapFaults>>
        /\ \/ /\ mapPc[w] = "pid" /\ mapPc' = [mapPc EXCEPT ![w] = "load"]
              /\ pid' = w /\ loaded' = loaded
           \/ /\ mapPc[w] = "load" /\ mapPc' = [mapPc EXCEPT ![w] = "store"]
              /\ pid' = pid /\ loaded' = [loaded EXCEPT ![w] = counter]
    BY DEF StorePid, LoadCounter, MapGoTo
  <1>2. Goal' = Goal /\ Goal > 0
    BY <1>1, MapAssumption DEF Goal
  <1>3. MapTypeOK'
    BY <1>0, <1>1 DEF MapTypeOK
  <1>4. Roles' /\ Sized'
    BY <1>0, <1>1, MapAssumption DEF MapTypeOK, Roles, Sized, MapProcs
  <1>5. Counted'
    BY <1>0, <1>1, <1>2 DEF MapTypeOK, Counted
  <1>6. Exact'
    BY <1>0, <1>1 DEF MapTypeOK, Exact, Mapped, MapProcs
  <1>7. Rising' /\ LastIsTwo'
    BY <1>0, <1>1, <1>2 DEF MapTypeOK, Rising, LastIsTwo, MapProcs
  <1> QED
    BY <1>3, <1>4, <1>5, <1>6, <1>7 DEF MapInv

\* The store: what was loaded is not above the updates, and is the counter when
\* nobody else has the struct; and in the last of several rounds it is not 0.
LEMMA StoreCounterKeeps ==
    ASSUME MapInv, NEW w \in MapWriters, StoreCounter(w) PROVE MapInv'
  <1>0. /\ MapTypeOK /\ Roles /\ Sized /\ Counted /\ Exact /\ Rising /\ LastIsTwo
        /\ w \in MapProcs
    BY DEF MapInv, MapProcs
  <1>1. /\ mapPc[w] = "store" /\ counter' = loaded[w] + 1 /\ added' = added + 1
        /\ n' = [n EXCEPT ![w] = n[w] + 1]
        /\ mapPc' = [mapPc EXCEPT ![w] = IF n[w] + 1 = Goal THEN "munmap" ELSE "pid"]
        /\ UNCHANGED <<mapProg, exists, sized, pid, loaded, together, mapFaults>>
    BY DEF StoreCounter, MapGoTo, Last, Goal
  <1>2. Goal' = Goal /\ Goal > 0 /\ Goal <= Rounds /\ Goal \in Nat /\ Rounds \in Nat
    BY <1>1, MapAssumption DEF Goal
  <1>3. n[w] < Goal /\ n[w] \in Nat /\ loaded[w] \in Nat /\ added \in Nat
    BY <1>0, <1>1, <1>2 DEF Counted, MapTypeOK
  <1>4. MapTypeOK'
    BY <1>0, <1>1, <1>2, <1>3 DEF MapTypeOK
  <1>5. Roles' /\ Sized'
    BY <1>0, <1>1, MapAssumption DEF MapTypeOK, Roles, Sized, MapProcs
  <1>6. Counted'
    BY <1>0, <1>1, <1>2, <1>3 DEF MapTypeOK, Counted
  <1>7. Exact'
    BY <1>0, <1>1, <1>3 DEF MapTypeOK, Exact, Mapped, MapProcs
  <1>8. Rising'
    BY <1>0, <1>1, <1>3 DEF MapTypeOK, Rising, MapProcs
  <1>9. LastIsTwo'
    <2> SUFFICES ASSUME Goal > 1, \A v \in MapWriters : n'[v] = Goal PROVE counter' > 1
      BY <1>2 DEF LastIsTwo
    <2>1. n[w] + 1 = Goal
      BY <1>0, <1>1 DEF MapTypeOK
    <2> QED
      BY <1>0, <1>1, <1>2, <1>3, <2>1 DEF Rising
  <1> QED
    BY <1>4, <1>5, <1>6, <1>7, <1>8, <1>9 DEF MapInv

\* A reader changes nothing but its own place.
LEMMA ReaderKeeps == ASSUME MapInv, NEW r \in MapReaders, ReaderStep(r) PROVE MapInv'
  <1>0. /\ MapTypeOK /\ Roles /\ Sized /\ Counted /\ Exact /\ Rising /\ LastIsTwo
        /\ r \in MapProcs /\ r \notin MapWriters
    BY MapAssumption DEF MapInv, MapProcs
  <1>1. /\ UNCHANGED <<mapProg, exists, sized, pid, counter, loaded, added, together, mapFaults>>
        /\ \/ /\ mapPc[r] \in {"open", "mmap", "read"} /\ n' = n
              /\ \/ mapPc[r] = "open" /\ mapPc' = [mapPc EXCEPT ![r] = "mmap"]
                 \/ mapPc[r] = "open" /\ mapPc' = [mapPc EXCEPT ![r] = "failed"]
                 \/ mapPc[r] = "mmap" /\ mapProg # "anon" /\ mapPc' = [mapPc EXCEPT ![r] = "read"]
                 \/ mapPc[r] = "read" /\ mapPc' = [mapPc EXCEPT ![r] = "munmap"]
           \/ /\ mapPc[r] = "read" /\ n' = [n EXCEPT ![r] = n[r] + 1]
              /\ mapPc' = [mapPc EXCEPT ![r] = IF n[r] + 1 = Goal THEN "munmap" ELSE "read"]
    BY DEF ReaderStep, OpenReader, MmapRead, ReadFields, SkipLoop, MapGoTo, Last, Goal, fields
  <1>2. Goal' = Goal /\ Goal > 0 /\ Goal <= Rounds /\ Goal \in Nat /\ Rounds \in Nat
    BY <1>1, MapAssumption DEF Goal
  <1>3. n[r] \in Nat
    BY <1>0, <1>2 DEF MapTypeOK
  <1>4. MapTypeOK'
    BY <1>0, <1>1, <1>2, <1>3 DEF MapTypeOK, Counted
  <1>5. Roles'
    BY <1>0, <1>1, MapAssumption DEF MapTypeOK, Roles, MapProcs
  <1>6. Sized' /\ Exact' /\ Rising' /\ LastIsTwo'
    <2>1. \A w \in MapWriters : mapPc'[w] = mapPc[w] /\ n'[w] = n[w]
      BY <1>0, <1>1 DEF MapTypeOK, MapProcs
    <2> QED
      BY <1>0, <1>1, <1>2, <2>1 DEF Sized, Exact, Rising, LastIsTwo, Mapped
  <1>7. Counted'
    BY <1>0, <1>1, <1>2, <1>3 DEF MapTypeOK, Counted
  <1> QED
    BY <1>4, <1>5, <1>6, <1>7 DEF MapInv

\* Whoever ends, regularly or not, leaves the struct as it is.
LEMMA EndingKeeps ==
    ASSUME MapInv, NEW p \in MapProcs, Munmap(p) \/ Fault(p) \/ MapFails(p) \/ MapKill(p)
    PROVE  MapInv'
  <1>0. MapTypeOK /\ Roles /\ Sized /\ Counted /\ Exact /\ Rising /\ LastIsTwo
    BY DEF MapInv
  <1>1. PICK end \in {"done", "sigbus", "failed", "killed"} :
            /\ mapPc' = [mapPc EXCEPT ![p] = end]
            /\ UNCHANGED <<mapProg, exists, sized, pid, counter, loaded, added, n, together>>
            /\ mapPc[p] # "off"
            /\ end = "done" => mapPc[p] = "munmap"
            /\ end = "sigbus" => mapPc[p] \in {"pid", "load", "store", "read"} /\ ~sized
            /\ mapFaults' = mapFaults \/ (mapFaults < MapMaxFaults /\ mapFaults' = mapFaults + 1)
    BY DEF Munmap, Fault, MapFails, MapKill, MapGoTo, fields
  <1>2. Goal' = Goal /\ Goal > 0
    BY <1>1, MapAssumption DEF Goal
  <1>3. MapTypeOK'
    BY <1>0, <1>1, MapAssumption DEF MapTypeOK
  <1>4. ~(p \in MapWriters /\ end = "sigbus")
    BY <1>0, <1>1 DEF Sized, Roles
  <1>5. Roles' /\ Sized'
    BY <1>0, <1>1, <1>4, MapAssumption DEF MapTypeOK, Roles, Sized, MapProcs
  <1>6. Counted'
    BY <1>0, <1>1, <1>2 DEF MapTypeOK, Counted
  <1>7. Exact' /\ Rising' /\ LastIsTwo'
    BY <1>0, <1>1, <1>2 DEF MapTypeOK, Exact, Rising, LastIsTwo, Mapped, MapProcs
  <1> QED
    BY <1>3, <1>5, <1>6, <1>7 DEF MapInv

LEMMA MapInvNext == MapInv /\ [MapNext]_mapVars => MapInv'
  <1> SUFFICES ASSUME MapInv, [MapNext]_mapVars PROVE MapInv'
    OBVIOUS
  <1>1. CASE UNCHANGED mapVars
    BY <1>1 DEF mapVars, MapInv, MapTypeOK, Roles, Sized, Counted, Exact, Rising, LastIsTwo,
                Goal, Mapped
  <1>2. CASE MapNext
    <2>1. PICK p \in MapProcs : MapStep(p) \/ MapFails(p) \/ MapKill(p)
      BY <1>2 DEF MapNext
    <2> QED
      BY <2>1, MapAnonymousKeeps, OpeningKeeps, LoadingKeeps, StoreCounterKeeps, ReaderKeeps,
         EndingKeeps DEF MapStep, WriterStep
  <1> QED
    BY <1>1, <1>2

\* What every reachable state satisfies.
THEOREM MapInvariant == MapSpec => []MapInv
  <1> QED
    BY MapInvInit, MapInvNext, PTL DEF MapSpec

\* Every variable of Mapping keeps its type.
THEOREM MapTypeCorrect == MapSpec => []MapTypeOK
  <1>1. MapInv => MapTypeOK
    BY DEF MapInv
  <1> QED
    BY <1>1, MapInvariant, PTL

\* The counter is exact unless two writers had it mapped together, never runs
\* ahead, and ends at 2 at least; no writer meets SIGBUS.
THEOREM MappingIsRight == MapSpec => []MappingRight
  <1>1. MapInv => MappingRight
    <2> SUFFICES ASSUME MapInv PROVE CounterBounds /\ WritersKeepFile
      BY DEF MappingRight
    <2>0. MapTypeOK /\ Sized /\ Counted /\ Exact /\ Rising /\ LastIsTwo
      BY DEF MapInv
    <2>1. WritersKeepFile
      BY <2>0 DEF Sized, WritersKeepFile, Mapped
    <2>2. ASSUME \A w \in MapWriters : mapPc[w] = "done"
          PROVE  counter >= IF mapProg = "shm" \/ Rounds = 1 THEN 1 ELSE 2
      <3>1. \A w \in MapWriters : n[w] = Goal
        BY <2>0, <2>2 DEF Counted, MapProcs
      <3>2. Goal > 0 /\ counter \in Nat /\ (~(mapProg = "shm" \/ Rounds = 1) => Goal > 1)
        BY <2>0, MapAssumption DEF Goal, MapTypeOK
      <3>3. counter > 0
        BY <2>0, <3>1, <3>2, MapAssumption DEF Rising
      <3> QED
        BY <2>0, <3>1, <3>2, <3>3 DEF LastIsTwo
    <2>3. CounterBounds
      BY <2>0, <2>2 DEF Exact, CounterBounds
    <2> QED
      BY <2>1, <2>3
  <1> QED
    BY <1>1, MapInvariant, PTL
===============================================================================
