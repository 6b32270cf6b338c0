-------------------------------- MODULE Mapping --------------------------------
(***************************************************************************)
(* A struct {pid, counter} in shared memory that nothing protects:         *)
(*   9_file_mem_mapping.c  the file "shared_file", mapped by writers that  *)
(*                         update it 5 times and readers that read it 5    *)
(*                         times                                    "file" *)
(*   11_shm_posix.c        the object "/posixshm", once each         "shm" *)
(*   9_anony_mapping.c     an anonymous mapping, updated by the child and  *)
(*                         meant to be read by the parent           "anon" *)
(* A process executes do_write or do_read once.  Nothing removes the file  *)
(* or the object, so a process is a run on what earlier ones left.         *)
(***************************************************************************)
EXTENDS Integers, FiniteSets

CONSTANTS
    MapPrograms,    \* the programs, a subset of {"file", "shm", "anon"}
    MapWriters,
    MapReaders,
    Child,          \* the writer and the reader of 9_anony_mapping.c
    Parent,
    Rounds,         \* rounds of the loops over n: 5 in the code
    MapMaxFaults,    \* bound on failing calls and killed processes
    NoPid

MapProcs == MapWriters \union MapReaders

ASSUME MapAssumption ==
    /\ MapPrograms \subseteq {"file", "shm", "anon"}
    /\ MapWriters \cap MapReaders = {}
    /\ Child \in MapWriters /\ Parent \in MapReaders /\ NoPid \notin MapWriters
    /\ Rounds \in Nat \ {0} /\ MapMaxFaults \in Nat

VARIABLES
    mapProg,    \* the program the processes execute
    mapPc,      \* the step each process is about to make
    exists,     \* the file or the object is there
    sized,      \* it has its 8 bytes
    pid,        \* the two fields
    counter,
    loaded,     \* the value of counter each writer loaded
    n,          \* the rounds each process made
    added,      \* history: how often counter was stored
    together,   \* history: two writers had the struct mapped at the same time
    mapFaults

mapVars == <<mapProg, mapPc, exists, sized, pid, counter, loaded, n, added, together,
             mapFaults>>
fields == <<pid, counter, loaded, added>>

MapInit ==
    /\ mapProg \in MapPrograms
    /\ mapPc = [p \in MapProcs |-> IF mapProg # "anon" THEN "open"
                                   ELSE IF p = Parent THEN "mmap" ELSE "off"]
    /\ exists = FALSE /\ sized = FALSE
    /\ pid = NoPid /\ counter = 0
    /\ loaded = [w \in MapWriters |-> 0]
    /\ n = [p \in MapProcs |-> 0]
    /\ added = 0 /\ together = FALSE
    /\ mapFaults = 0

MapGoTo(p, step) == mapPc' = [mapPc EXCEPT ![p] = step]

\* do_mapping() and fork(): the child inherits the mapping, 8 bytes of zeros.
MapAnonymous ==
    /\ mapPc[Parent] = "mmap" /\ mapProg = "anon"
    /\ exists' = TRUE /\ sized' = TRUE
    /\ mapPc' = [mapPc EXCEPT ![Parent] = "read", ![Child] = "pid"]
    /\ UNCHANGED <<mapProg, fields, n, together, mapFaults>>

\* Mutant: a writer opens with O_TRUNC.
CreateTruncated(w) ==
    /\ mapPc[w] = "open"
    /\ exists' = TRUE /\ sized' = FALSE
    /\ counter' = 0 /\ pid' = NoPid
    /\ MapGoTo(w, "ftruncate")
    /\ UNCHANGED <<mapProg, loaded, added, n, together, mapFaults>>

\* open(O_RDWR | O_CREAT), shm_open(O_RDWR | O_CREAT): a new file is empty.
Create(w) ==
    /\ mapPc[w] = "open"
    /\ exists' = TRUE
    /\ MapGoTo(w, "ftruncate")
    /\ UNCHANGED <<mapProg, sized, fields, n, together, mapFaults>>

\* ftruncate(fd, 8): the bytes of a new file are 0, those of an old one stay.
Ftruncate(w) ==
    /\ mapPc[w] = "ftruncate"
    /\ sized' = TRUE
    /\ MapGoTo(w, "mmap")
    /\ UNCHANGED <<mapProg, exists, fields, n, together, mapFaults>>

Mapped(p) == mapPc[p] \in {"pid", "load", "store", "munmap"}

MmapWrite(w) ==
    /\ mapPc[w] = "mmap"
    /\ together' = (together \/ \E v \in MapWriters : Mapped(v))
    /\ MapGoTo(w, "pid")
    /\ UNCHANGED <<mapProg, exists, sized, fields, n, mapFaults>>

\* SIGBUS: the page of the struct lies behind the end of the file.
Fault(p) ==
    /\ mapPc[p] \in {"pid", "load", "store"} \/ (mapPc[p] = "read" /\ mapProg # "anon")
    /\ ~sized
    /\ MapGoTo(p, "sigbus")
    /\ UNCHANGED <<mapProg, exists, sized, fields, n, together, mapFaults>>

\* info->pid = getpid()
StorePid(w) ==
    /\ mapPc[w] = "pid" /\ sized
    /\ pid' = w
    /\ MapGoTo(w, "load")
    /\ UNCHANGED <<mapProg, exists, sized, counter, loaded, added, n, together, mapFaults>>

\* info->counter++ is a load and a store.
LoadCounter(w) ==
    /\ mapPc[w] = "load" /\ sized
    /\ loaded' = [loaded EXCEPT ![w] = counter]
    /\ MapGoTo(w, "store")
    /\ UNCHANGED <<mapProg, exists, sized, pid, counter, added, n, together, mapFaults>>

\* Mutant: the loop runs while n <= 5.
LastLate(p) == n[p] = IF mapProg = "shm" THEN 0 ELSE Rounds

\* The loop runs from n = 0 while n < 5; 11_shm_posix.c has none.
Last(p) == n[p] + 1 = IF mapProg = "shm" THEN 1 ELSE Rounds

StoreCounter(w) ==
    /\ mapPc[w] = "store" /\ sized
    /\ counter' = loaded[w] + 1
    /\ added' = added + 1
    /\ n' = [n EXCEPT ![w] = @ + 1]
    /\ MapGoTo(w, IF Last(w) THEN "munmap" ELSE "pid")
    /\ UNCHANGED <<mapProg, exists, sized, pid, loaded, together, mapFaults>>

\* open(O_RDONLY) finds the file, or fails with ENOENT.
OpenReader(r) ==
    /\ mapPc[r] = "open"
    /\ MapGoTo(r, IF exists THEN "mmap" ELSE "failed")
    /\ UNCHANGED <<mapProg, exists, sized, fields, n, together, mapFaults>>

\* An empty file can be mapped too.
MmapRead(r) ==
    /\ mapPc[r] = "mmap" /\ mapProg # "anon"
    /\ MapGoTo(r, "read")
    /\ UNCHANGED <<mapProg, exists, sized, fields, n, together, mapFaults>>

\* A round of the reader's loop.
ReadFields(r) ==
    /\ mapPc[r] = "read" /\ mapProg # "anon" /\ sized
    /\ n' = [n EXCEPT ![r] = @ + 1]
    /\ MapGoTo(r, IF Last(r) THEN "munmap" ELSE "read")
    /\ UNCHANGED <<mapProg, exists, sized, fields, together, mapFaults>>

\* The loop of 9_anony_mapping.c asks for n > 5 and n is 0.
SkipLoop(r) ==
    /\ mapPc[r] = "read" /\ mapProg = "anon"
    /\ MapGoTo(r, "munmap")
    /\ UNCHANGED <<mapProg, exists, sized, fields, n, together, mapFaults>>

\* munmap() and return; the parent of 9_anony_mapping.c does not wait.
Munmap(p) ==
    /\ mapPc[p] = "munmap"
    /\ MapGoTo(p, "done")
    /\ UNCHANGED <<mapProg, exists, sized, fields, n, together, mapFaults>>

MapEnded(p) == mapPc[p] \in {"done", "failed", "sigbus", "killed"}

\* The error paths of open(), ftruncate(), mmap() and fork().
MapFails(p) ==
    /\ mapPc[p] \in {"open", "ftruncate", "mmap"}
    /\ mapFaults < MapMaxFaults
    /\ mapFaults' = mapFaults + 1
    /\ MapGoTo(p, "failed")
    /\ UNCHANGED <<mapProg, exists, sized, fields, n, together>>

MapKill(p) ==
    /\ mapPc[p] # "off" /\ ~MapEnded(p)
    /\ mapFaults < MapMaxFaults
    /\ mapFaults' = mapFaults + 1
    /\ MapGoTo(p, "killed")
    /\ UNCHANGED <<mapProg, exists, sized, fields, n, together>>

WriterStep(w) ==
    \/ Create(w) \/ Ftruncate(w) \/ MmapWrite(w)
    \/ StorePid(w) \/ LoadCounter(w) \/ StoreCounter(w)
ReaderStep(r) == OpenReader(r) \/ MmapRead(r) \/ ReadFields(r) \/ SkipLoop(r)

MapStep(p) ==
    \/ p \in MapWriters /\ WriterStep(p)
    \/ p \in MapReaders /\ ReaderStep(p)
    \/ Fault(p) \/ Munmap(p)
    \/ p = Parent /\ MapAnonymous

MapNext == \E p \in MapProcs : MapStep(p) \/ MapFails(p) \/ MapKill(p)

MapSpec == MapInit /\ [][MapNext]_mapVars

-------------------------------------------------------------------------------
MapTypeOK ==
    /\ mapProg \in MapPrograms
    /\ mapPc \in [MapProcs -> {"off", "open", "ftruncate", "mmap", "pid", "load", "store",
                               "read", "munmap", "done", "failed", "sigbus", "killed"}]
    /\ exists \in BOOLEAN /\ sized \in BOOLEAN
    /\ pid \in MapWriters \union {NoPid}
    /\ counter \in Nat /\ added \in Nat
    /\ loaded \in [MapWriters -> Nat]
    /\ n \in [MapProcs -> 0..Rounds]
    /\ together \in BOOLEAN
    /\ mapFaults \in 0..MapMaxFaults

\* The counter never runs ahead of the updates, and unless two writers had it
\* mapped at the same time it is exact, over all runs and at every kill.  Even
\* writers that all run together leave at least two updates of all they made.
\* (info->counter++ of the three programs)
CounterBounds ==
    /\ counter <= added
    /\ ~together => counter = added
    /\ (\A w \in MapWriters : mapPc[w] = "done") =>
          counter >= IF mapProg = "shm" \/ Rounds = 1 THEN 1 ELSE 2

\* A writer never meets SIGBUS, whoever opens or resizes the file beside it, and a
\* reader only before the first writer's ftruncate().  (the order of open(),
\* ftruncate() and mmap() in do_write)
WritersKeepFile ==
    \A w \in MapWriters : mapPc[w] # "sigbus" /\ (Mapped(w) => exists /\ sized)

\* Who shares a mapping finds it whole and counts without gaining.
MappingRight == CounterBounds /\ WritersKeepFile

\* Everybody who has the struct mapped comes to an end, the child of
\* 9_anony_mapping.c also after its parent ended.
MapEnds == \A p \in MapProcs : Mapped(p) \/ mapPc[p] = "read" ~> MapEnded(p)

\* 9_anony_mapping.c:68, "fork() -> child: write(), parent: read": a parent that
\* ends regularly has read the struct.
ParentReads == mapPc[Parent] = "done" => n[Parent] > 0
===============================================================================
