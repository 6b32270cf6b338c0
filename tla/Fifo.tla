--------------------------------- MODULE Fifo ---------------------------------
(***************************************************************************)
(* 2_fifo.c: a writer replaces the FIFO "./fifofile", opens it, writes its *)
(* message and ends; a reader opens it, reads once and ends.               *)
(* A process executes do_write or do_read once.  A FIFO is named by the    *)
(* process that made it, a message by its writer.  The path names one FIFO *)
(* at most; a FIFO that lost the path lives on in those that have it open. *)
(* Names start with "Fifo" where another module has the same notion: the   *)
(* MC module extends several such modules.                                 *)
(***************************************************************************)
EXTENDS Integers, FiniteSets

CONSTANTS
    FifoWriters,    \* processes that execute do_write
    FifoReaders,    \* processes that execute do_read
    FifoMaxKills,   \* bound on killed processes
    NoFifo

FifoProcs == FifoWriters \union FifoReaders

ASSUME FifoAssumption ==
    /\ FifoWriters \cap FifoReaders = {}
    /\ NoFifo \notin FifoProcs
    /\ FifoMaxKills \in Nat

VARIABLES
    fifoPc,     \* the call each process is about to make, or is blocked in
    path,       \* the FIFO that FIFO_FILE names
    fifoFd,     \* the FIFO each process has open or is opening
    data,       \* the messages in each FIFO
    solo,       \* history: the writers no other writer was active beside
    wrote,      \* history: the writers whose write() returned
    fifoGot,    \* the messages each reader's read() returned
    fifoKills

fifoVars == <<fifoPc, path, fifoFd, data, solo, wrote, fifoGot, fifoKills>>

FifoInit ==
    /\ fifoPc = [p \in FifoProcs |-> IF p \in FifoWriters THEN "unlink" ELSE "open"]
    /\ path = NoFifo
    /\ fifoFd = [p \in FifoProcs |-> NoFifo]
    /\ data = [f \in FifoWriters |-> {}]
    /\ solo = {} /\ wrote = {}
    /\ fifoGot = [r \in FifoReaders |-> {}]
    /\ fifoKills = 0

FifoGoTo(p, call) == fifoPc' = [fifoPc EXCEPT ![p] = call]

FifoEnded(p) == fifoPc[p] \in {"done", "failed", "sigpipe", "killed"}
Active == {w \in FifoWriters : fifoPc[w] # "unlink" /\ ~FifoEnded(w)}

\* Mutant: the path is not unlinked first.
UnlinkDropped(w) ==
    /\ fifoPc[w] = "unlink"
    /\ solo' = IF Active = {} THEN solo \union {w} ELSE solo \ Active
    /\ FifoGoTo(w, "mkfifo")
    /\ UNCHANGED <<path, fifoFd, data, wrote, fifoGot, fifoKills>>

\* unlink(FIFO_FILE): whoever made it, and whoever is blocked on it.
Unlink(w) ==
    /\ fifoPc[w] = "unlink"
    /\ path' = NoFifo
    /\ solo' = IF Active = {} THEN solo \union {w} ELSE solo \ Active
    /\ FifoGoTo(w, "mkfifo")
    /\ UNCHANGED <<fifoFd, data, wrote, fifoGot, fifoKills>>

Mkfifo(w) ==
    /\ fifoPc[w] = "mkfifo"
    /\ path = NoFifo
    /\ path' = w
    /\ FifoGoTo(w, "open")
    /\ UNCHANGED <<fifoFd, data, solo, wrote, fifoGot, fifoKills>>

\* EEXIST: another writer made the FIFO after this one's unlink().
MkfifoFails(w) ==
    /\ fifoPc[w] = "mkfifo"
    /\ path # NoFifo
    /\ FifoGoTo(w, "failed")
    /\ UNCHANGED <<path, fifoFd, data, solo, wrote, fifoGot, fifoKills>>

\* The processes at the other end, and those of them that have FIFO f.
Across(p) == IF p \in FifoWriters THEN FifoReaders ELSE FifoWriters
Partners(p, f) == {q \in Across(p) : fifoFd[q] = f}
Transfer(p) == IF p \in FifoWriters THEN "write" ELSE "read"

\* Mutant: the other end is not woken.
FifoOpenUnheard(p) ==
    /\ fifoPc[p] = "open"
    /\ path # NoFifo
    /\ fifoFd' = [fifoFd EXCEPT ![p] = path]
    /\ FifoGoTo(p, IF Partners(p, path) = {} THEN "wait" ELSE Transfer(p))
    /\ UNCHANGED <<path, data, solo, wrote, fifoGot, fifoKills>>

\* open() blocks until somebody has the other end, and wakes those who wait
\* for this end.
FifoOpen(p) ==
    /\ fifoPc[p] = "open"
    /\ path # NoFifo
    /\ fifoFd' = [fifoFd EXCEPT ![p] = path]
    /\ LET met == Partners(p, path) IN
          fifoPc' = [q \in FifoProcs |->
                        IF q = p THEN IF met = {} THEN "wait" ELSE Transfer(p)
                        ELSE IF q \in met /\ fifoPc[q] = "wait" THEN Transfer(q)
                        ELSE fifoPc[q]]
    /\ UNCHANGED <<path, data, solo, wrote, fifoGot, fifoKills>>

\* ENOENT: no writer made the FIFO, or one unlinked it.
FifoOpenFails(p) ==
    /\ fifoPc[p] = "open"
    /\ path = NoFifo
    /\ FifoGoTo(p, "failed")
    /\ UNCHANGED <<path, fifoFd, data, solo, wrote, fifoGot, fifoKills>>

Write(w) ==
    /\ fifoPc[w] = "write"
    /\ Partners(w, fifoFd[w]) # {}
    /\ data' = [data EXCEPT ![fifoFd[w]] = @ \union {w}]
    /\ wrote' = wrote \union {w}
    /\ FifoGoTo(w, "close")
    /\ UNCHANGED <<path, fifoFd, solo, fifoGot, fifoKills>>

\* Mutant: the reader's own end keeps its FIFO open for writing, so that there
\* is no end of file.
ReadNoEof(r) ==
    /\ fifoPc[r] = "read"
    /\ data[fifoFd[r]] # {}
    /\ fifoGot' = [fifoGot EXCEPT ![r] = data[fifoFd[r]]]
    /\ data' = [data EXCEPT ![fifoFd[r]] = {}]
    /\ FifoGoTo(r, "close")
    /\ UNCHANGED <<path, fifoFd, solo, wrote, fifoKills>>

\* read() returns everything that was written, or nothing when no writer is
\* left, and blocks otherwise.
Read(r) ==
    /\ fifoPc[r] = "read"
    /\ data[fifoFd[r]] # {} \/ Partners(r, fifoFd[r]) = {}
    /\ fifoGot' = [fifoGot EXCEPT ![r] = data[fifoFd[r]]]
    /\ data' = [data EXCEPT ![fifoFd[r]] = {}]
    /\ FifoGoTo(r, "close")
    /\ UNCHANGED <<path, fifoFd, solo, wrote, fifoKills>>

\* Mutant: the data goes with the first descriptor that is closed.
LeaveDropsData(p) ==
    /\ fifoFd' = [fifoFd EXCEPT ![p] = NoFifo]
    /\ data' = [f \in FifoWriters |-> IF f = fifoFd[p] THEN {} ELSE data[f]]
    /\ UNCHANGED <<path, solo, wrote, fifoGot>>

\* A descriptor is closed; what is in a FIFO goes with the last one.
Leave(p) ==
    /\ fifoFd' = [fifoFd EXCEPT ![p] = NoFifo]
    /\ data' = [f \in FifoWriters |->
                   IF f = fifoFd[p] /\ \A q \in FifoProcs \ {p} : fifoFd[q] # f
                     THEN {} ELSE data[f]]
    /\ UNCHANGED <<path, solo, wrote, fifoGot>>

FifoClose(p) ==
    /\ fifoPc[p] = "close"
    /\ Leave(p)
    /\ FifoGoTo(p, "done")
    /\ UNCHANGED fifoKills

\* SIGPIPE ends a writer whose reader is gone.
BrokenPipe(w) ==
    /\ fifoPc[w] = "write"
    /\ Partners(w, fifoFd[w]) = {}
    /\ Leave(w)
    /\ FifoGoTo(w, "sigpipe")
    /\ UNCHANGED fifoKills

FifoKill(p) ==
    /\ ~FifoEnded(p)
    /\ fifoKills < FifoMaxKills
    /\ fifoKills' = fifoKills + 1
    /\ Leave(p)
    /\ FifoGoTo(p, "killed")

FifoStep(p) ==
    \/ FifoOpen(p) \/ FifoOpenFails(p) \/ FifoClose(p)
    \/ /\ p \in FifoWriters
       /\ Unlink(p) \/ Mkfifo(p) \/ MkfifoFails(p) \/ Write(p) \/ BrokenPipe(p)
    \/ p \in FifoReaders /\ Read(p)

FifoNext == \E p \in FifoProcs : FifoStep(p) \/ FifoKill(p)

FifoSpec == FifoInit /\ [][FifoNext]_fifoVars

-------------------------------------------------------------------------------
FifoTypeOK ==
    /\ fifoPc \in [FifoProcs -> {"unlink", "mkfifo", "open", "wait", "write", "read",
                                 "close", "done", "failed", "sigpipe", "killed"}]
    /\ path \in FifoWriters \union {NoFifo}
    /\ fifoFd \in [FifoProcs -> FifoWriters \union {NoFifo}]
    /\ data \in [FifoWriters -> SUBSET FifoWriters]
    /\ solo \subseteq FifoWriters /\ wrote \subseteq FifoWriters
    /\ fifoGot \in [FifoReaders -> SUBSET FifoWriters]
    /\ fifoKills \in 0..FifoMaxKills

\* A writer fails only when another writer was active beside it.  A reader is left
\* waiting on a FIFO that the path no longer names only when its writer had such a
\* rival or was gone: it came to the FIFO of an earlier run, and the next writer
\* replaced that.  (unlink(), mkfifo() and open() of do_write, open() of do_read)
Stranded(r) == fifoPc[r] = "wait" /\ fifoFd[r] # path
ObstructedByRival ==
    /\ \A w \in solo : fifoPc[w] # "failed"
    /\ \A r \in FifoReaders : Stranded(r) =>
          fifoFd[r] \notin solo \/ FifoEnded(fifoFd[r])

\* A message whose write() succeeded and that nobody will read was overtaken:
\* a reader ended with another writer's message, or a process was killed.
\* (write() and close() of do_write, the single read() of do_read)
Lost(w) ==
    /\ w \in wrote
    /\ \A f \in FifoWriters : w \notin data[f]
    /\ \A r \in FifoReaders : w \notin fifoGot[r]
LostToRival ==
    \A w \in FifoWriters : Lost(w) =>
        fifoKills > 0 \/ \E r \in FifoReaders : fifoGot[r] \ {w} # {}

\* Both are only a rival's, or a kill's, doing.
RivalToBlame == ObstructedByRival /\ LostToRival

\* Nobody is left inside read() or write(), and nobody waits in open() while the
\* other end of its FIFO is there: every process ends, or waits alone.
EndsOrWaitsAlone ==
    \A p \in FifoProcs :
        fifoFd[p] # NoFifo
          ~> FifoEnded(p) \/ (fifoPc[p] = "wait" /\ Partners(p, fifoFd[p]) = {})

\* A writer that waits on the FIFO that the path names is met by a reader that is
\* about to open the path, unless the path is taken from it.
WriterMet ==
    \A w \in FifoWriters, r \in FifoReaders :
        fifoPc[w] = "wait" /\ path = w /\ fifoFd[w] = w /\ fifoPc[r] = "open"
          ~> fifoPc[w] # "wait" \/ path # w \/ fifoPc[r] = "killed"
===============================================================================
