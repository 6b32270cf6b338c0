# linux_sys_prog: models, checks and proofs

The repository is a course of small Linux programs in C. Each program is a few
system calls long; what makes them worth modelling is that most of them exist to be
run several at a time: two processes and a shared counter, senders and receivers and a
program that removes their queue, servers and clients that meet at a path. Those
compositions, with the kernel object in the middle and with processes that fail or are
killed half way, are what is modelled here. The kernel's part of a call (what
`mq_send` does at a full queue, what `SEM_UNDO` does at exit) is modelled as the code
uses it; everything else is translated from the C source.

- [1. Inventory](#1-inventory)
- [2. Modules](#2-modules)
- [3. Runs](#3-runs)
- [4. Fairness](#4-fairness)
- [5. Proofs](#5-proofs)
- [6. Findings](#6-findings)
- [7. Not modelled](#7-not-modelled)
- [8. Plan](#8-plan)

To check a run: `tlc -workers 2 -config <cfg> <module>`; to check the proofs:
`tlapm <module>Proofs.tla`, eight modules in all.

## 1. Inventory

Sources are under `src/`. "Modelled" means every operation of the part that changes
state is an action of the module.

| Part | Sources | State it keeps | Operations | Module |
|---|---|---|---|---|
| System V shared counter | `10_shm_sysv_unsafe.c`, `10_shm_sysv_safe.c`, `10_shm_sysv_safe_thread.c` | segment and semaphore set of a key, counter, semaphore value, undo adjustments | get, attach, set, fork or create threads, lock, load, store, unlock, wait or join, detach, remove | `ShmCounter` |
| POSIX message queue | `4_mq_posix.c`, `5_mq_posix_priority.c`, `6_mq_posix_remove.c` | the name, queues with a capacity and priorities, descriptors | open, send, receive, close, unlink | `PosixMq` |
| Datagram sockets | `8_socket_dgram2.c`, `8_socket_dgram.c` | two paths, sockets, receive queues | unlink, bind, sendto, recvfrom, close | `Dgram` |
| Stream sockets | `7_socket_stream.c`, `7_socket_stream_inet.c` | a path or a port, backlogs, connections | unlink, bind, listen, accept, connect, send, recv, close | `Stream` |
| Named pipe | `2_fifo.c` | the path, the pipe's inode, its ends and bytes | unlink, mkfifo, open, write, read, close | `Fifo` |
| System V message queue | `3_mq_sysv.c` | the queue of a key | msgget, msgsnd, msgrcv | `SysvMq` |
| File lock | `11_file_lock.c` | holders of a `flock` | open, shared, exclusive, unlock, close | `FileLock` |
| Thread counter | `18_thread_unsafe.c`, `19_thread_safe.c` | a global counter and a mutex | create, lock, load, store, unlock, join | `Threads` |
| Thread lifetimes | `16_thread_test.c`, `17_thread_join.c` | a global and two threads | create, sleep, join, exit | `Threads` |
| Shared mappings | `9_anony_mapping.c`, `9_file_mem_mapping.c`, `11_shm_posix.c` | a shared `{pid, counter}` | open, truncate, map, write both fields, read, unmap | `Mapping` |
| Anonymous pipe and process tree | `1_pipe.c`, `12_fork_test.c` to `15_fork_exec_wait.c` | parents, children, exit statuses, a pipe | fork, exec, wait, pipe, read, write, close | `ProcessTree` |
| Signals | `20_signal.c` to `23_signal_recv.c` | dispositions, pending signals | signal, sigaction, kill, sigqueue, handler | `Signals` |
| Files across runs | `1_file_text_high.c` to `7_file_link.c` | contents and links that a run leaves to the next | open, write, read, seek, append, link, symlink | `Files` |
| Read-only file programs | `8_file_stat.c`, `9_read_dir.c`, `10_mmap_test.c` | none | stat, readdir, map for reading | no |

**How they interact.** Programs interact through a kernel object that has a name
outside any process: an IPC key, a queue name, a path, a port. None of them asks
whether the object is in use. The System V programs take what the key names and reset
it; the servers unlink the path first, whoever it belongs to; the message queue
programs share it; `6_mq_posix_remove.c` takes it away. So the interesting state is
always the pair "what the name means now" and "what each process obtained earlier",
and the interesting steps are those that change one and not the other.

**What is hard.** Per part, with the lines in `PROJECT.json` under `hazards`:

- *Shared counter.* `info->counter++` is a load and a store. A worker killed inside
  the section leaves the semaphore to `SEM_UNDO`. The threads share one adjustment.
  `semctl(SETVAL, 1)` resets a semaphore somebody may hold and clears all adjustments.
  The removal may find other users. `do_add` and `do_sub` ignore what `semop` returns.
  *Correct* means: exclusion, no update lost, what was taken is given back, nobody
  waits for a semaphore that nobody has.
- *POSIX queue.* Removal leaves processes on a queue without a name while a new one
  gets it. Blocking at both limits. A priority is a `strtoul` cut to an `unsigned int`
  and must be below `MQ_PRIO_MAX`. *Correct* means: every message received once, or
  waiting, or gone with its queue; the order of the numbers the users gave, as far as an
  `unsigned int` holds them, and oldest first within one; no lost wake-up.
- *Datagram sockets.* All clients bind the same path, which also is the return
  address. Servers take the path from each other, and a path outlives its socket. A
  receive queue may be full. *Correct* means: a reply only ever strays in one
  direction, whoever waits in vain has a rival, everybody else ends.
- *Stream sockets.* A server accepts one connection and ends, resetting the queued
  ones. The end of a connection is not treated as an error, so a program can report
  success after receiving nothing. *Correct* means: resets have a cause, success
  means an exchange, one listener per port, every client ends.
- *Named pipe.* A writer replaces the path an earlier reader is blocked on, and a
  second writer replaces, or fails at, the first one's. `open` waits for the other end.
  *Correct* means: only a rival, or a kill, obstructs a writer, strands a reader or
  loses what was written; nobody waits while the other end is there.
- *System V queue.* Nothing removes it, so a run meets the messages of earlier ones, and
  a queue they filled. *Correct* means: first in, first out, across all runs and kills;
  a mailbox that drops nothing; whoever is left blocked has nobody to wait for.
- *File lock.* Shared and exclusive holders, a holder that is killed and started again.
  *Correct* means: the exclusive one is alone; nobody waits but behind a holder whose
  user presses no key.
- *Threads.* `shared++` of two threads; `sleep(12)` standing for a join; a thread that
  dies with its process. *Correct* means: the mutex makes the result 0, its absence a
  bounded error; `main` returns last.
- *Shared mappings.* `counter++` of several processes, two fields, a file that is mapped
  before it was given a length. *Correct* means: exact unless writers overlap, never
  more than the updates, never fewer than two of them; no writer meets SIGBUS.
- *Process tree.* The last write end of a pipe, which child and parent both inherit; a
  child that ends before or after its parent looks; zombies. *Correct* means: `wait`
  tells the truth, and end of file means a killed parent.
- *Signals.* They arrive before the handler is set, while it runs, or coalesce.
  *Correct* means: a handler reports what was sent, in that order; after it is set its
  signal is not fatal and is always followed by a call.
- *Files across runs.* Files that are overwritten without being truncated, a stream that
  is written only by `fclose`, an append at the end the file had, writes that are short
  and programs that mostly do not look (`4_file_binary_low.c` does). *Correct* means: the
  text stays in front as far as it was written; what was appended stays where `O_APPEND`
  is used, and elsewhere is overwritten only by a run that could not know of it; a run of
  `7_file_link.c` that returns 0 has made both links.

## 2. Modules

| Module | What it is |
|---|---|
| `GuardedCounter` | abstract: a counter with one owner whose updates are atomic; what the semaphore of `ShmCounter` and the mutex of `Threads` promise |
| `ShmCounter` | the three shared-memory programs; implements `GuardedCounter` when runs do not overlap |
| `MCShmCounter` | its instances |
| `ShmCounterProofs` | its theorems |
| `Mailbox` | abstract: a message is put once, taken by at most one, or dropped |
| `PosixMq` | the three message queue programs; implements `Mailbox` |
| `MCPosixMq` | its instances |
| `PosixMqProofs` | its theorems |
| `Dgram` | the two datagram programs; the servers' queues implement `Mailbox` |
| `DgramProofs` | its theorems |
| `Stream` | the two stream programs |
| `StreamProofs` | its theorems |
| `Fifo` | `2_fifo.c` |
| `SysvMq` | `3_mq_sysv.c`; implements `Mailbox` |
| `FileLock` | `11_file_lock.c` |
| `MCNames` | `Fifo`, `SysvMq` and `FileLock` side by side |
| `NamesProofs` | the theorems about these three and their composition |
| `Mapping` | the three programs that share a mapped struct |
| `Threads` | the four programs with threads |
| `ProcessTree` | the programs that fork, exec and wait |
| `Signals` | the programs that send and handle signals |
| `Files` | the programs that leave a file or a link behind |
| `MCPrograms` | these five side by side |
| `MappingProofs`, `ThreadsProofs` | the theorems about `Mapping` and `Threads` |
| `ProgramsProofs` | the theorems about `ProcessTree`, `Signals`, `Files` and the composition of all five |

`Dgram` and `Stream` need no MC module: their configurations give every constant a
value directly. `MCNames` and `MCPrograms` put programs side by side that share
nothing: the variable `part`, fixed by the initial state, says which one executes, so
that the states of the run are the sum of theirs, not the product, and one run asks
the same kinds of question of all of them. A definition whose comment begins with "Mutant" is a plausible bug in
the definition next to it; nothing uses it but the `mutants` of `PROJECT.json`, each
of which must break one property in its run.

### ShmCounter

A *run* is one invocation of one of the programs (`Prog`). Its `main` names the system
call `main()` makes next, in the order `UnsafeMain`, `SafeMain` or `ThreadMain`; its
two workers are `do_add` ("child") and `do_sub` ("parent"), a process and its parent
or two threads, and `Proc` is the process a worker belongs to.

| State | In the code |
|---|---|
| `main`, `pc`, `done`, `reg` | control, the loop variable `i`, the register between the load and the store of `info->counter` |
| `shmKey`, `shmid`, `counter`, `att` | what the key names, `shmid`, `info->counter`, `nattch` with its processes |
| `semKey`, `semid`, `semval`, `adj` | what the key names, `semid`, the value and every process's `semadj` |
| `base` | history: the counter at `shmat` |

The segment and the set are named after the run that created them, so that a stale
identifier is distinguishable. `ShmGet`, `ShmAt`, `SemGet`, `SetVal`, `Fork`,
`CreateThread`, `Join`, `ShmDt`, `RmSem`, `RmShm` are the calls of `main()`;
`SegmentGone` and `Fail` are its early returns, which remove nothing (a refused `shmdt`
leaves out the two removals behind it);
`Lock`, `Load`, `Store`, `Unlock` are the calls of `do_add` and `do_sub`; `ChildExit`,
`KillMain` and `KillChild` end a process and make the kernel apply the adjustment and
detach the segment (`EndProcess`). A failing `semctl` or `semop` is not an early return,
because the code does not test it. `Overlap` says whether a run may start while another
is active: the programs allow it, so exclusion is stated for `~Overlap`, and what
survives overlapping is stated apart.

### PosixMq

A process executes one of `do_send`, `do_recv` or the removing program once. The two
senders differ only in the priority, so `Arg` gives each sender's number, and
`Prio` cuts it to the width of the variable it is stored in; `NotAbove` compares two
senders by their priorities and by the numbers themselves. A queue is named after
the process whose `mq_open` created it, `name` is the queue `/posixmq` names and `fd`
the one a process has open; a queue without name and descriptors is purged with its
messages. `sent` (arrival number) and `home` are history. `Open` is `init_mq`, `Close`
the `mq_close` or the error path, `OpenFails` and `SendInvalid` the early returns: when
`mq_getattr` fails, the queue that `mq_open` has created stays.

### Dgram

`asking` is chosen once: all processes execute `8_socket_dgram2.c` or all execute
`8_socket_dgram.c`. `node` is the directory (a path keeps naming a closed socket),
`open` the live sockets, `inbox` their queues. A request or a reply is represented by
the client that asked. `peer` is the socket a blocked `sendto` waits on: the kernel
looks the path up once and waits on that socket until it is closed. `turns` and
`dest` are history. The two programs use different paths and are not mixed; that
`8_socket_dgram.c` shares the path `sock_file` with `7_socket_stream.c` is a listed
hazard that no module covers.

### Stream

`inet` is chosen once. Over `AF_UNIX` `node` is the socket the path names, dead or
alive; over TCP it is the socket that listens on the port, which `SO_REUSEADDR` lets
several servers bind, of whom one can `listen`. `queue` holds the connections waiting
for `accept`; `connect` succeeds when there is room, blocks on that server otherwise
(`wait`) and over TCP may time out. `msg`, `reply` and `got` say how far the exchange
on a connection came. `Gone` is the end of a connection: what `send` and `recv` then
do (SIGPIPE, ECONNRESET or 0 bytes) depends on the family and on whether the message
was read. Over TCP a connection whose accepting server was killed is only half closed
(`Closed`): the message is accepted and lost (`SendLost`), and `recv` returns 0. Receiving 0 bytes is not an error to either program, so they go on.

### Fifo, SysvMq, FileLock

A process executes `do_write` or `do_read` of `2_fifo.c`, `do_send` or `do_recv` of
`3_mq_sysv.c` once; a process of `11_file_lock.c` is a terminal that starts the program
up to `MaxRuns` times. In `Fifo` a FIFO is named after the writer that made it, `path`
is the one `./fifofile` names, `fifoFd` the one a process has open; the contents are
discarded when the last descriptor is closed. `FifoOpen` is the rendezvous: it goes
on when the other end is there and wakes who waits for this end. `Read` returns all
there is, or the end of file when no writer is left; `BrokenPipe` is SIGPIPE, which ends
the writer. `solo` (writers that never had an active rival) and `wrote` are history. In
`SysvMq` `made` is whether the key names a queue, which is why `MsggetFails` stops
once there is one; `arrived` and `taken` are history. In `FileLock` `holders` is the
kernel's record of the lock. A user's key (`Key`) is a step nobody owes.

### Mapping, Threads

`mapProg` and `thProg`, fixed by the initial state, say which program the processes
execute. `Mapping` has the file's existence and length (`exists`, `sized`), the
fields, and per process the rounds made; `Fault` is SIGBUS, `StorePid`, `LoadCounter`
and `StoreCounter` the three accesses of a round, `SkipLoop` the loop `n > 5` of
`9_anony_mapping.c`. `together` (two writers were mapped at the same time) and
`added` are history. The values a reader prints are not kept: nothing in the programs
promises that the two fields belong together. In `Threads` `left` counts the rounds of
both loops of a counting thread, from `MaxTry` to `-MaxTry`. Time is discrete: `Tick`
lets a second pass unless somebody whose `sleep` is over has been kept waiting for `lag`
seconds, so that `lag = 0` is a prompt scheduler and a larger `lag` a late one.

### ProcessTree, Signals, Files

`ProcessTree` is one parent and one child; `treeProg` says which program. `ends` are the
ends of the pipe each has open, `status` what the kernel keeps of an ended child,
`told` what `wait` returned. `EndParent` and `EndChild` are the end of a process in
any way: the ends are closed, and a child becomes a zombie or, without a parent, goes.
`Signals` is one process that handles signals and the senders; `Send` queues a signal
unless it is ignored or one of its number is pending, `Handle` calls the handler with
its signal blocked, `Die` is the default action. `sent`, `early` and `awaited` are
history. In `Files` a file is a sequence of cells, `Width` to a line: of the text every
run writes (`TextCell`), of the line a run writes last (`LastCell`), or of a gap. A
descriptor has an offset (`offset`), a stream writes its text at `fclose` (`Buffered`).
Every write may be short (`ShortText`, `ShortLast`): `4_file_binary_low.c` fails then,
with a part of its text in the file; the others go on, and report success. `lineAt` and
`lineLen` (where a run's last line was put and how much of it), `known` (whose lines a
run found when it sought the end), `overlapped` and `cut` are history. `FilesRight` has
three parts. `TextInFront`: as far as the file goes it begins with the text, and a reader
finds all of it unless a short write was not noticed. `LinesStay`: every cell of a last
line is where it was put, or, in `6_file_pos_low.c`, under the line of a run that sought
the end before it was there; behind the text there is nothing but such cells. Two cases
are left out because nothing holds there: a file that a run which overlaps truncates
(`Firm`), and, once a text was cut, lines so far in front that the next run's text
overwrites them. `LinksMade`: a run of `7_file_link.c` that returns 0 has made both links.

## 3. Runs

| Run | Instance | Shows |
|---|---|---|
| `shm_sequential` | a "safe" and a "thread" run one after the other in either order, `MaxTry` 2, 2 kills, any call failing | `MutualExclusion`, `NoLostUpdate`, `UndoIsHolding`, `RemovedAfterUse`, and that it implements `GuardedCounter` |
| `shm_unsafe` | one "unsafe" run, `MaxTry` 6, 1 kill | `LossBounded`: updates are lost, never more than were made |
| `shm_overlap` | the same two runs overlapping, `MaxTry` 1, 1 kill | `WaitsForHolder`, `EveryRunEnds`: without exclusion there still is no deadlock |
| `shm_not_binary` | two overlapping "safe" runs | violation of `BinarySemaphore`, see Findings |
| `mq_posix_remove` | 3 senders, 2 receivers, the removing program, capacity 2, 1 fault | `Accounted`, `InOrder`, `OneQueue`, and that it implements `Mailbox` |
| `mq_posix_fair` | 3 senders, 2 receivers, the removing program, capacity 1, 1 fault, one priority refused | `EverybodyServed`: who is left blocked has nobody to wait for, or is on a removed queue |
| `dgram` | 2 servers, 2 clients, both programs, queues of 1, 1 kill | `AbandonedByRival`, `StrayOnlyToNewer`, `ServerServed`, `ClientEnds`, and that requests implement `Mailbox` |
| `dgram_stray` | 1 server, 2 clients | violation of `ReplyToRequester`, see Findings |
| `stream` | 2 servers, 2 clients, both families, backlog of 1, 1 kill | `ResetByRival`, `SuccessMeansExchange`, `OneListener`, `EveryClientEnds`, `ServerServed` |
| `names` | FIFO: 2 writers, 2 readers, 1 kill; System V queue: 3 senders, 2 receivers, room for 2, 2 faults; lock: 2 shared, 2 exclusive, 2 runs each, 1 fault | `RivalToBlame`, `NothingLost`, `ExclusiveAlone`, `EndsOrWaits` |
| `programs` | mapping: 2 writers, 1 reader, 3 rounds, 1 fault; threads: 4 programs, `MaxTry` 2, `lag` 0 or 1; tree: 5 programs, 2 faults; signals: 2 programs, 3 senders; files: 7 programs, 3 runs, 2 cells to a line, 1 fault | `MappingRight`, `MainLast`, `CounterResult`, `WaitTellsTruth`, `HandledRight`, `FilesRight`, `ProgramsProgress` |
| `mapping_anon` | `9_anony_mapping.c` alone | violation of `ParentReads`, see Findings |

**Bounds and why they are enough.**

- Two runs of the shared counter give every order and, overlapping, every way one
  run's `SETVAL` or `IPC_RMID` meets the other's critical section. `MaxTry` is 100000
  in the code; 2 is the least with a second iteration, and the theorems hold for all.
  Without a lock one iteration each is enough to lose an update; 6 also let the losses
  accumulate, and a stale store undo several updates of the other worker at once. Two kills let the holder and then its partner die.
- Three senders on a queue of two make `mq_send` block and leave three messages with
  two distinct priorities, one of them shared. `UIntMod` 8 stands for 2^32 and
  `PrioMax` 4 for 32768: of the numbers 1, 9 and 2 the second wraps to 1; in
  `mq_posix_fair` 5 is refused.
- Two servers and two clients are the least at which one of each is a rival of the
  others. With queues of 1 the second client blocks. One kill reaches every process
  in every state. With a third client the liveness properties take more than five minutes.
  The exception in `ClientEnds` (`Wedged`) needs four clients; see DgramProofs.
- Two writers of the FIFO are a writer and its rival, and two readers an early and a late
  one. Three senders on a System V queue with room for two block, and the queue's order
  shows. Two exclusive and two shared lockers that run twice let each kind overtake the
  other and let a killed holder come back.
- Two writers of a mapping reach the worst loss, all updates but two: a stale first
  store and a stale last one. Three rounds put rounds in between, so that losses are
  more than one store each.
  `MaxTry` 2 is the least with a second iteration; the loops over 11 and 12 seconds
  have the length of the code. A `lag` of one second is the least that makes
  `sleep(12)` too short. Three senders make a signal pending while another is handled
  and a third one merge with it. Three runs of a file program are one that leaves a
  file and two that overlap on it; two cells to a line are the least that a write can
  be short by without writing nothing.
- `MaxKills` and `MaxFaults` (and their namesakes) bound only faults from outside (SIGKILL, resource
  limits), not what the programs do.

`CHECK_DEADLOCK FALSE` is in every configuration because every program ends, or may
rightly wait for ever for a partner that nobody starts; what waiting is legitimate is
the subject of the liveness properties.

## 4. Fairness

Each process (or worker, or `main`) has weak fairness of its own steps taken together:
the kernel schedules a runnable process and wakes a blocked one when its condition
stays true. Nothing else is assumed. Weak fairness gives no order among processes
that wait for the same thing, so a process may lose every race whose prize comes
back; the properties that hold do so in spite of that. Faults (`Fail`, `OpenFails`,
`Kill`, `KillMain`, `KillChild`) and TCP's `ConnectTimesOut` are never owed, and
nobody is obliged to run the removing program. Every process of an instance is taken
to be started, except the runs of `FileLock` and `Files`, which nobody has to start.

In `names` and `programs` the same holds for each process and thread, for the kernel's
delivery of signals, for a handler that was called, and for time (`Tick`): seconds pass
unless somebody who may run is due. Keys that users press (`Key`, `KeyPressed`),
signals that are sent, faults and kills are never owed: a property about somebody who
waits for them has the waiting as one of its outcomes. `main` of the signal programs,
which loops for ever, owes nothing.

## 5. Proofs

Beside invariants and refinements there are two kinds of theorem about waiting. Liveness
under fairness is out of the prover's reach, but what it rests on is not:

- *Nobody waits for everybody* (`NoDeadlock`, `NobodyForgotten`, `NobodyStuck`,
  `LockWaitsForKey`, ...): an invariant that says where a process can be when no process
  can go on. "Can go on" is a state predicate (`CanStep`, `Goes`, `FifoCan`, ...): what
  `ENABLED` of the process's fair actions is, written out. TLC compared the two in every
  reachable state of the runs' instances and found them equal.
- *Nothing goes on for ever* (`RunsShorten`, `StepsRunOut`, `NamesRunOut`,
  `ProgramsRunOut`): every step uses up something that no step gives back, of which a finite number of processes has a finite amount.

A behaviour of finitely many processes with weak fairness therefore ends, in a state in
which nobody can go on, and the first theorem says what that state looks like. This last
conclusion is by hand; TLC checks it in the runs. A liveness property that asks for more than the end of
all steps, such as `ServerServed`, is not covered by it.

### ShmCounterProofs

For any `Runs`, any assignment `Prog`, any `MaxTry` and any number of kills:

| Theorem | States | Needs |
|---|---|---|
| `TypeCorrect` | `Spec => []TypeOK` | |
| `Exclusion` | `Spec => []MutualExclusion` | `~Overlap` |
| `Exactness` | `Spec => []NoLostUpdate` | `~Overlap` |
| `BoundedLoss` | `Spec => []LossBounded` | `~Overlap` |
| `UndoExact` | `Spec => []UndoIsHolding` | `~Overlap` |
| `NothingRemovedInUse` | `Spec => []RemovedAfterUse` | `~Overlap` |
| `Implementation` | `Spec => ImplementsGuardedCounter` | `~Overlap`, all runs locked |
| `BinaryAlone` | `Spec => []BinarySemaphore` | `~Overlap` |
| `SomebodyHolds` | `Spec => []WaitsForHolder` | |
| `NoDeadlock` | `Spec => []GoesOn` | |
| `RunsShorten` | no run makes more than `4 * MaxTry + 18` steps | |

`TypeOK` is not inductive: that `done` stays within `MaxTry` needs to know that a
worker in its loop has not finished it, and that a segment is addressed needs
an identifier. `TypeInv` therefore adds `Stages` (where the workers are, seen from
`main`) and `Known` (a run past `shmget` has an identifier). It holds with overlapping
runs too.

The rest rests on `Inv`: `OneActive` (at most one run is active) and, for every run,
`Segment` (its identifier is still the key's), `Semaphore` (value 1 and no adjustments,
or value 0 and exactly the worker in its section accounts for the adjustment of its
process) and `Counting` (the counter lies between the bounds, and is exact in the locked
programs up to the worker that is between its load and its store). An action of a run
disturbs only its own `RunInv`, because other runs are not active and an inactive run
has no obligation (`Quiet`, `QuietKept`); so each lemma on an action (`MainKeeps`,
`StartKeeps`, `LockKeeps`, `LoadKeeps`, `StoreKeeps`, `UnlockKeeps`, `EndMainKeeps`,
`EndChildKeeps`) speaks of one run. The refinement adds `Fresh` (a segment nobody has
created yet is zeroed) and maps `Lock` to `Acquire`, `Store` to `Update`, `Unlock` and
the death of an owner to `Release`, the creation of a new segment and removal to `Reset`,
and the rest to stutters.

`~Overlap` is needed there: `shm_not_binary` shows what happens without it, and
`BinaryAlone` that the comment is right of runs that do not overlap.

`SomebodyHolds` speaks of runs that overlap as they like, where `Inv` does not hold: another
run may set a semaphore in use to 1, or remove it. What remains is a sum. `Filled` says that from the
first `SETVAL` on the value and the adjustments of all processes together are at
least 1: `semop` moves a unit from one to the other, `SETVAL` clears the adjustments and sets
the value, and the kernel gives a dead process's adjustment back. Proofs by induction
being out of reach, the sum is counted in units: `Units(f)` is the set of a function's
positive units, and the lemmas about it (`UnitsChange`, `TotalChange`, `TotalPositive`)
come from those of the library about cardinalities. `Within` adds that an adjustment has a worker
between its two `semop` calls for every unit. So a worker that finds 0 waits for one
that runs. `NoDeadlock` needs no more than that and `Started` (`main` waits for workers it
started): the holder, or the run it belongs to, goes on.

### PosixMqProofs

For any finite set of senders, any receivers and removing programs, any priorities and
widths, any capacity and any number of faults:

| Theorem | States |
|---|---|
| `TypeCorrect` | `Spec => []TypeOK`, with the capacity never exceeded |
| `NoneLost` | `Spec => []Accounted` |
| `Ordering` | `Spec => []InOrder` |
| `Meeting` | `Spec => []OneQueue` |
| `Implementation` | `Spec => ImplementsMailbox` |
| `NobodyForgotten` | `Spec => [](QuietMeansServed /\ Firsts)` |
| `StepsRunOut` | `Spec => [][UsesUp]_vars`: every step is one call of one process |

The invariant `Inv` adds to these: `Descriptors` (who has a descriptor and in which
call it can be), `Uncreated` (a process that has not opened the queue has not created
one, so a new queue is empty and nobody's home) and `Numbered` (arrival numbers are
distinct and counted by `Arrivals`, so that a new message is the newest of its queue).
There is one lemma per kind of step: `OpenKeeps`, `FailKeeps`, `SendKeeps`,
`ReceiveKeeps` and, for closing, unlinking and being killed, `ReleaseKeeps`.

`QuietMeansServed` says that when no user of the queue can make its next call, everybody
is served in the sense of `EverybodyServed`. A receiver that waits has an empty queue and
a sender a full one, so the two are on different queues, which `OneQueue` allows after a
removal only; `Homes` says that a sender's message is in the queue it had open. That a
queue that is not empty has a message to receive would be an
induction over finite sets. `Firsts` (every nonempty set of messages of a queue has a
first one) is instead carried as an invariant of its own: a new message adds one
element, and a received one only takes subsets away.

### DgramProofs

For any servers and clients of either program, any queue length and any number of
kills:

| Theorem | States |
|---|---|
| `TypeCorrect` | `Spec => []TypeOK` |
| `RivalToBlame` | `Spec => []AbandonedByRival` |
| `NeverToEarlier` | `Spec => []StrayOnlyToNewer` |
| `Implementation` | `Spec => ImplementsMailbox` |
| `NoDeadlock` | `Spec => []GoesOn` |
| `NeverWedged` | `Spec => [](\A s \in Servers : ~Wedged(s))`, for no more servers than a queue has room for |
| `StepsRunOut` | `Spec => [][UsesUp]_vars` |

`Basic` is inductive alone: the types, `Roles` (whom a path and a `peer` can be),
`Asker` (a client's request is at its server until that takes a request) and `Server` (a
server takes one request, which was sent to it, and its queue holds none twice). It
suffices for the refinement: taking the head of one queue takes the request out of all
queues. `RivalToBlame` needs `Returned` as well: while the path still names the client
that asked, a server that blocks or fails in replying does so at that client, so an
answered client has the reply in its queue. `NeverToEarlier` needs `Turns`: the path
names the client that bound it last (`Latest`), and a reply goes to the client that
asked or to one after it, also when `sendto` is blocked on a socket that has lost
the path since.

`GoesOn`: while a client has neither ended nor is abandoned, somebody can go on or a
server is wedged. The exception was found in the proof. A server that blocks on a client's full
queue can be waited for by that very client, which is still in `sendto` on the server's full
queue. It takes two servers that each answer that client in place of another one, with
queues of one message: four clients and two servers, more than the `dgram` run has. TLC
reaches it after 20 steps or so, and the process that is left there
does wait for ever; `ClientEnds` names that outcome. `NeverWedged` says
when it cannot happen: each server answers once, so a client's queue has at most as
many replies as there are servers past their `sendto` (`Replies`). `UsesUp` counts the calls each
process has before it and the sockets it may still come to be blocked on.

### StreamProofs

For any servers and clients of either family, any backlog and any number of kills:

| Theorem | States |
|---|---|
| `TypeCorrect` | `Spec => []TypeOK` |
| `SingleListener` | `Spec => []OneListener` |
| `ResetCause` | `Spec => []ResetByRival` |
| `SuccessIsExchange` | `Spec => []SuccessMeansExchange` |
| `NoDeadlock` | `Spec => []GoesOn` |
| `StepsRunOut` | `Spec => [][UsesUp]_vars` |

`Inv` (types, `Roles` and `PortOwner`: a socket that listens on the port is `node`) is
inductive and gives the first two. The other two need `Exchange`, which relates the
ends of a connection: `Connection` says what a client may conclude from its own
position about the server (before it sent, nothing was read; if it went on
after the end of the connection, its message was read or the server was killed) and
`Service` the converse (past `recv`, the message was read or the client was killed; past
`send`, the client has ended or has its reply). Neither is inductive without
the other. `NoDeadlock` (while a client has not ended somebody can go on) follows
the client to the server it waits for, and that one to the client it accepted; `Pending`
says that a server in `recv` has not read yet, and that a server in `accept` whose
connection a client has got is not left without one.

### NamesProofs

For any number of processes, of runs, of faults, and any room in the queue:

| Theorem | States |
|---|---|
| `FifoTypeCorrect`, `MqTypeCorrect`, `LockTypeCorrect` | the type invariants |
| `OnlyRivalsHarm` | `FifoSpec => []RivalToBlame` |
| `NoMessageLost` | `MqSpec => []NothingLost` |
| `SysvMqIsMailbox` | `MqSpec => MqImplementsMailbox` |
| `LockIsExclusive` | `LockSpec => []ExclusiveAlone` |
| `NamesCompose` | `NamesSpec => FifoSpec /\ MqSpec /\ LockSpec` |
| `NamesTypeCorrect`, `NamesAreRight` | the same results of the specification that is run |
| `FifoWaitsForPartner` | `FifoSpec => []FifoRest`: who is left waits in `open` for an end of its FIFO that nobody has open |
| `MqWaitsForNobody` | `MqSpec => []MqRest`: who is left is a sender at a full queue without receivers, or a receiver at an empty one without senders |
| `LockWaitsForKey` | `LockSpec => []LockRest`: who is left waits for a holder whose user presses no key |
| `NamesRest` | these three of the specification that is run |
| `NamesRunOut` | `NamesSpec => [][FifoUsesUp]_fifoVars /\ [][MqUsesUp]_mqVars /\ [][LockUsesUp]_lockVars`: every step takes a call or a run from a process and gives none to another |

`FifoInv` has three parts beside the types. `Opened` relates a process's call to what
it has open. `NoRival` says of a writer in `solo` that, while active, it is the only
active one and the path is its own; so neither `mkfifo` nor `open` fails, and who waits
on its FIFO waits at the path. `Kept` carries the other half: as long as nobody is
killed and no reader has a message (`Quiet`), every written message is in a FIFO that a
reader has open, and a reader inside `read` has a message or a writer; then no read
returns the end of file, and the first read that returns ends `Quiet`. For the queue,
`OnceEach` (a sender that is done has sent, and no message is in the queue twice) is
what `Take` of `Mailbox` needs: taking the head takes the message out of the set.
`LockTypeOK` says where the holders are, which makes `ExclusiveAlone` inductive. The
three theorems about who is left say of a state in which no process can go on what `EndsOrWaits`
says of the end; that of the FIFO needs `WaitsAlone`, that an `open` returns as soon
as the other end is there. A step of the composition is a step of one part and leaves the variables of the
others alone, so it is a step or a stutter of every part (`NamesCompose`).

### MappingProofs, ThreadsProofs

For any writers and readers, any number of rounds, any `MaxTry` and any lags:

| Theorem | States |
|---|---|
| `MapTypeCorrect`, `ThTypeCorrect` | the type invariants |
| `MappingIsRight` | `MapSpec => []MappingRight` |
| `MainIsLast` | `ThSpec => []MainLast` |
| `CounterIsRight` | `ThSpec => []CounterResult` |
| `MutexImplementation` | `ThSpec => MutexGuardsCounter` |
| `NobodyStuck` | `ThSpec => []ThGoesOn` |

`MapInv`: `Sized` (a writer past its `ftruncate` has a sized file, and nothing takes it
away) gives the absence of SIGBUS; `Exact` the exact counter of a single writer;
`Rising` and `LastIsTwo` the lower bound: after its first round a writer has loaded at
least 1, so the last store of all, which is some writer's last round, leaves at least 2.
`ThInv`: `Clock` (the end of a thread's sleep plus its rounds left is at most 11) gives
that threads end before a prompt `main`'s 12 seconds; `Guarded` says that with the mutex
`shared` is a function of where the owner is in its loops; `Raced` bounds every value
that a thread may have loaded by the increments and decrements made so far.
`MutexImplementation` is the counterpart of `Implementation` in `ShmCounterProofs`: a mutex
and a semaphore make the same promise. The amount of an update is a set there because
a thread of `19_thread_safe.c` both adds and subtracts. `NobodyStuck`: until the process
ends, `main` or a thread can go on or the clock can; it needs `InTurn`, that `main` waits
for its threads in the order in which it started them.

### ProgramsProofs

For any number of faults, of senders and of runs:

| Theorem | States |
|---|---|
| `TreeTypeCorrect`, `SigTypeCorrect`, `FileTypeCorrect` | the type invariants |
| `WaitIsRight` | `TreeSpec => []WaitTellsTruth` |
| `HandlerIsRight` | `SigSpec => []HandledRight` |
| `FilesAreRight` | `FileSpec => []FilesRight` |
| `ProgramsCompose` | `ProgramsSpec => MapSpec /\ ThSpec /\ TreeSpec /\ SigSpec /\ FileSpec` |
| `ProgramsTypeCorrect`, `ProgramsAreRight` | the same results, and those of `Mapping` and `Threads`, of the specification that is run |
| `NobodyLeftWaiting` | `TreeSpec => []TreeRest`: nobody is left in `read` or `wait` |
| `NoSignalForgotten` | `SigSpec => []SigRest`: a signal that awaits the handler can be delivered, or the handler is running |
| `ProgramsRest` | these two and `NobodyStuck` of the specification that is run |
| `ProgramsRunOut` | `ProgramsSpec => [][MapUsesUp]_mapVars /\ [][ThUsesUp]_thVars /\ ...`: every step of each of the five parts takes a call, a round or a second from somebody and gives nobody one |

`TreeInv`: `Calls` (which call each program can be in), `Reaping` (a status is kept
exactly from a child's end on, and `wait` took it) and `Piping` (a parent that has not
written yet has its write end, one that has written left the message in the pipe or
with the child; so end of file means the parent was killed). `SigInv`: `Settled` (the
handler is set once `main` is past the call, so its signal is fatal only before),
`Traced` (what is pending, handled or reported was sent, by somebody who sends once) and
`Ordered` (reported signals, the handled and the pending one were sent in this order;
a merged signal never enters it).

`FileInv`: `OneRun` (as long as runs follow each other, at most one is active),
`Positions` (where a run is in its text, where its descriptor is, and that the file is
long enough behind it), `Front` (the text, as far as the file goes), `Places` (where last
lines are: behind the text unless one was cut, and before the place that a run which
knows them has sought), `Stay` and `Owned` (a cell of a last line stands, or a later run
that did not know it has put its own there; behind the text there is no cell of anybody
else) and `Linked` (both links belong to one run). Without `Places` neither of the two
before it is inductive: that a line is not overwritten rests on where the next run will
write, and a gap would arise behind a place that is beyond the end. `PutIs` says what
every cell of a file is after a write, and so keeps the arithmetic of sequences out of
the lemmas on the actions: `PutTextKeeps` and `PutLastKeeps` treat a write of any length,
so that a short one needs no lemma of its own.

`ProgramsRunOut` counts, for each part, what is left: the rounds of a mapping's process,
the calls of the parent and its child, the way of each signal from its sender through
the pending set to the end of the handler, the calls of a run. A step of `Tick` takes no
call from a thread: there the seconds somebody waits go down, and only calls, which are
used up, make them grow. Two facts come from the invariants: a loop does not go
below its last round (`InLoop`), and no two signals of `pending` and `handling` are of
one sender (`OneWay`), so each handler call ends the way of its own.

### Assumptions

The assumptions are those of the modules: disjoint sets of processes, `None` and
`NoId` outside them, positive bounds, priorities that are numbers, and
"nothing" values (`NoStatus`, `NoInfo`, `NoMsg`, ...) that are none of the others.

### Only model-checked

Every invariant that a passing run checks is a theorem, and so is every refinement. What
stays with TLC is liveness: `EveryRunEnds`, `EverybodyServed`, `ServerServed` (of both kinds of
socket), `ClientEnds`, `EveryClientEnds`, `EndsOrWaits` and `ProgramsProgress`. Of these,
all but `ServerServed` have both of the theorems named at the beginning of this section
(the first of the two for each part in which somebody waits for another), so that only
the step from "some process can go on, and not for ever" to "the end is reached" rests on
the runs. `ServerServed` has neither: it speaks of one server while others go on.

## 6. Findings

- `shm_not_binary`: `10_shm_sysv_safe.c:126` calls the semaphore binary. A second run
  executes `semctl(SETVAL, 1)` on the set that the first one is using. If a worker of
  the first is inside, its unlock makes the value 2.
- `dgram_stray`: `8_socket_dgram2.c:47` and `:61` say the reply goes back to the
  socket that sent the request. It goes to a path, which by then may name the socket
  of another client.

- `mapping_anon`: `9_anony_mapping.c:68` says that the parent reads what the child
  writes. The reader's loop at line 56 asks for `n > 5` with `n` 0 and is skipped. (The
  reader of `9_file_mem_mapping.c:85` asks for `n < 5`.)

What the passing runs show of limits that no comment denies: a FIFO reader that came to
the FIFO of an earlier run is stranded when the next writer replaces it; a
`sigqueue` payload is lost when its signal is pending; `16_thread_test.c` ends in time
only under a prompt scheduler.

## 7. Not modelled

- Contents of messages and files, formatting and output; the parsing of arguments other
  than the priority. Usage errors end a program before it touches shared state.
- The pair of values a reader of a mapping prints, which may belong to two writers:
  nothing promises otherwise.
- `printf` inside a signal handler, which is not async-signal-safe: its effect on the
  interrupted `printf` is below the level of the model.
- `trunc_file` of `2_file_text_low.c`, whose call in `main` is commented out.
- The file programs that only read (`8_file_stat.c`, `9_read_dir.c`,
  `10_mmap_test.c`): one process, no state another could change under a property.
- Partial sends and receives on stream sockets: a message is one small buffer, sent
  once and received once. Short writes to files are modelled; one that the C library
  completes with a second `write()` counts as one write.
- Processes of two socket programs at the same time. `7_socket_stream.c` and
  `8_socket_dgram.c` share the path `sock_file`: a server of one unlinks the other's
  socket, and a client of one that finds the other's gets EPROTOTYPE. The other
  programs share nothing.
- Recycled identifiers: the kernel's sequence numbers make an old `shmid` or `semid`
  invalid, which is what naming objects after their creator does.

## 8. Plan

Every part of the inventory but the read-only file programs has its module, and every
safety property its theorem. What is left, in the order of its worth:

1. A composition of the two programs that share `sock_file`: the only hazard in
   `PROJECT.json` that no property covers.
2. The safety kernel of `ServerServed`: a server that has the path, with a client that is
   sending to it, can go on, or one of the two can.
