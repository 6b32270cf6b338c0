------------------------------ MODULE ProcessTree ------------------------------
(***************************************************************************)
(* A parent and the child it forks.                                        *)
(*   1_pipe.c            the parent writes to the child through a pipe and *)
(*                       waits for it                               "pipe" *)
(*   12_fork_test.c      both wait for a key                        "fork" *)
(*   13_exec_test.c      no child, main executes exec_test2         "exec" *)
(*   14_fork_exec.c      the child executes exec_test2, the parent         *)
(*                       waits for a key                        "forkexec" *)
(*   15_fork_exec_wait.c the child executes exec_test2, the parent waits   *)
(*                       for it and prints how it ended             "wait" *)
(* A child that ended is a zombie until its parent waited for it or ended. *)
(***************************************************************************)
EXTENDS Integers

CONSTANTS
    TreePrograms,   \* a subset of {"pipe", "fork", "exec", "forkexec", "wait"}
    TreeMaxFaults,  \* bound on failing calls and killed processes
    NoStatus

ASSUME TreeAssumption ==
    /\ TreePrograms \subseteq {"pipe", "fork", "exec", "forkexec", "wait"}
    /\ TreeMaxFaults \in Nat
    /\ NoStatus \notin {"0", "1", "255", "signal"}

VARIABLES
    treeProg,   \* the program that is executed
    parent,     \* the call the parent is about to make
    child,      \* the call the child is about to make
    ends,       \* the ends of the pipe each has open
    piped,      \* the message is in the pipe
    heard,      \* what the child's read() returned
    status,     \* how the child ended: its exit status or "signal"
    told,       \* what wait() told the parent
    treeFaults

treeVars == <<treeProg, parent, child, ends, piped, heard, status, told, treeFaults>>

TreeInit ==
    /\ treeProg \in TreePrograms
    /\ parent = IF treeProg = "exec" THEN "exec" ELSE "fork"
    /\ child = "none"
    /\ ends = [parent |-> {}, child |-> {}]
    /\ piped = FALSE /\ heard = "nothing"
    /\ status = NoStatus /\ told = NoStatus
    /\ treeFaults = 0

ParentEnded == parent \in {"returned", "failed", "killed"}
ChildAlive == child \in {"closeW", "read", "closeR", "getc", "exec", "image"}

\* pipe() and fork(): both processes have both ends.
Fork ==
    /\ parent = "fork"
    /\ parent' = CASE treeProg = "pipe" -> "closeR"
                   [] treeProg = "wait" -> "wait"
                   [] OTHER -> "getc"
    /\ child' = CASE treeProg = "pipe" -> "closeW"
                  [] treeProg = "fork" -> "getc"
                  [] OTHER -> "exec"
    /\ ends' = IF treeProg = "pipe" THEN [parent |-> {"r", "w"}, child |-> {"r", "w"}] ELSE ends
    /\ UNCHANGED <<treeProg, piped, heard, status, told, treeFaults>>

\* pipe() or fork() fails: main returns -1.  The first program of 12_fork_test.c
\* does not look at the result and goes on alone.
ForkFails ==
    /\ parent = "fork"
    /\ treeFaults < TreeMaxFaults
    /\ treeFaults' = treeFaults + 1
    /\ \/ parent' = "failed"
       \/ parent' = "getc" /\ treeProg = "fork"
    /\ UNCHANGED <<treeProg, child, ends, piped, heard, status, told>>

\* The parent's end, with whatever: a zombie is left to init, which reaps it.
EndParent(how) ==
    /\ parent' = how
    /\ child' = IF child = "zombie" THEN "gone" ELSE child
    /\ ends' = [ends EXCEPT !.parent = {}]
    /\ UNCHANGED <<treeProg, piped, heard, status, told>>

\* The child's end: its status is kept for the parent.
EndChild(how) ==
    /\ status' = how
    /\ child' = IF ParentEnded THEN "gone" ELSE "zombie"
    /\ ends' = [ends EXCEPT !.child = {}]
    /\ UNCHANGED <<treeProg, parent, piped, heard, told>>

CloseEnd(who, end) == ends' = [ends EXCEPT ![who] = @ \ {end}]
AnyoneHas(end) == \E who \in DOMAIN ends : end \in ends[who]

\* close(pipe_fds[0]) and then close(pipe_fds[1]) of the parent.
ParentCloses ==
    /\ \/ parent = "closeR" /\ CloseEnd("parent", "r") /\ parent' = "write"
       \/ parent = "closeW" /\ CloseEnd("parent", "w") /\ parent' = "wait"
    /\ UNCHANGED <<treeProg, child, piped, heard, status, told, treeFaults>>

ParentWrites ==
    /\ parent = "write" /\ AnyoneHas("r")
    /\ piped' = TRUE
    /\ parent' = "closeW"
    /\ UNCHANGED <<treeProg, child, ends, heard, status, told, treeFaults>>

\* SIGPIPE: the child is gone, and with it the last read end.
ParentBrokenPipe ==
    /\ parent = "write" /\ ~AnyoneHas("r")
    /\ EndParent("killed")
    /\ UNCHANGED treeFaults

\* Mutant: the child keeps its copy of the write end.
ChildKeepsWriteEnd ==
    /\ child = "closeW"
    /\ child' = "read"
    /\ UNCHANGED <<treeProg, parent, ends, piped, heard, status, told, treeFaults>>

\* close(pipe_fds[1]) of the child.
ChildCloses ==
    /\ child = "closeW"
    /\ CloseEnd("child", "w")
    /\ child' = "read"
    /\ UNCHANGED <<treeProg, parent, piped, heard, status, told, treeFaults>>

\* Mutant: read() does not wait for the parent.
ChildReadsEarly ==
    /\ child = "read"
    /\ heard' = IF piped THEN "message" ELSE "end"
    /\ piped' = FALSE
    /\ child' = "closeR"
    /\ UNCHANGED <<treeProg, parent, ends, status, told, treeFaults>>

\* read() returns the message, or 0 when nobody has the write end; it blocks
\* otherwise.
ChildReads ==
    /\ child = "read"
    /\ piped \/ ~AnyoneHas("w")
    /\ heard' = IF piped THEN "message" ELSE "end"
    /\ piped' = FALSE
    /\ child' = "closeR"
    /\ UNCHANGED <<treeProg, parent, ends, status, told, treeFaults>>

\* close(pipe_fds[0]) of the child, and the end of main.
ChildReturns ==
    /\ child = "closeR"
    /\ EndChild("0")
    /\ UNCHANGED treeFaults

\* execl("./exec_test2"): the program, and main's status, become another's.
Exec ==
    /\ \/ child = "exec" /\ child' = "image" /\ UNCHANGED parent
       \/ parent = "exec" /\ parent' = "image" /\ UNCHANGED child
    /\ UNCHANGED <<treeProg, ends, piped, heard, status, told, treeFaults>>

\* execl() returns: the child returns -1; 13_exec_test.c says bye and returns 0.
ExecFails ==
    /\ treeFaults < TreeMaxFaults
    /\ treeFaults' = treeFaults + 1
    /\ \/ child = "exec" /\ EndChild("255")
       \/ parent = "exec" /\ EndParent("returned")

\* exec_test2's main returns: 1 after sleep(5) for 15_fork_exec_wait.c, else 0.
ImageReturns ==
    /\ \/ child = "image" /\ EndChild(IF treeProg = "wait" THEN "1" ELSE "0")
       \/ parent = "image" /\ EndParent("returned")
    /\ UNCHANGED treeFaults

\* Mutant: wait() looks once and does not block.
WaitNoHang ==
    /\ parent = "wait"
    /\ told' = status
    /\ child' = IF child = "zombie" THEN "gone" ELSE child
    /\ parent' = "report"
    /\ UNCHANGED <<treeProg, ends, piped, heard, status, treeFaults>>

\* wait(&exit_status) blocks until the child ended, and reaps it.
Wait ==
    /\ parent = "wait" /\ child = "zombie"
    /\ told' = status
    /\ child' = "gone"
    /\ parent' = "report"
    /\ UNCHANGED <<treeProg, ends, piped, heard, status, treeFaults>>

\* WIFEXITED or WIFSIGNALED, and return.
ParentReturns ==
    /\ parent = "report"
    /\ EndParent("returned")
    /\ UNCHANGED treeFaults

\* The user presses a key, and one of the getc(stdin) gets it.
KeyPressed ==
    /\ \/ parent = "getc" /\ EndParent("returned")
       \/ child = "getc" /\ EndChild("0")
    /\ UNCHANGED treeFaults

\* A signal ends the parent or the child ("kill -9", 15_fork_exec_wait.c:44).
TreeKill ==
    /\ treeFaults < TreeMaxFaults
    /\ treeFaults' = treeFaults + 1
    /\ \/ ~ParentEnded /\ EndParent("killed")
       \/ ChildAlive /\ EndChild("signal")

ParentStep == \/ Fork \/ ParentCloses \/ ParentWrites \/ ParentBrokenPipe
              \/ Wait \/ ParentReturns
ChildStep == ChildCloses \/ ChildReads \/ ChildReturns

TreeNext == ParentStep \/ ChildStep \/ Exec \/ ImageReturns
            \/ ForkFails \/ ExecFails \/ KeyPressed \/ TreeKill

TreeSpec == TreeInit /\ [][TreeNext]_treeVars

-------------------------------------------------------------------------------
TreeTypeOK ==
    /\ treeProg \in TreePrograms
    /\ parent \in {"fork", "exec", "closeR", "write", "closeW", "wait", "report", "getc",
                   "image", "returned", "failed", "killed"}
    /\ child \in {"none", "closeW", "read", "closeR", "getc", "exec", "image", "zombie", "gone"}
    /\ ends \in [{"parent", "child"} -> SUBSET {"r", "w"}]
    /\ piped \in BOOLEAN
    /\ heard \in {"nothing", "message", "end"}
    /\ status \in {NoStatus, "0", "1", "255", "signal"}
    /\ told \in {NoStatus, "0", "1", "255", "signal"}
    /\ treeFaults \in 0..TreeMaxFaults

\* A parent that waited is told how its child ended, whichever came first, and
\* outlives it; and when a child of 1_pipe.c exits by itself although its parent
\* was not killed, it has received the message.  (wait() of 1_pipe.c and
\* 15_fork_exec_wait.c, the closed ends of the pipe)
WaitTellsTruth ==
    /\ told # NoStatus => told = status
    /\ treeProg \in {"pipe", "wait"} /\ parent = "returned" => child = "gone" /\ told # NoStatus
    /\ heard = "end" => parent = "killed"
    /\ treeProg = "pipe" /\ status = "0" /\ parent # "killed" => heard = "message"

\* A child of 1_pipe.c is not left in read(), nor a parent in wait(), and a child
\* is a zombie no longer than its parent looks at the terminal.
TreeEnds ==
    /\ child = "read" ~> child # "read"
    /\ parent = "wait" ~> parent # "wait"
    /\ child = "zombie" ~> child = "gone" \/ parent = "getc"
===============================================================================
