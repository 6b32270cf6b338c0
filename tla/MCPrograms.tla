------------------------------- MODULE MCPrograms -------------------------------
(***************************************************************************)
(* The programs whose processes share a mapping, memory, a parent, a pid   *)
(* or a file, and nothing with the processes of the other ones.  part,     *)
(* fixed in the initial state, says which group executes; the variables of *)
(* the others have one value each.                                         *)
(***************************************************************************)
EXTENDS Mapping, Threads, ProcessTree, Signals, Files

VARIABLE part

programs == <<mapVars, thVars, treeVars, sigVars, fileVars, part>>

\* One initial value for the program of a group that does not execute.
Only(group, prog, choices) == part = group \/ prog = CHOOSE c \in choices : TRUE

ProgramsInit ==
    /\ part \in {"mapping", "threads", "tree", "signals", "files"}
    /\ MapInit  /\ Only("mapping", mapProg, MapPrograms)
    /\ ThInit   /\ Only("threads", thProg, ThreadPrograms) /\ Only("threads", lag, {0})
    /\ TreeInit /\ Only("tree", treeProg, TreePrograms)
    /\ SigInit  /\ Only("signals", sigProg, SigPrograms)
    /\ FileInit /\ Only("files", fileProg, FilePrograms)

InMap(A)  == part = "mapping" /\ A /\ UNCHANGED <<thVars, treeVars, sigVars, fileVars, part>>
InTh(A)   == part = "threads" /\ A /\ UNCHANGED <<mapVars, treeVars, sigVars, fileVars, part>>
InTree(A) == part = "tree"    /\ A /\ UNCHANGED <<mapVars, thVars, sigVars, fileVars, part>>
InSig(A)  == part = "signals" /\ A /\ UNCHANGED <<mapVars, thVars, treeVars, fileVars, part>>
InFile(A) == part = "files"   /\ A /\ UNCHANGED <<mapVars, thVars, treeVars, sigVars, part>>

ProgramsNext ==
    \/ InMap(MapNext) \/ InTh(ThNext) \/ InTree(TreeNext)
    \/ InSig(SigNext) \/ InFile(FileNext)

\* The kernel schedules every process and thread that can run, and time passes;
\* nobody need press a key, send a signal or start a run.
ProgramsSpec ==
    /\ ProgramsInit /\ [][ProgramsNext]_programs
    /\ \A p \in MapProcs : WF_programs(InMap(MapStep(p)))
    /\ \A t \in Thread : WF_programs(InTh(ThreadStep(t)))
    /\ WF_programs(InTh(MainStep)) /\ WF_programs(InTh(Tick))
    /\ WF_programs(InTree(ParentStep)) /\ WF_programs(InTree(ChildStep))
    /\ WF_programs(InTree(Exec)) /\ WF_programs(InTree(ImageReturns))
    /\ WF_programs(InSig(KernelStep)) /\ WF_programs(InSig(HandlerStep))

\* Every variable keeps its type.
ProgramsTypeOK == MapTypeOK /\ ThTypeOK /\ TreeTypeOK /\ SigTypeOK /\ FileTypeOK

\* What can be waited for happens: a process of a mapping ends, main ends its
\* process, a child is heard and reaped, a handler is called.
ProgramsProgress == MapEnds /\ ThreadsEnd /\ TreeEnds /\ SignalsHandled
===============================================================================
