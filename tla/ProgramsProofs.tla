----------------------------- MODULE ProgramsProofs -----------------------------
(***************************************************************************)
(* Proofs about ProcessTree, Signals and Files, whatever fails, whoever is *)
(* killed and however many signals are sent, and about their composition   *)
(* with Mapping and Threads in MCPrograms.                                 *)
(***************************************************************************)
EXTENDS MCPrograms, MappingProofs, ThreadsProofs, SequenceTheorems, TLAPS

-------------------------------------------------------------------------------
\* The calls of each program's processes.
Calls ==
    /\ treeProg = "pipe" =>
          /\ parent \in {"fork", "closeR", "write", "closeW", "wait", "report",
                         "returned", "failed", "killed"}
          /\ child \in {"none", "closeW", "read", "closeR", "zombie", "gone"}
    /\ treeProg = "wait" =>
          /\ parent \in {"fork", "wait", "report", "returned", "failed", "killed"}
          /\ child \in {"none", "exec", "image", "zombie", "gone"}
    /\ treeProg \notin {"pipe", "wait"} =>
          /\ parent \in {"fork", "exec", "image", "getc", "returned", "failed", "killed"}
          /\ child \in {"none", "getc", "exec", "image", "zombie", "gone"}

\* Who ended, with what status, and who knows.
Reaping ==
    /\ child \in {"zombie", "gone"} <=> status # NoStatus
    /\ child = "zombie" => ~ParentEnded
    /\ parent \in {"fork", "exec", "failed"} => child = "none"
    /\ told # NoStatus => told = status /\ child = "gone"
    /\ parent = "report" \/ (parent = "returned" /\ treeProg \in {"pipe", "wait"})
          => told # NoStatus

\* The pipe: a parent that is past its write() has written, and has its write end
\* until it is past its second close().
Piping ==
    /\ treeProg # "pipe" => heard = "nothing"
    /\ child \in {"none", "closeW", "read"} => heard = "nothing"
    /\ child = "closeR" => heard # "nothing"
    /\ treeProg = "pipe" /\ status = "0" => heard # "nothing"
    /\ treeProg = "pipe" =>
          /\ parent \in {"closeR", "write"} => "w" \in ends["parent"]
          /\ parent \in {"closeW", "wait", "report", "returned"} => piped \/ heard = "message"
    /\ heard = "end" => parent = "killed"

TreeInv == TreeTypeOK /\ Calls /\ Reaping /\ Piping

LEMMA TreeInvInit == TreeInit => TreeInv
  <1> SUFFICES ASSUME TreeInit PROVE TreeInv
    OBVIOUS
  <1>1. TreeTypeOK
    <2>1. ends \in [{"parent", "child"} -> SUBSET {"r", "w"}]
      <3>1. ends = [parent |-> {}, child |-> {}]
        BY DEF TreeInit
      <3>2. ends = [who \in {"parent", "child"} |-> {}]
        BY <3>1
      <3> QED
        BY <3>2
    <2>2. /\ treeProg \in TreePrograms /\ parent \in {"fork", "exec"} /\ child = "none"
          /\ piped = FALSE /\ heard = "nothing" /\ status = NoStatus /\ told = NoStatus
          /\ treeFaults = 0
      BY DEF TreeInit
    <2>3. piped \in BOOLEAN
      BY <2>2
    <2>4. treeFaults \in 0..TreeMaxFaults
      BY <2>2, TreeAssumption
    <2> QED
      BY <2>1, <2>2, <2>3, <2>4 DEF TreeTypeOK
  <1>2. Calls /\ Reaping /\ Piping
    BY TreeAssumption DEF TreeInit, Calls, Reaping, Piping, ParentEnded
  <1> QED
    BY <1>1, <1>2 DEF TreeInv

LEMMA ForkKeeps == ASSUME TreeInv, Fork \/ ForkFails PROVE TreeInv'
  <1>0. TreeTypeOK /\ Calls /\ Reaping /\ Piping /\ TreeMaxFaults \in Nat
        /\ treeProg \in {"pipe", "fork", "exec", "forkexec", "wait"}
    BY TreeAssumption DEF TreeInv, TreeTypeOK
  <1>1. CASE Fork
    <2>1. TreeTypeOK'
      BY <1>0, <1>1 DEF Fork, TreeTypeOK
    <2>2. Calls'
      BY <1>0, <1>1 DEF Fork, Calls
    <2>3. Reaping' /\ Piping'
      BY <1>0, <1>1 DEF Fork, Reaping, Piping, ParentEnded
    <2> QED
      BY <2>1, <2>2, <2>3 DEF TreeInv
  <1>2. CASE ForkFails
    <2>1. TreeTypeOK'
      BY <1>0, <1>2 DEF ForkFails, TreeTypeOK
    <2>2. Calls' /\ Reaping' /\ Piping'
      BY <1>0, <1>2 DEF ForkFails, Calls, Reaping, Piping, ParentEnded
    <2> QED
      BY <2>1, <2>2 DEF TreeInv
  <1> QED
    BY <1>1, <1>2

\* How a process ends: the parent in any state after its fork() that its program
\* allows, the child with a status.
LEMMA ParentEndKeeps ==
    ASSUME TreeInv, NEW how \in {"returned", "killed"}, EndParent(how), ~ParentEnded,
           treeFaults' \in 0..TreeMaxFaults,
           how = "returned" /\ treeProg \in {"pipe", "wait"} => parent = "report"
    PROVE  TreeInv'
  <1>0. TreeTypeOK /\ Calls /\ Reaping /\ Piping
    BY DEF TreeInv
  <1>1. TreeTypeOK'
    BY <1>0 DEF EndParent, TreeTypeOK
  <1>2. Calls' /\ Reaping'
    BY <1>0 DEF EndParent, Calls, Reaping, ParentEnded
  <1>3. Piping'
    BY <1>0 DEF EndParent, Calls, Reaping, Piping, ParentEnded
  <1> QED
    BY <1>1, <1>2, <1>3 DEF TreeInv

LEMMA ChildEndKeeps ==
    ASSUME TreeInv, NEW how \in {"0", "1", "255", "signal"}, EndChild(how), ChildAlive,
           treeFaults' \in 0..TreeMaxFaults,
           how = "0" /\ treeProg = "pipe" => child = "closeR"
    PROVE  TreeInv'
  <1>0. TreeTypeOK /\ Calls /\ Reaping /\ Piping /\ how # NoStatus
    BY TreeAssumption DEF TreeInv
  <1>1. TreeTypeOK'
    BY <1>0 DEF EndChild, TreeTypeOK
  <1>2. Calls' /\ Reaping'
    BY <1>0 DEF EndChild, Calls, Reaping, ParentEnded, ChildAlive
  <1>3. Piping'
    BY <1>0 DEF EndChild, Piping, ChildAlive, TreeTypeOK
  <1> QED
    BY <1>1, <1>2, <1>3 DEF TreeInv

LEMMA ParentCallsKeep ==
    ASSUME TreeInv, ParentCloses \/ ParentWrites \/ Wait PROVE TreeInv'
  <1>0. TreeTypeOK /\ Calls /\ Reaping /\ Piping
    BY DEF TreeInv
  <1>1. CASE ParentCloses
    <2>1. TreeTypeOK'
      BY <1>0, <1>1 DEF ParentCloses, CloseEnd, TreeTypeOK
    <2>2. Calls' /\ Reaping'
      BY <1>0, <1>1 DEF ParentCloses, Calls, Reaping, ParentEnded
    <2>3. Piping'
      BY <1>0, <1>1 DEF ParentCloses, CloseEnd, Piping, TreeTypeOK
    <2> QED
      BY <2>1, <2>2, <2>3 DEF TreeInv
  <1>2. CASE ParentWrites
    <2>1. TreeTypeOK'
      BY <1>0, <1>2 DEF ParentWrites, TreeTypeOK
    <2>2. Calls' /\ Reaping' /\ Piping'
      BY <1>0, <1>2 DEF ParentWrites, Calls, Reaping, Piping, ParentEnded
    <2> QED
      BY <2>1, <2>2 DEF TreeInv
  <1>3. CASE Wait
    <2>1. TreeTypeOK'
      BY <1>0, <1>3 DEF Wait, TreeTypeOK
    <2>2. Calls' /\ Reaping' /\ Piping'
      BY <1>0, <1>3 DEF Wait, Calls, Reaping, Piping, ParentEnded
    <2> QED
      BY <2>1, <2>2 DEF TreeInv
  <1> QED
    BY <1>1, <1>2, <1>3

LEMMA ChildCallsKeep ==
    ASSUME TreeInv, ChildCloses \/ ChildReads \/ Exec PROVE TreeInv'
  <1>0. TreeTypeOK /\ Calls /\ Reaping /\ Piping
    BY DEF TreeInv
  <1>1. CASE ChildCloses
    <2>1. TreeTypeOK'
      BY <1>0, <1>1 DEF ChildCloses, CloseEnd, TreeTypeOK
    <2>2. Calls' /\ Reaping'
      BY <1>0, <1>1 DEF ChildCloses, Calls, Reaping, ParentEnded
    <2>3. Piping'
      BY <1>0, <1>1 DEF ChildCloses, CloseEnd, Piping, TreeTypeOK
    <2> QED
      BY <2>1, <2>2, <2>3 DEF TreeInv
  <1>2. CASE ChildReads
    <2>1. TreeTypeOK'
      BY <1>0, <1>2 DEF ChildReads, TreeTypeOK
    <2>2. Calls' /\ Reaping'
      BY <1>0, <1>2 DEF ChildReads, Calls, Reaping, ParentEnded
    <2>3. treeProg = "pipe" /\ parent \in {"closeR", "write", "closeW", "wait", "report",
                                           "returned", "killed"}
      BY <1>0, <1>2 DEF ChildReads, Calls, Reaping
    <2>4. parent \in {"closeR", "write"} => "w" \in ends["parent"]
      BY <1>0, <2>3 DEF Piping
    <2>5. ~piped => "w" \notin ends["parent"]
      BY <1>0, <1>2 DEF ChildReads, AnyoneHas, TreeTypeOK
    <2>6. parent \in {"closeW", "wait", "report", "returned"} => piped
      BY <1>0, <1>2, <2>3 DEF ChildReads, Piping
    <2>7. ~piped => parent = "killed"
      BY <2>3, <2>4, <2>5, <2>6
    <2>8. Piping'
      BY <1>0, <1>2, <2>3, <2>6, <2>7 DEF ChildReads, Piping, Reaping
    <2> QED
      BY <2>1, <2>2, <2>8 DEF TreeInv
  <1>3. CASE Exec
    <2>1. TreeTypeOK'
      BY <1>0, <1>3 DEF Exec, TreeTypeOK
    <2>2. Calls' /\ Reaping' /\ Piping'
      BY <1>0, <1>3 DEF Exec, Calls, Reaping, Piping, ParentEnded
    <2> QED
      BY <2>1, <2>2 DEF TreeInv
  <1> QED
    BY <1>1, <1>2, <1>3

\* The steps that end the parent or the child.
LEMMA EndsKeep ==
    ASSUME TreeInv,
           \/ ParentBrokenPipe \/ ParentReturns \/ ChildReturns
           \/ ExecFails \/ ImageReturns \/ KeyPressed \/ TreeKill
    PROVE  TreeInv'
  <1>0. TreeTypeOK /\ Calls /\ treeFaults \in 0..TreeMaxFaults /\ TreeMaxFaults \in Nat
    BY TreeAssumption DEF TreeInv, TreeTypeOK
  <1>1. /\ treeFaults' \in 0..TreeMaxFaults
        /\ \/ /\ ~ParentEnded
              /\ \/ EndParent("killed")
                 \/ /\ EndParent("returned")
                    /\ treeProg \in {"pipe", "wait"} => parent = "report"
           \/ /\ ChildAlive
              /\ \E how \in {"0", "1", "255", "signal"} :
                    EndChild(how) /\ (how = "0" /\ treeProg = "pipe" => child = "closeR")
    <2>1. CASE ParentBrokenPipe \/ ParentReturns
      BY <1>0, <2>1 DEF ParentBrokenPipe, ParentReturns, ParentEnded
    <2>2. CASE ChildReturns
      BY <1>0, <2>2 DEF ChildReturns, ChildAlive
    <2>3. CASE ExecFails
      BY <1>0, <2>3 DEF ExecFails, Calls, ParentEnded, ChildAlive
    <2>4. CASE ImageReturns
      BY <1>0, <2>4 DEF ImageReturns, Calls, ParentEnded, ChildAlive
    <2>5. CASE KeyPressed
      BY <1>0, <2>5 DEF KeyPressed, Calls, ParentEnded, ChildAlive
    <2>6. CASE TreeKill
      BY <1>0, <2>6 DEF TreeKill
    <2> QED
      BY <2>1, <2>2, <2>3, <2>4, <2>5, <2>6
  <1>2. CASE ~ParentEnded /\ EndParent("killed")
    BY <1>1, <1>2, ParentEndKeeps
  <1>3. CASE /\ ~ParentEnded /\ EndParent("returned")
             /\ treeProg \in {"pipe", "wait"} => parent = "report"
    BY <1>1, <1>3, ParentEndKeeps
  <1>4. CASE /\ ChildAlive
             /\ \E how \in {"0", "1", "255", "signal"} :
                   EndChild(how) /\ (how = "0" /\ treeProg = "pipe" => child = "closeR")
    BY <1>1, <1>4, ChildEndKeeps
  <1> QED
    BY <1>1, <1>2, <1>3, <1>4

LEMMA TreeInvNext == TreeInv /\ [TreeNext]_treeVars => TreeInv'
  <1>1. TreeInv /\ UNCHANGED treeVars => TreeInv'
    BY DEF TreeInv, TreeTypeOK, Calls, Reaping, Piping, ParentEnded, treeVars
  <1>2. TreeInv /\ TreeNext => TreeInv'
    BY ForkKeeps, ParentCallsKeep, ChildCallsKeep, EndsKeep DEF TreeNext, ParentStep, ChildStep
  <1> QED
    BY <1>1, <1>2

\* What every reachable state of ProcessTree satisfies.
THEOREM TreeInvariant == TreeSpec => []TreeInv
  BY TreeInvInit, TreeInvNext, PTL DEF TreeSpec

\* Every variable of ProcessTree keeps its type.
THEOREM TreeTypeCorrect == TreeSpec => []TreeTypeOK
  <1>1. TreeInv => TreeTypeOK
    BY DEF TreeInv
  <1> QED
    BY <1>1, TreeInvariant, PTL

\* wait() tells the truth, the parent that waits returns last, and a child of
\* 1_pipe.c that exits by itself has its message unless its parent was killed.
THEOREM WaitIsRight == TreeSpec => []WaitTellsTruth
  <1>1. TreeInv => WaitTellsTruth
    BY DEF TreeInv, Reaping, Piping, TreeTypeOK, WaitTellsTruth
  <1> QED
    BY <1>1, TreeInvariant, PTL

-------------------------------------------------------------------------------
\* The process has its handler once it is past the call that sets it.
Settled ==
    /\ sigPc = "handle" => handling = NoInfo /\ \A sig \in Signals : disposition[sig] = "default"
    /\ sigPc \notin {"handle", "dead"} => disposition[Handled] = "handler"
    /\ \A sig \in Signals : disposition[sig] = "handler" => sig = Handled
    /\ sigPc = "handle" => \A sig \in Signals : pending[sig] # NoInfo => sig \in early
    /\ diedOf = Handled => Handled \in early

\* What is pending, handled or reported was sent, and a sender sends once.
WasIn(q, x) == \E i \in 1..Len(q) : q[i] = x
Rightly(q, sig, e) ==
    \E i \in 1..Len(q) : /\ q[i].from = e.from /\ q[i].sig = sig
                         /\ e.as \in {"number", q[i].how}
Traced ==
    /\ \A i, j \in 1..Len(sent) : sent[i].from = sent[j].from => i = j
    /\ \A sig \in Signals : pending[sig] # NoInfo => WasIn(sent, pending[sig])
    /\ handling # NoInfo => WasIn(sent, handling) /\ handling.sig = Handled
    /\ \A k \in 1..Len(reported) : Rightly(sent, Handled, reported[k])
    /\ diedOf # NoInfo => \E i \in 1..Len(sent) : sent[i].sig = diedOf

\* Reported signals, the handled one and the pending one were sent in this order.
Before(q, s, t) ==
    \E i, j \in 1..Len(q) : i < j /\ q[i].from = s /\ q[j].from = t
Ordered ==
    /\ \A k, l \in 1..Len(reported) : k < l => Before(sent, reported[k].from, reported[l].from)
    /\ handling # NoInfo /\ ~spoken =>
          \A k \in 1..Len(reported) : Before(sent, reported[k].from, handling.from)
    /\ pending[Handled] # NoInfo =>
          \A k \in 1..Len(reported) : Before(sent, reported[k].from, pending[Handled].from)
    /\ handling # NoInfo /\ pending[Handled] # NoInfo =>
          Before(sent, handling.from, pending[Handled].from)

SigInv == SigTypeOK /\ Settled /\ Traced /\ Ordered

LEMMA InfoFields ==
    /\ \A x \in Info : x.sig \in Signals /\ x.from \in Senders /\ x.how \in {"kill", "sigqueue"}
                       /\ x # NoInfo
    /\ NoInfo \notin Signals
  BY NoInfoAssumption DEF Info, Signals

LEMMA HandledSignal == Handled \in Signals
  BY DEF Handled, Signals

LEMMA SigInvInit == SigInit => SigInv
  <1> SUFFICES ASSUME SigInit PROVE SigInv
    OBVIOUS
  <1>1. /\ sigPc = "handle" /\ handling = NoInfo /\ early = {} /\ awaited = {}
        /\ diedOf = NoInfo /\ sigProg \in SigPrograms
        /\ sent = <<>> /\ reported = <<>> /\ Len(sent) = 0 /\ Len(reported) = 0
        /\ pending = [sig \in Signals |-> NoInfo]
        /\ disposition = [sig \in Signals |-> "default"]
    BY DEF SigInit
  <1>2. SigTypeOK
    <2>1. /\ <<>> \in Seq([from : Senders, as : {"number", "kill", "sigqueue"}])
          /\ <<>> \in Seq(Info)
      OBVIOUS
    <2>2. spoken \in BOOLEAN
      BY DEF SigInit
    <2> QED
      BY <1>1, <2>1, <2>2 DEF SigTypeOK
  <1>3. Settled /\ Traced /\ Ordered
    BY <1>1, HandledSignal, InfoFields DEF Settled, Traced, Ordered
  <1> QED
    BY <1>2, <1>3 DEF SigInv

\* The calls of main: they change what signals do, and discard some.
LEMMA SetupKeeps == ASSUME SigInv, SetupStep PROVE SigInv'
  <1>0. SigTypeOK /\ Settled /\ Traced /\ Ordered /\ Handled \in Signals
    BY HandledSignal DEF SigInv
  <1>1. /\ UNCHANGED <<sigProg, handling, spoken, reported, sent, early, awaited, diedOf, Handled>>
        /\ \A sig \in Signals : pending'[sig] \in {pending[sig], NoInfo}
    <2>1. CASE SetHandler
      BY <1>0, <2>1 DEF SetHandler, Handled, SigTypeOK
    <2>2. CASE IgnoreInt
      BY <1>0, <2>2 DEF IgnoreInt, Handled, SigTypeOK
    <2>3. CASE IgnoreKill
      BY <1>0, <2>3 DEF IgnoreKill, Handled, SigTypeOK
    <2> QED
      BY <2>1, <2>2, <2>3 DEF SetupStep
  <1>2. SigTypeOK'
    <2>1. CASE SetHandler
      BY <1>0, <2>1 DEF SetHandler, SigTypeOK
    <2>2. CASE IgnoreInt
      <3>1. pending' \in [Signals -> Info \union {NoInfo}]
        BY <1>0, <2>2 DEF IgnoreInt, SigTypeOK
      <3>2. \A sig \in Signals : pending'[sig] # NoInfo => pending'[sig].sig = sig
        BY <1>0, <1>1 DEF SigTypeOK
      <3> QED
        BY <1>0, <1>1, <2>2, <3>1, <3>2 DEF IgnoreInt, SigTypeOK, Signals
    <2>3. CASE IgnoreKill
      BY <1>0, <2>3 DEF IgnoreKill, SigTypeOK
    <2> QED
      BY <2>1, <2>2, <2>3 DEF SetupStep
  <1>3. Settled'
    <2>1. sigPc' \notin {"handle", "dead"} /\ sigPc # "dead"
      BY DEF SetupStep, SetHandler, IgnoreInt, IgnoreKill
    <2>2. \A sig \in Signals : disposition'[sig] = "handler" => sig = Handled
      BY <1>0 DEF SetupStep, SetHandler, IgnoreInt, IgnoreKill, SigTypeOK, Settled
    <2>3. disposition'[Handled] = "handler"
      <3>1. CASE SetHandler
        BY <1>0, <3>1 DEF SetHandler, SigTypeOK
      <3>2. CASE IgnoreInt
        BY <1>0, <3>2 DEF IgnoreInt, SigTypeOK, Settled, Handled
      <3>3. CASE IgnoreKill
        BY <1>0, <3>3 DEF IgnoreKill, Settled
      <3> QED
        BY <3>1, <3>2, <3>3 DEF SetupStep
    <2> QED
      BY <1>0, <1>1, <2>1, <2>2, <2>3 DEF Settled
  <1>4. Traced'
    BY <1>0, <1>1 DEF Traced, WasIn, Rightly
  <1>5. Ordered'
    <2>1. pending'[Handled] \in {pending[Handled], NoInfo}
      BY <1>0, <1>1
    <2>2. \A s, t : Before(sent', s, t) <=> Before(sent, s, t)
      BY <1>1 DEF Before
    <2> QED
      BY <1>0, <1>1, <2>1, <2>2 DEF Ordered
  <1> QED
    BY <1>2, <1>3, <1>4, <1>5 DEF SigInv

\* A signal that is sent comes after all the others.
LEMMA SendKeeps == ASSUME SigInv, NEW x \in Info, Send(x) PROVE SigInv'
  <1>0. SigTypeOK /\ Settled /\ Traced /\ Ordered /\ Handled \in Signals
    BY HandledSignal DEF SigInv
  <1>1. /\ UNCHANGED <<sigProg, sigPc, disposition, handling, spoken, reported, diedOf, Handled>>
        /\ sent' = Append(sent, x) /\ \A i \in 1..Len(sent) : sent[i].from # x.from
        /\ early' = IF sigPc = "handle" THEN early \union {x.sig} ELSE early
        /\ awaited' \in {awaited, awaited \union {x.from}}
        /\ \/ pending' = pending
           \/ pending' = [pending EXCEPT ![x.sig] = x] /\ Alive
    BY DEF Send, Handled
  <1>2. /\ sent \in Seq(Info) /\ sent' \in Seq(Info) /\ Len(sent) \in Nat
        /\ Len(sent') = Len(sent) + 1 /\ sent'[Len(sent) + 1] = x
        /\ \A i \in 1..Len(sent) : sent'[i] = sent[i]
        /\ x.sig \in Signals /\ x.from \in Senders /\ x # NoInfo
    BY <1>0, <1>1, AppendProperties, InfoFields DEF SigTypeOK
  <1>3. \A sig \in Signals : pending'[sig] = pending[sig] \/ (sig = x.sig /\ pending'[sig] = x)
    BY <1>0, <1>1, <1>2 DEF SigTypeOK
  <1>4. SigTypeOK'
    <2>1. pending' \in [Signals -> Info \union {NoInfo}]
      BY <1>0, <1>1, <1>2 DEF SigTypeOK
    <2>2. \A sig \in Signals : pending'[sig] # NoInfo => pending'[sig].sig = sig
      BY <1>0, <1>3 DEF SigTypeOK
    <2>3. early' \subseteq Signals /\ awaited' \subseteq Senders
      BY <1>0, <1>1, <1>2 DEF SigTypeOK
    <2> QED
      BY <1>0, <1>1, <1>2, <2>1, <2>2, <2>3 DEF SigTypeOK
  <1>5. Settled'
    <2>1. sigPc' = "handle" => \A sig \in Signals : pending'[sig] # NoInfo => sig \in early'
      BY <1>0, <1>1, <1>3 DEF Settled
    <2> QED
      BY <1>0, <1>1, <2>1 DEF Settled
  <1>6. Traced'
    <2>1. \A i, j \in 1..Len(sent') : sent'[i].from = sent'[j].from => i = j
      BY <1>0, <1>1, <1>2 DEF Traced
    <2>2. \A y : WasIn(sent, y) => WasIn(sent', y)
      BY <1>2 DEF WasIn
    <2>3. WasIn(sent', x)
      BY <1>2 DEF WasIn
    <2>4. \A e : Rightly(sent, Handled, e) => Rightly(sent', Handled, e)
      BY <1>1, <1>2 DEF Rightly
    <2>5. diedOf' # NoInfo => \E i \in 1..Len(sent') : sent'[i].sig = diedOf'
      <3>1. ASSUME diedOf # NoInfo PROVE \E i \in 1..Len(sent') : sent'[i].sig = diedOf
        <4>1. PICK i \in 1..Len(sent) : sent[i].sig = diedOf
          BY <1>0, <3>1 DEF Traced
        <4> QED
          BY <1>2, <4>1
      <3> QED
        BY <1>1, <3>1
    <2>6. \A sig \in Signals : pending'[sig] # NoInfo => WasIn(sent', pending'[sig])
      <3> TAKE sig \in Signals
      <3>1. CASE pending'[sig] = pending[sig]
        BY <1>0, <2>2, <3>1 DEF Traced
      <3>2. CASE pending'[sig] = x
        BY <2>3, <3>2
      <3> QED
        BY <1>3, <3>1, <3>2
    <2> QED
      BY <1>0, <1>1, <2>1, <2>2, <2>4, <2>5, <2>6 DEF Traced
  <1>7. Ordered'
    <2>1. \A s, t : Before(sent, s, t) => Before(sent', s, t)
      BY <1>2 DEF Before
    <2>2. ASSUME NEW i \in 1..Len(sent) PROVE Before(sent', sent[i].from, x.from)
      <3>1. i \in 1..Len(sent') /\ Len(sent) + 1 \in 1..Len(sent') /\ i < Len(sent) + 1
        BY <1>2
      <3> QED
        BY <1>2, <3>1 DEF Before
    <2>3. \A k \in 1..Len(reported) : Before(sent', reported[k].from, x.from)
      BY <1>0, <2>2 DEF Traced, Rightly
    <2>4. handling # NoInfo => Before(sent', handling.from, x.from)
      BY <1>0, <2>2 DEF Traced, WasIn
    <2>5. pending'[Handled] # NoInfo =>
             /\ \A k \in 1..Len(reported) : Before(sent', reported[k].from, pending'[Handled].from)
             /\ handling # NoInfo => Before(sent', handling.from, pending'[Handled].from)
      <3>1. CASE pending'[Handled] = pending[Handled]
        BY <1>0, <2>1, <3>1 DEF Ordered
      <3>2. CASE pending'[Handled] = x
        BY <2>3, <2>4, <3>2
      <3> QED
        BY <1>0, <1>3, <3>1, <3>2
    <2> QED
      BY <1>0, <1>1, <2>1, <2>5 DEF Ordered
  <1> QED
    BY <1>4, <1>5, <1>6, <1>7 DEF SigInv

LEMMA DieKeeps == ASSUME SigInv, NEW sig \in Signals, Die(sig) PROVE SigInv'
  <1>0. SigTypeOK /\ Settled /\ Traced /\ Ordered /\ Handled \in Signals
    BY HandledSignal DEF SigInv
  <1>1. /\ UNCHANGED <<sigProg, disposition, reported, sent, early, awaited, Handled>>
        /\ sigPc' = "dead" /\ diedOf' = sig /\ handling' = NoInfo /\ spoken' = FALSE
        /\ pending' = [other \in Signals |-> NoInfo]
        /\ Alive /\ pending[sig] # NoInfo /\ disposition[sig] = "default"
    BY DEF Die, Handled
  <1>2. SigTypeOK'
    <2>1. /\ pending' \in [Signals -> Info \union {NoInfo}] /\ spoken' \in BOOLEAN
          /\ \A other \in Signals : pending'[other] = NoInfo
      BY <1>1
    <2> QED
      BY <1>0, <1>1, <2>1 DEF SigTypeOK
  <1>3. Settled'
    <2>1. sig = Handled => Handled \in early
      BY <1>0, <1>1 DEF Settled, Alive
    <2> QED
      BY <1>0, <1>1, <2>1 DEF Settled
  <1>4. Traced'
    <2>1. PICK i \in 1..Len(sent) : sent[i] = pending[sig]
      BY <1>0, <1>1 DEF Traced, WasIn
    <2>2. sent[i].sig = sig
      BY <1>0, <1>1, <2>1 DEF SigTypeOK
    <2>3. \A e : Rightly(sent, Handled, e) <=> Rightly(sent', Handled, e)
      BY <1>1 DEF Rightly
    <2> QED
      BY <1>0, <1>1, <2>2, <2>3 DEF Traced
  <1>5. Ordered'
    BY <1>0, <1>1 DEF Ordered, Before
  <1> QED
    BY <1>2, <1>3, <1>4, <1>5 DEF SigInv

LEMMA HandleKeeps == ASSUME SigInv, NEW sig \in Signals, Handle(sig) PROVE SigInv'
  <1>0. SigTypeOK /\ Settled /\ Traced /\ Ordered /\ Handled \in Signals
    BY HandledSignal DEF SigInv
  <1>1. /\ UNCHANGED <<sigProg, sigPc, disposition, reported, sent, early, diedOf, Handled>>
        /\ handling' = pending[sig] /\ spoken' = FALSE /\ awaited' = {}
        /\ pending' = [pending EXCEPT ![sig] = NoInfo]
        /\ pending[sig] # NoInfo /\ disposition[sig] = "handler"
    BY DEF Handle, Handled
  <1>2. sig = Handled /\ sigPc # "handle"
    BY <1>0, <1>1 DEF Settled
  <1>3. /\ pending'[Handled] = NoInfo
        /\ \A other \in Signals : pending'[other] \in {pending[other], NoInfo}
    BY <1>0, <1>1, <1>2 DEF SigTypeOK
  <1>4. SigTypeOK'
    <2>1. spoken' \in BOOLEAN /\ pending' \in [Signals -> Info \union {NoInfo}]
      BY <1>0, <1>1 DEF SigTypeOK
    <2>2. \A other \in Signals : pending'[other] # NoInfo => pending'[other].sig = other
      BY <1>0, <1>3 DEF SigTypeOK
    <2> QED
      BY <1>0, <1>1, <2>1, <2>2 DEF SigTypeOK
  <1>5. Settled'
    BY <1>0, <1>1, <1>2 DEF Settled
  <1>6. Traced'
    <2>1. \A y : WasIn(sent, y) <=> WasIn(sent', y)
      BY <1>1 DEF WasIn
    <2>2. \A e : Rightly(sent, Handled, e) <=> Rightly(sent', Handled, e)
      BY <1>1 DEF Rightly
    <2>3. handling'.sig = Handled /\ WasIn(sent, handling')
      BY <1>0, <1>1, <1>2 DEF SigTypeOK, Traced
    <2>4. \A other \in Signals : pending'[other] # NoInfo => WasIn(sent, pending'[other])
      BY <1>0, <1>3 DEF Traced
    <2> QED
      BY <1>0, <1>1, <2>1, <2>2, <2>3, <2>4 DEF Traced
  <1>7. Ordered'
    BY <1>0, <1>1, <1>2, <1>3 DEF Ordered, Before
  <1> QED
    BY <1>4, <1>5, <1>6, <1>7 DEF SigInv

\* What is reported was sent after everything that was reported before.
LEMMA ReportKeeps == ASSUME SigInv, Report PROVE SigInv'
  <1>0. SigTypeOK /\ Settled /\ Traced /\ Ordered /\ Handled \in Signals
    BY HandledSignal DEF SigInv
  <1>1. /\ UNCHANGED <<sigProg, sigPc, disposition, pending, handling, sent, early, awaited, diedOf,
                       Handled>>
        /\ handling # NoInfo /\ ~spoken /\ spoken' = TRUE
    BY DEF Report, Handled
  <1>2. PICK e : /\ reported' = Append(reported, e) /\ e.from = handling.from
                 /\ e.as \in {"number", handling.how}
                 /\ e \in [from : Senders, as : {"number", "kill", "sigqueue"}]
    <2>1. handling \in Info /\ handling.from \in Senders /\ handling.how \in {"kill", "sigqueue"}
      BY <1>0, <1>1, InfoFields DEF SigTypeOK
    <2>2. CASE sigProg = "signal"
      <3>1. reported' = Append(reported, [from |-> handling.from, as |-> "number"])
        BY <2>2 DEF Report
      <3> QED
        BY <2>1, <3>1
    <2>3. CASE sigProg # "signal" /\ handling.how = "sigqueue"
      <3>1. reported' = Append(reported, [from |-> handling.from, as |-> "sigqueue"])
        BY <2>3 DEF Report, SiCode
      <3> QED
        BY <2>1, <2>3, <3>1
    <2>4. CASE sigProg # "signal" /\ handling.how = "kill"
      <3>1. reported' = Append(reported, [from |-> handling.from, as |-> "kill"])
        BY <2>4 DEF Report, SiCode
      <3> QED
        BY <2>1, <2>4, <3>1
    <2> QED
      BY <2>1, <2>2, <2>3, <2>4
  <1>3. /\ reported' \in Seq([from : Senders, as : {"number", "kill", "sigqueue"}])
        /\ Len(reported) \in Nat /\ Len(reported') = Len(reported) + 1
        /\ reported'[Len(reported) + 1] = e
        /\ \A k \in 1..Len(reported) : reported'[k] = reported[k]
    BY <1>0, <1>2, AppendProperties DEF SigTypeOK
  <1>4. SigTypeOK' /\ Settled'
    <2>1. spoken' \in BOOLEAN
      BY <1>1
    <2> QED
      BY <1>0, <1>1, <1>3, <2>1 DEF SigTypeOK, Settled
  <1>5. Traced'
    <2>1. Rightly(sent, Handled, e)
      BY <1>0, <1>1, <1>2 DEF Traced, WasIn, Rightly
    <2>2. \A k \in 1..Len(reported') : Rightly(sent, Handled, reported'[k])
      BY <1>0, <1>3, <2>1 DEF Traced
    <2> QED
      BY <1>0, <1>1, <2>2 DEF Traced
  <1>6. Ordered'
    <2>1. ASSUME NEW k \in 1..Len(reported'), NEW l \in 1..Len(reported'), k < l
          PROVE  Before(sent, reported'[k].from, reported'[l].from)
      <3>1. k \in 1..Len(reported) /\ reported'[k] = reported[k]
        BY <1>3, <2>1
      <3>2. CASE l = Len(reported) + 1
        BY <1>0, <1>1, <1>2, <1>3, <3>1, <3>2 DEF Ordered
      <3>3. CASE l # Len(reported) + 1
        <4>1. l \in 1..Len(reported) /\ reported'[l] = reported[l]
          BY <1>3, <3>3
        <4> QED
          BY <1>0, <2>1, <3>1, <4>1 DEF Ordered
      <3> QED
        BY <3>2, <3>3
    <2>2. pending[Handled] # NoInfo =>
             \A k \in 1..Len(reported') : Before(sent, reported'[k].from, pending[Handled].from)
      BY <1>0, <1>1, <1>2, <1>3 DEF Ordered
    <2> QED
      BY <1>0, <1>1, <2>1, <2>2 DEF Ordered
  <1> QED
    BY <1>4, <1>5, <1>6 DEF SigInv

LEMMA HandlerReturnsKeeps == ASSUME SigInv, HandlerReturns PROVE SigInv'
  <1>0. SigTypeOK /\ Settled /\ Traced /\ Ordered
    BY DEF SigInv
  <1>1. /\ UNCHANGED <<sigProg, sigPc, disposition, pending, reported, sent, early, awaited, diedOf,
                       Handled>>
        /\ handling' = NoInfo /\ spoken' = FALSE
    BY DEF HandlerReturns, Handled
  <1>2. SigTypeOK'
    <2>1. spoken' \in BOOLEAN
      BY <1>1
    <2> QED
      BY <1>0, <1>1, <2>1 DEF SigTypeOK
  <1>3. Settled' /\ Traced' /\ Ordered'
    BY <1>0, <1>1 DEF Settled, Traced, Ordered
  <1> QED
    BY <1>2, <1>3 DEF SigInv

LEMMA SigInvNext == SigInv /\ [SigNext]_sigVars => SigInv'
  <1>1. SigInv /\ UNCHANGED sigVars => SigInv'
    BY DEF SigInv, SigTypeOK, Settled, Traced, Ordered, Handled, sigVars
  <1>2. SigInv /\ SigNext => SigInv'
    BY SetupKeeps, SendKeeps, DieKeeps, HandleKeeps, ReportKeeps, HandlerReturnsKeeps
    DEF SigNext, KernelStep, HandlerStep
  <1> QED
    BY <1>1, <1>2

\* The place of a signal in sent.
LEMMA SentAtIs ==
    ASSUME Traced, NEW i \in 1..Len(sent) PROVE SentAt(sent[i].from) = i
  <1>1. \A j \in 1..Len(sent) : sent[j].from = sent[i].from => j = i
    BY DEF Traced
  <1> QED
    BY <1>1 DEF SentAt

\* What every reachable state of Signals satisfies.
THEOREM SigInvariant == SigSpec => []SigInv
  BY SigInvInit, SigInvNext, PTL DEF SigSpec

\* Every variable of Signals keeps its type.
THEOREM SigTypeCorrect == SigSpec => []SigTypeOK
  <1>1. SigInv => SigTypeOK
    BY DEF SigInv
  <1> QED
    BY <1>1, SigInvariant, PTL

\* The handler reports signals as they were sent and in that order, and its signal
\* ends the process only when it came before the handler, for any number of senders.
THEOREM HandlerIsRight == SigSpec => []HandledRight
  <1>1. SigInv => HandledRight
    <2> SUFFICES ASSUME SigInv PROVE HandledRight
      OBVIOUS
    <2>0. SigTypeOK /\ Settled /\ Traced /\ Ordered
      BY DEF SigInv
    <2>1. ASSUME NEW k \in 1..Len(reported), NEW l \in 1..Len(reported), k < l
          PROVE  SentAt(reported[k].from) < SentAt(reported[l].from)
      <3>1. PICK i, j \in 1..Len(sent) : /\ i < j /\ sent[i].from = reported[k].from
                                         /\ sent[j].from = reported[l].from
        BY <2>0, <2>1 DEF Ordered, Before
      <3>2. SentAt(sent[i].from) = i /\ SentAt(sent[j].from) = j
        BY <2>0, SentAtIs
      <3> QED
        BY <3>1, <3>2
    <2>2. ASSUME NEW k \in 1..Len(reported)
          PROVE  /\ sent[SentAt(reported[k].from)].sig = Handled
                 /\ reported[k].as \in {"number", sent[SentAt(reported[k].from)].how}
      <3>1. PICK i \in 1..Len(sent) : /\ sent[i].from = reported[k].from /\ sent[i].sig = Handled
                                      /\ reported[k].as \in {"number", sent[i].how}
        BY <2>0, <2>2 DEF Traced, Rightly
      <3>2. SentAt(reported[k].from) = i
        BY <2>0, <3>1, SentAtIs
      <3> QED
        BY <3>1, <3>2
    <2>3. diedOf = Handled => Handled \in early
      BY <2>0 DEF Settled
    <2>4. diedOf # NoInfo => diedOf \in {sent[i].sig : i \in 1..Len(sent)}
      BY <2>0 DEF Traced
    <2> QED
      BY <2>1, <2>2, <2>3, <2>4 DEF HandledRight
  <1> QED
    BY <1>1, SigInvariant, PTL

-------------------------------------------------------------------------------
(***************************************************************************)
(* Files.                                                                  *)
(***************************************************************************)

\* The steps of each program.
FileCalls ==
    /\ fileProg = "binary_low" => ~cut
    /\ \A r \in FileRuns :
        /\ fileProg = "link" => filePc[r] \in {"start", "symlink", "done", "failed", "killed"}
        /\ fileProg # "link" => filePc[r] # "symlink"
        /\ filePc[r] = "append" => fileProg \in {"text_low", "pos_low", "pos_high"}
        /\ filePc[r] = "seek" => fileProg \in {"pos_low", "pos_high"}

\* Runs that follow each other.
OneRun ==
    ~overlapped /\ fileProg # "link" =>
        \A q, r \in FileRuns : FileActive(q) /\ FileActive(r) => q = r

\* Where a run is in its text, and in the file.
Position(r) ==
    /\ filePc[r] = "start" => wrote[r] = 0 /\ offset[r] = 0
    /\ filePc[r] = "write" =>
          /\ wrote[r] = 0 \/ (fileProg = "pos_low" /\ wrote[r] = Width)
          /\ offset[r] <= wrote[r] /\ (~cut => offset[r] = wrote[r])
          /\ Firm => offset[r] <= Len(content)
    /\ filePc[r] \in {"read", "seek"} /\ Firm /\ ~cut => Len(content) >= TextLen
    /\ filePc[r] \in {"read", "append"} /\ fileProg = "text_low" => content # <<>>
    /\ filePc[r] = "append" /\ Firm =>
          /\ LastAt(r) <= Len(content) /\ (~cut => LastAt(r) >= TextLen)
          /\ ~overlapped => LastAt(r) = Len(content)
Positions == \A r \in FileRuns : Position(r)

\* The text, as far as the file goes.
Front ==
    fileProg \in {"text_high", "binary_high", "binary_low"} \/ (Firm /\ ~cut) =>
        \A i \in 1..Len(content) : i <= TextLen => content[i] = TextCell(i)

\* The places of the last lines, and of those a run knows.
Places ==
    /\ \A r \in FileRuns :
          /\ lineLen[r] # 0 => filePc[r] = "done"
          /\ \A q \in known[r] : filePc[q] = "done"
          /\ lineLen[r] # 0 /\ Firm =>
                lineAt[r] + lineLen[r] <= Len(content) /\ (lineAt[r] >= TextLen \/ cut)
    /\ \A r \in FileRuns : filePc[r] = "append" /\ Firm =>
          \A q \in known[r] : lineLen[q] # 0 => lineAt[q] + lineLen[q] <= LastAt(r)

\* A cell of a last line is where it was written, or under one of a later line
\* whose run did not know it; and behind the text there is nothing else.
Stay ==
    Firm => \A r \in FileRuns : \A k \in 1..lineLen[r] : BehindText(r, k) =>
        \/ Stands(r, k)
        \/ /\ fileProg = "pos_low" /\ overlapped
           /\ \E q \in FileRuns : content[lineAt[r] + k][3] = q /\ r \notin known[q]
Owned ==
    Firm => \A i \in 1..Len(content) : i > TextLen =>
        \E r \in FileRuns : \E k \in 1..lineLen[r] : i = lineAt[r] + k /\ Stands(r, k)

\* The links, and nothing else in 7_file_link.c.
Linked ==
    fileProg = "link" =>
        /\ content = <<>>
        /\ \A r \in FileRuns :
              /\ lineLen[r] = 0
              /\ filePc[r] \in {"symlink", "done"} => linkedBy = r
              /\ filePc[r] = "done" => symlinkedBy = r

FileInv ==
    /\ FileTypeOK /\ FileCalls /\ OneRun /\ Positions /\ Front /\ Places /\ Stay /\ Owned /\ Linked

FileCells == {"text", "last", "gap"} \X Nat \X (FileRuns \union {NoRun})

\* What a file is after a write.
LEMMA PutIs ==
    ASSUME NEW file \in Seq(FileCells), NEW at \in Nat, NEW size \in Nat,
           NEW cells \in [1..size -> FileCells]
    PROVE  /\ Put(file, at, cells) \in Seq(FileCells)
           /\ Len(Put(file, at, cells)) =
                 IF size # 0 /\ at + size > Len(file) THEN at + size ELSE Len(file)
           /\ \A i \in 1..Len(Put(file, at, cells)) :
                 Put(file, at, cells)[i] = IF i - at \in 1..size THEN cells[i - at]
                                           ELSE IF i <= Len(file) THEN file[i] ELSE Gap
  <1> DEFINE m == IF size # 0 /\ at + size > Len(file) THEN at + size ELSE Len(file)
             cell(i) == IF i - at \in 1..size THEN cells[i - at]
                        ELSE IF i <= Len(file) THEN file[i] ELSE Gap
             put == [i \in 1..m |-> cell(i)]
  <1>1. m \in Nat /\ Len(file) \in Nat
    BY LenProperties
  <1>2. cells \in Seq(FileCells) /\ Len(cells) = size
    <2>1. cells \in Seq(FileCells)
      BY IsASeq
    <2> QED
      BY <2>1, LenProperties
  <1>3. cells # <<>> <=> size # 0
    BY <1>2, EmptySeq
  <1>4. Gap \in FileCells
    BY DEF Gap, FileCells
  <1>5. \A i \in 1..m : cell(i) \in FileCells
    BY <1>1, <1>4, ElementOfSeq
  <1>6. put = Put(file, at, cells)
    BY <1>2, <1>3 DEF Put
  <1>7. put \in Seq(FileCells) /\ Len(put) = m /\ \A i \in 1..m : put[i] = cell(i)
    <2> HIDE DEF m, cell
    <2>1. put \in Seq(FileCells)
      BY <1>1, <1>5, IsASeq
    <2>2. Len(put) = m
      BY <1>1, <2>1, LenProperties
    <2> QED
      BY <2>1, <2>2
  <1> HIDE DEF put
  <1> QED
    BY <1>6, <1>7

\* The lengths are numbers, and one write() of a stream is all of the text.
LEMMA Lengths ==
    /\ Width \in Nat \ {0} /\ Chunk \in Nat \ {0} /\ TextLen \in Nat \ {0}
    /\ TextLen = IF fileProg \in {"pos_high", "pos_low"} THEN Width + Width ELSE Width
    /\ Chunk = IF fileProg = "pos_high" THEN Width + Width ELSE Width
    /\ NoRun \notin FileRuns /\ FileMaxFaults \in Nat
  BY FileAssumption DEF Chunk, TextLen, Buffered, HighPrograms

LEMMA FileInvInit == FileInit => FileInv
  <1> SUFFICES ASSUME FileInit PROVE FileInv
    OBVIOUS
  <1>1. FileTypeOK
    <2>1. content \in Seq({"text", "last", "gap"} \X Nat \X (FileRuns \union {NoRun}))
      BY DEF FileInit
    <2>2. overlapped \in BOOLEAN /\ cut \in BOOLEAN
      BY DEF FileInit
    <2>3. /\ fileProg \in FilePrograms
          /\ filePc \in [FileRuns -> {"start", "write", "read", "seek", "append", "symlink",
                                      "done", "failed", "killed"}]
          /\ wrote \in [FileRuns -> Nat] /\ offset \in [FileRuns -> Nat]
          /\ lineAt \in [FileRuns -> Nat] /\ lineLen \in [FileRuns -> 0..Width]
          /\ known \in [FileRuns -> SUBSET FileRuns]
          /\ fileFaults \in 0..FileMaxFaults
          /\ linkedBy \in FileRuns \union {NoRun} /\ symlinkedBy \in FileRuns \union {NoRun}
      BY FileAssumption DEF FileInit
    <2> QED
      BY <2>1, <2>2, <2>3 DEF FileTypeOK
  <1>2. FileCalls /\ OneRun /\ Positions /\ Linked
    BY DEF FileInit, FileCalls, OneRun, Positions, Position, FileActive, Linked
  <1>3. Len(content) = 0
    BY DEF FileInit
  <1>4. \A r \in FileRuns : filePc[r] = "start" /\ lineLen[r] = 0 /\ known[r] = {}
    BY DEF FileInit
  <1>5. Front /\ Places /\ Stay /\ Owned
    BY <1>3, <1>4 DEF Front, Places, Stay, Owned
  <1> QED
    BY <1>1, <1>2, <1>5 DEF FileInv

\* Only an open() makes a run active.
LEMMA OneRunKept ==
    ASSUME FileInv, NEW r \in FileRuns, NEW step,
           filePc' = [filePc EXCEPT ![r] = step], fileProg' = fileProg,
           overlapped' = overlapped,
           FileActive(r) \/ step = "failed"
    PROVE  OneRun'
  <1>1. ASSUME NEW q \in FileRuns, FileActive(q)' PROVE FileActive(q)
    BY <1>1 DEF FileInv, FileTypeOK, FileActive, FileEnded
  <1> QED
    BY <1>1 DEF FileInv, OneRun

\* What is said of the file and of the others' places stays true of a run that
\* neither writes nor seeks.
LEMMA FileStands ==
    ASSUME FileInv, NEW r \in FileRuns, NEW step \in {"failed", "killed", "done", "seek", "append",
                                                    "symlink"},
           filePc' = [filePc EXCEPT ![r] = step], filePc[r] # "done",
           step \in {"seek", "append"} => filePc[r] = "read",
           step = "append" => fileProg = "text_low",
           step = "done" => filePc[r] \in {"read", "symlink"},
           UNCHANGED <<fileProg, content, wrote, offset, lineAt, lineLen, known, overlapped, cut>>
    PROVE  Positions' /\ Front' /\ Places' /\ Stay' /\ Owned'
  <1>0. /\ FileTypeOK /\ Positions /\ Front /\ Places /\ Stay /\ Owned
        /\ filePc'[r] = step /\ \A q \in FileRuns \ {r} : filePc'[q] = filePc[q]
    BY DEF FileInv, FileTypeOK
  <1>1. /\ TextLen' = TextLen /\ (Firm' <=> Firm)
        /\ \A q \in FileRuns : LastAt(q)' = LastAt(q)
        /\ \A q \in FileRuns, k \in Nat : /\ BehindText(q, k)' <=> BehindText(q, k)
                                          /\ Stands(q, k)' <=> Stands(q, k)
    BY <1>0 DEF TextLen, Firm, LastAt, BehindText, Stands, LastCell
  <1>2. Positions'
    <2>1. ASSUME NEW q \in FileRuns, q # r
          PROVE  /\ filePc'[q] = filePc[q] /\ LastAt(q)' = LastAt(q)
      BY <1>0, <1>1, <2>1
    <2>2. fileProg = "text_low" /\ filePc[r] = "read" => LastAt(r) = Len(content)
      BY DEF LastAt
    <2>3. Len(content) \in Nat
      BY <1>0, LenProperties DEF FileTypeOK
    <2> QED
      BY <1>0, <1>1, <2>1, <2>2, <2>3 DEF Positions, Position
  <1>3. Front'
    BY <1>0, <1>1 DEF Front, TextCell
  <1>4. Places'
    <2>1. \A q \in FileRuns : filePc[q] = "done" => filePc'[q] = "done"
      BY <1>0
    <2>2. /\ fileProg = "text_low" => LastAt(r) = Len(content)
          /\ step = "append" => fileProg = "text_low"
      BY DEF LastAt
    <2>3. ASSUME NEW q \in FileRuns, filePc'[q] = "append", Firm, NEW p \in known[q], lineLen[p] # 0
          PROVE  lineAt[p] + lineLen[p] <= LastAt(q)
      <3>1. p \in FileRuns
        BY <1>0 DEF FileTypeOK
      <3> QED
        BY <1>0, <2>2, <2>3, <3>1 DEF Places
    <2>4. \A q \in FileRuns :
            /\ lineLen[q] # 0 => filePc'[q] = "done"
            /\ \A p \in known[q] : filePc'[p] = "done"
            /\ lineLen[q] # 0 /\ Firm =>
                  lineAt[q] + lineLen[q] <= Len(content) /\ (lineAt[q] >= TextLen \/ cut)
      BY <1>0, <2>1 DEF Places, FileTypeOK
    <2> QED
      BY <1>0, <1>1, <2>3, <2>4 DEF Places
  <1>5. Stay' /\ Owned'
    BY <1>0, <1>1 DEF Stay, Owned
  <1> QED
    BY <1>2, <1>3, <1>4, <1>5

LEMMA OpenWriteKeeps == ASSUME FileInv, NEW r \in FileRuns, OpenWrite(r) PROVE FileInv'
  <1>0. /\ FileTypeOK /\ FileCalls /\ Positions /\ Front /\ Places /\ Stay /\ Owned
        /\ filePc[r] = "start" /\ fileProg # "link"
        /\ content' = (IF Truncates THEN <<>> ELSE content)
        /\ lineLen' = (IF Truncates THEN [q \in FileRuns |-> 0] ELSE lineLen)
        /\ overlapped' = (overlapped \/ \E q \in FileRuns : FileActive(q))
        /\ filePc' = [filePc EXCEPT ![r] = "write"]
        /\ UNCHANGED <<fileProg, wrote, offset, linkedBy, symlinkedBy, lineAt, known, cut, fileFaults>>
    BY DEF FileInv, OpenWrite, FileGoTo, links
  <1>1. /\ TextLen' = TextLen /\ TextLen \in Nat /\ Width \in Nat \ {0}
        /\ Truncates => ~(fileProg \in LowPrograms)
        /\ ~Truncates => fileProg \in LowPrograms
    <2>1. fileProg \in HighPrograms \union LowPrograms
      BY <1>0, FileAssumption DEF FileTypeOK
    <2>2. TextLen' = TextLen
      BY <1>0 DEF TextLen
    <2> QED
      BY <2>1, <2>2, Lengths DEF Truncates, HighPrograms, LowPrograms
  <1>2. /\ filePc'[r] = "write"
        /\ \A q \in FileRuns \ {r} : filePc'[q] = filePc[q]
    BY <1>0 DEF FileTypeOK
  <1>3. ASSUME NEW q \in FileRuns, ~overlapped' PROVE ~FileActive(q) /\ ~overlapped
    BY <1>0, <1>3
  <1>4. ASSUME ~Truncates
        PROVE  /\ content' = content /\ lineLen' = lineLen /\ Firm' /\ Firm
               /\ \A q \in FileRuns : LastAt(q)' = LastAt(q)
               /\ \A q \in FileRuns, k \in Nat : /\ BehindText(q, k)' <=> BehindText(q, k)
                                                 /\ Stands(q, k)' <=> Stands(q, k)
    BY <1>0, <1>1, <1>4 DEF Firm, LastAt, BehindText, Stands, LastCell
  <1>5. ASSUME Truncates
        PROVE  /\ content' = <<>> /\ Len(content') = 0 /\ \A q \in FileRuns : lineLen'[q] = 0
               /\ Firm' => ~overlapped'
    BY <1>0, <1>1, <1>5 DEF Firm
  <1>6. FileTypeOK'
    <2>1. content' \in Seq({"text", "last", "gap"} \X Nat \X (FileRuns \union {NoRun}))
      BY <1>0 DEF FileTypeOK
    <2>2. lineLen' \in [FileRuns -> 0..Width]
      BY <1>0, <1>1 DEF FileTypeOK
    <2>3. overlapped' \in BOOLEAN /\ cut' \in BOOLEAN
      BY <1>0 DEF FileTypeOK
    <2> QED
      BY <1>0, <2>1, <2>2, <2>3 DEF FileTypeOK
  <1>7. FileCalls'
    BY <1>0, <1>2 DEF FileCalls
  <1>8. OneRun'
    BY <1>2, <1>3 DEF OneRun, FileActive, FileEnded
  <1>9. Positions'
    <2> SUFFICES ASSUME NEW q \in FileRuns
                 PROVE  Position(q)'
      BY DEF Positions, Position
    <2>0. Len(content) \in Nat
      BY <1>0, LenProperties DEF FileTypeOK
    <2>1. CASE q = r
      BY <1>0, <1>2, <1>4, <1>5, <2>0, <2>1 DEF Positions, Position
    <2>2. CASE q # r /\ ~Truncates
      <3>1. overlapped => overlapped'
        BY <1>0
      <3> QED
        BY <1>0, <1>1, <1>2, <1>4, <2>2, <3>1 DEF Positions, Position
    <2>3. CASE q # r /\ Truncates
      <3>1. Firm' => filePc'[q] \notin {"write", "read", "seek", "append"}
        BY <1>2, <1>3, <1>5, <2>3 DEF FileActive, FileEnded
      <3>2. fileProg # "text_low"
        BY <1>1, <2>3 DEF LowPrograms
      <3> QED
        BY <1>0, <1>2, <2>3, <3>1, <3>2 DEF Positions, Position
    <2> QED
      BY <2>1, <2>2, <2>3
  <1>10. Front'
    <2>1. CASE Truncates
      BY <1>5, <2>1 DEF Front
    <2>2. CASE ~Truncates
      BY <1>0, <1>1, <1>4, <2>2 DEF Front, TextCell
    <2> QED
      BY <2>1, <2>2
  <1>11. Places'
    <2>1. \A q \in FileRuns : filePc[q] = "done" => filePc'[q] = "done"
      BY <1>0, <1>2
    <2>2. \A q \in FileRuns : \A p \in known'[q] : p \in FileRuns /\ filePc'[p] = "done"
      BY <1>0, <2>1 DEF Places, FileTypeOK
    <2>3. CASE Truncates
      BY <1>5, <2>2, <2>3 DEF Places
    <2>4. CASE ~Truncates
      <3>1. \A q \in FileRuns : filePc'[q] = "append" => filePc[q] = "append"
        BY <1>2
      <3> QED
        BY <1>0, <1>1, <1>4, <2>1, <2>2, <2>4, <3>1 DEF Places
    <2> QED
      BY <2>3, <2>4
  <1>12. Stay' /\ Owned'
    <2>1. CASE Truncates
      BY <1>1, <1>5, <2>1 DEF Stay, Owned
    <2>2. CASE ~Truncates
      <3>1. overlapped => overlapped'
        BY <1>0
      <3> QED
        BY <1>0, <1>1, <1>4, <2>2, <3>1 DEF Stay, Owned
    <2> QED
      BY <2>1, <2>2
  <1>13. Linked'
    BY <1>0 DEF Linked
  <1> QED
    BY <1>6, <1>7, <1>8, <1>9, <1>10, <1>11, <1>12, <1>13 DEF FileInv

\* A write of some cells of the text, with which a run goes on or, in
\* 4_file_binary_low.c, may end.
LEMMA PutTextKeeps ==
    ASSUME FileInv, NEW r \in FileRuns, NEW size \in 0..Chunk, PutText(r, size),
           fileProg = "text_low" => size # 0,
           \/ NextWrite(r) /\ size = Chunk /\ cut' = cut
           \/ NextWrite(r) /\ fileProg # "binary_low" /\ cut' = TRUE
           \/ FileGoTo(r, "failed") /\ UNCHANGED <<wrote, cut>>,
           fileFaults' \in 0..FileMaxFaults
    PROVE  FileInv'
  <1> DEFINE cells == [k \in 1..size |-> TextCell(wrote[r] + k)]
             end == offset[r] + size
  <1>0. /\ FileTypeOK /\ FileCalls /\ OneRun /\ Positions /\ Front /\ Places /\ Stay /\ Owned
        /\ filePc[r] = "write" /\ fileProg # "link"
        /\ content' = Put(content, offset[r], cells)
        /\ offset' = [offset EXCEPT ![r] = end]
        /\ UNCHANGED <<fileProg, linkedBy, symlinkedBy, lineAt, lineLen, known, overlapped>>
    BY DEF FileInv, PutText, links, FileCalls
  <1>1. /\ TextLen' = TextLen /\ (Firm' <=> Firm)
        /\ TextLen \in Nat /\ Width \in Nat \ {0} /\ Chunk \in Nat \ {0} /\ size \in Nat
        /\ wrote[r] \in Nat /\ offset[r] \in Nat /\ end \in Nat /\ Len(content) \in Nat
        /\ cut \in BOOLEAN /\ cut' \in BOOLEAN /\ (cut => cut')
    <2>1. TextLen' = TextLen /\ (Firm' <=> Firm)
      BY <1>0 DEF TextLen, Firm
    <2>2. TextLen \in Nat /\ Width \in Nat \ {0} /\ Chunk \in Nat \ {0} /\ size \in Nat
      BY Lengths
    <2>3. wrote[r] \in Nat /\ offset[r] \in Nat /\ Len(content) \in Nat
      BY <1>0, LenProperties DEF FileTypeOK
    <2>4. cut \in BOOLEAN
      BY <1>0 DEF FileTypeOK
    <2>5. cut' = cut \/ cut' = TRUE
      OBVIOUS
    <2>6. cut' \in BOOLEAN /\ (cut => cut')
      <3>1. CASE cut' = cut
        BY <2>4, <3>1
      <3>2. CASE cut' = TRUE
        BY <3>2
      <3> QED
        BY <2>5, <3>1, <3>2
    <2>7. end \in Nat
      BY <2>2, <2>3
    <2> HIDE DEF end
    <2> QED
      BY <2>1, <2>2, <2>3, <2>4, <2>6, <2>7
  <1>2. /\ wrote[r] + Chunk <= TextLen /\ offset[r] <= wrote[r] /\ end <= TextLen
        /\ ~cut => offset[r] = wrote[r]
        /\ Firm => offset[r] <= Len(content)
        /\ wrote[r] = 0 \/ (fileProg = "pos_low" /\ wrote[r] = Width)
        /\ wrote[r] + Chunk = TextLen \/ (fileProg = "pos_low" /\ wrote[r] + Chunk = Width)
    <2>1. /\ offset[r] <= wrote[r] /\ (~cut => offset[r] = wrote[r])
          /\ Firm => offset[r] <= Len(content)
          /\ wrote[r] = 0 \/ (fileProg = "pos_low" /\ wrote[r] = Width)
      BY <1>0 DEF Positions, Position
    <2>2. /\ wrote[r] + Chunk <= TextLen
          /\ wrote[r] + Chunk = TextLen \/ (fileProg = "pos_low" /\ wrote[r] + Chunk = Width)
      BY <1>1, <2>1, Lengths
    <2> QED
      BY <1>1, <2>1, <2>2
  <1>3. /\ content' \in Seq(FileCells)
        /\ Len(content') = IF size # 0 /\ end > Len(content) THEN end ELSE Len(content)
        /\ \A i \in 1..Len(content') :
              content'[i] = IF i - offset[r] \in 1..size THEN TextCell(wrote[r] + (i - offset[r]))
                            ELSE IF i <= Len(content) THEN content[i] ELSE Gap
    <2>1. cells \in [1..size -> FileCells]
      BY <1>1 DEF TextCell, FileCells
    <2>2. content \in Seq(FileCells)
      BY <1>0 DEF FileTypeOK, FileCells
    <2>3. \A k \in 1..size : cells[k] = TextCell(wrote[r] + k)
      OBVIOUS
    <2> HIDE DEF cells
    <2>4. /\ Put(content, offset[r], cells) \in Seq(FileCells)
          /\ Len(Put(content, offset[r], cells)) =
                IF size # 0 /\ offset[r] + size > Len(content) THEN offset[r] + size ELSE Len(content)
          /\ \A i \in 1..Len(Put(content, offset[r], cells)) :
                Put(content, offset[r], cells)[i] = IF i - offset[r] \in 1..size THEN cells[i - offset[r]]
                                          ELSE IF i <= Len(content) THEN content[i] ELSE Gap
      BY <1>1, <2>1, <2>2, PutIs
    <2> QED
      BY <1>0, <2>3, <2>4
  <1> HIDE DEF cells
  <1>4. /\ Len(content') \in Nat /\ Len(content') >= Len(content)
        /\ Len(content') <= Len(content) \/ Len(content') <= TextLen
        /\ size # 0 => Len(content') >= end
        /\ \A i \in 1..Len(content') : i > TextLen => i <= Len(content) /\ content'[i] = content[i]
    <2> HIDE DEF end
    <2>1. /\ Len(content') \in Nat /\ Len(content') >= Len(content)
          /\ Len(content') <= Len(content) \/ Len(content') <= TextLen
          /\ size # 0 => Len(content') >= end
      BY <1>1, <1>2, <1>3
    <2>2. ASSUME NEW i \in 1..Len(content'), i > TextLen
          PROVE  i <= Len(content) /\ content'[i] = content[i]
      <3>1. i \in Nat /\ i <= Len(content)
        BY <1>1, <2>1, <2>2
      <3>2. i - offset[r] \notin 1..size
        BY <1>1, <1>2, <2>2, <3>1 DEF end
      <3> QED
        BY <1>3, <3>1, <3>2
    <2> QED
      BY <2>1, <2>2
  <1>5. /\ filePc'[r] \in {"write", "read", "failed"}
        /\ filePc'[r] = "write" => /\ fileProg = "pos_low" /\ wrote'[r] = Width
                                   /\ wrote'[r] = wrote[r] + Chunk
                                   /\ (~cut' => size = Chunk)
        /\ filePc'[r] = "read" => wrote[r] + Chunk = TextLen /\ (~cut' => size = Chunk)
        /\ \A q \in FileRuns \ {r} : filePc'[q] = filePc[q] /\ wrote'[q] = wrote[q]
        /\ \E step : filePc' = [filePc EXCEPT ![r] = step]
    BY <1>0, <1>1, <1>2 DEF NextWrite, FileGoTo, FileTypeOK
  <1>6. FileTypeOK'
    <2>1. content' \in Seq({"text", "last", "gap"} \X Nat \X (FileRuns \union {NoRun}))
      BY <1>3 DEF FileCells
    <2>2. filePc' \in [FileRuns -> {"start", "write", "read", "seek", "append", "symlink",
                                "done", "failed", "killed"}]
      <3> PICK step \in {"write", "read", "failed"} : filePc' = [filePc EXCEPT ![r] = step]
        BY DEF NextWrite, FileGoTo
      <3> QED
        BY <1>0 DEF FileTypeOK
    <2>5. wrote' \in [FileRuns -> Nat]
      <3>1. wrote' = [wrote EXCEPT ![r] = @ + Chunk] \/ wrote' = wrote
        BY DEF NextWrite
      <3>2. wrote[r] + Chunk \in Nat
        BY <1>1
      <3>3. wrote \in [FileRuns -> Nat]
        BY <1>0 DEF FileTypeOK
      <3> QED
        BY <3>1, <3>2, <3>3
    <2>3. offset' \in [FileRuns -> Nat]
      BY <1>0, <1>1 DEF FileTypeOK
    <2> HIDE DEF end
    <2>4. overlapped' \in BOOLEAN /\ cut' \in BOOLEAN
      BY <1>0, <1>1 DEF FileTypeOK
    <2> QED
      BY <1>0, <2>1, <2>2, <2>3, <2>4, <2>5 DEF FileTypeOK
  <1>7. FileCalls'
    <2>1. fileProg = "binary_low" => ~cut'
      BY <1>0 DEF FileCalls
    <2> QED
      BY <1>0, <1>5, <2>1 DEF FileCalls
  <1>8. OneRun'
    <2> PICK step : filePc' = [filePc EXCEPT ![r] = step]
      BY <1>5
    <2> QED
      BY <1>0, OneRunKept DEF FileActive, FileEnded
  <1>9. Positions'
    <2> SUFFICES ASSUME NEW q \in FileRuns
                 PROVE  Position(q)'
      BY DEF Positions, Position
    <2>1. CASE q = r
      <3>1. offset'[r] = end
        BY <1>0 DEF FileTypeOK
      <3>2. filePc'[r] = "write" => offset'[r] <= wrote'[r] /\ (~cut' => offset'[r] = wrote'[r])
        BY <1>1, <1>2, <1>5, <3>1
      <3>3. Firm => offset'[r] <= Len(content')
        BY <1>1, <1>2, <1>3, <1>4, <3>1
      <3>4. filePc'[r] = "read" /\ ~cut' => Len(content') >= TextLen
        BY <1>1, <1>2, <1>4, <1>5
      <3>5. fileProg = "text_low" => content' # <<>>
        <4>1. fileProg = "text_low" => Len(content') # 0
          BY <1>1, <1>4
        <4> QED
          BY <1>3, <4>1, EmptySeq
      <3> QED
        BY <1>0, <1>1, <1>5, <2>1, <3>2, <3>3, <3>4, <3>5 DEF Position
    <2>2. CASE q # r
      <3>1. /\ filePc'[q] = filePc[q] /\ wrote'[q] = wrote[q] /\ offset'[q] = offset[q]
            /\ offset[q] \in Nat /\ wrote[q] \in Nat
        BY <1>0, <1>5, <2>2 DEF FileTypeOK
      <3>2. content # <<>> => content' # <<>>
        <4>1. content \in Seq(FileCells)
          BY <1>0 DEF FileTypeOK, FileCells
        <4> QED
          BY <1>1, <1>3, <1>4, <4>1, EmptySeq
      <3>3. filePc[q] = "append" => overlapped
        BY <1>0, <2>2 DEF OneRun, FileActive, FileEnded
      <3>4. /\ filePc[q] = "append" /\ Firm =>
                 LastAt(q) <= Len(content) /\ (~cut => LastAt(q) >= TextLen)
            /\ LastAt(q) = (IF fileProg = "text_low" THEN Len(content) ELSE offset[q])
            /\ LastAt(q)' = (IF fileProg = "text_low" THEN Len(content') ELSE offset[q])
        BY <1>0, <3>1 DEF Positions, Position, LastAt
      <3>5. filePc[q] = "append" /\ Firm =>
                 LastAt(q)' <= Len(content') /\ (~cut' => LastAt(q)' >= TextLen)
        BY <1>1, <1>4, <3>1, <3>4
      <3>6. /\ filePc[q] = "start" => wrote[q] = 0 /\ offset[q] = 0
            /\ filePc[q] = "write" =>
                  /\ wrote[q] = 0 \/ (fileProg = "pos_low" /\ wrote[q] = Width)
                  /\ offset[q] <= wrote[q] /\ (~cut => offset[q] = wrote[q])
                  /\ Firm => offset[q] <= Len(content)
            /\ filePc[q] \in {"read", "seek"} /\ Firm /\ ~cut => Len(content) >= TextLen
            /\ filePc[q] \in {"read", "append"} /\ fileProg = "text_low" => content # <<>>
        BY <1>0 DEF Positions, Position
      <3>7. /\ filePc[q] = "write" /\ Firm => offset[q] <= Len(content')
            /\ filePc[q] \in {"read", "seek"} /\ Firm /\ ~cut' => Len(content') >= TextLen
        BY <1>1, <1>4, <3>1, <3>6
      <3> QED
        BY <1>0, <1>1, <3>1, <3>2, <3>3, <3>5, <3>6, <3>7 DEF Position
    <2> QED
      BY <2>1, <2>2
  <1>10. Front'
    <2> SUFFICES ASSUME fileProg \in {"text_high", "binary_high", "binary_low"} \/ (Firm /\ ~cut'),
                        NEW i \in 1..Len(content'), i <= TextLen
                 PROVE  content'[i] = TextCell(i)
      BY <1>0, <1>1 DEF Front, TextCell
    <2>1. i \in Nat \ {0} /\ Len(content') \in Nat
      BY <1>4
    <2>2. offset[r] = wrote[r] /\ offset[r] <= Len(content)
      BY <1>1, <1>2
    <2>3. CASE i - offset[r] \in 1..size
      <3>1. wrote[r] + (i - offset[r]) = i
        BY <1>1, <2>1, <2>2
      <3> QED
        BY <1>3, <2>3, <3>1
    <2>4. CASE i - offset[r] \notin 1..size
      <3>1. i <= Len(content)
        BY <1>1, <1>3, <2>1, <2>2, <2>4
      <3>2. content[i] = TextCell(i)
        BY <1>0, <1>1, <2>1, <3>1 DEF Front
      <3> QED
        BY <1>3, <2>4, <3>1, <3>2
    <2> QED
      BY <2>3, <2>4
  <1>11. Places'
    <2>1. \A q \in FileRuns : filePc[q] = "done" => filePc'[q] = "done"
      BY <1>0, <1>5
    <2>2. ASSUME NEW q \in FileRuns
          PROVE  /\ lineLen[q] # 0 => filePc'[q] = "done"
                 /\ \A p \in known[q] : filePc'[p] = "done"
                 /\ lineLen[q] # 0 /\ Firm =>
                       lineAt[q] + lineLen[q] <= Len(content') /\ (lineAt[q] >= TextLen \/ cut')
      <3>1. /\ lineAt[q] \in Nat /\ lineLen[q] \in Nat /\ known[q] \subseteq FileRuns
        BY <1>0, <1>1 DEF FileTypeOK
      <3>2. /\ lineLen[q] # 0 => filePc[q] = "done"
            /\ \A p \in known[q] : filePc[p] = "done"
            /\ lineLen[q] # 0 /\ Firm =>
                 lineAt[q] + lineLen[q] <= Len(content) /\ (lineAt[q] >= TextLen \/ cut)
        BY <1>0 DEF Places
      <3>3. lineLen[q] # 0 /\ Firm => lineAt[q] + lineLen[q] <= Len(content')
        BY <1>1, <1>4, <3>1, <3>2
      <3> QED
        BY <1>1, <2>1, <3>1, <3>2, <3>3
    <2>3. ASSUME NEW q \in FileRuns, filePc'[q] = "append", Firm, NEW p \in known[q], lineLen[p] # 0
          PROVE  lineAt[p] + lineLen[p] <= LastAt(q)'
      <3>1. q # r /\ filePc[q] = "append" /\ p \in FileRuns /\ offset'[q] = offset[q]
        BY <1>0, <1>5, <2>3 DEF FileTypeOK
      <3>2. lineAt[p] + lineLen[p] <= LastAt(q) /\ lineAt[p] \in Nat /\ lineLen[p] \in Nat
        BY <1>0, <1>1, <2>3, <3>1 DEF Places, FileTypeOK
      <3>3. /\ LastAt(q) = (IF fileProg = "text_low" THEN Len(content) ELSE offset[q])
            /\ LastAt(q)' = (IF fileProg = "text_low" THEN Len(content') ELSE offset[q])
        BY <1>0, <3>1 DEF LastAt
      <3> QED
        BY <1>1, <1>4, <3>2, <3>3
    <2> QED
      BY <1>0, <1>1, <2>2, <2>3 DEF Places
  <1>12. \A q \in FileRuns, k \in Nat :
            /\ BehindText(q, k)' <=> BehindText(q, k)
            /\ BehindText(q, k) /\ lineAt[q] + k <= Len(content) =>
                  /\ content'[lineAt[q] + k] = content[lineAt[q] + k]
                  /\ Stands(q, k)' <=> Stands(q, k)
    <2> TAKE q \in FileRuns, k \in Nat
    <2>1. BehindText(q, k)' <=> BehindText(q, k)
      BY <1>0, <1>1 DEF BehindText
    <2>2. ASSUME BehindText(q, k), lineAt[q] + k <= Len(content)
          PROVE  /\ content'[lineAt[q] + k] = content[lineAt[q] + k]
                 /\ Stands(q, k)' <=> Stands(q, k)
      <3>0. lineAt[q] \in Nat /\ lineAt[q] + k > TextLen
        BY <1>0, <2>2 DEF BehindText, FileTypeOK
      <3>1. lineAt[q] + k \in 1..Len(content') /\ lineAt[q] + k > TextLen
        BY <1>1, <1>4, <2>2, <3>0
      <3>2. content'[lineAt[q] + k] = content[lineAt[q] + k]
        BY <1>4, <3>1
      <3> QED
        BY <1>0, <3>2 DEF Stands, LastCell
    <2> QED
      BY <2>1, <2>2
  <1>13. Stay'
    <2> SUFFICES ASSUME Firm, NEW q \in FileRuns, NEW k \in 1..lineLen[q], BehindText(q, k)'
                 PROVE  \/ Stands(q, k)'
                        \/ /\ fileProg = "pos_low" /\ overlapped
                           /\ \E p \in FileRuns : content'[lineAt[q] + k][3] = p /\ q \notin known[p]
      BY <1>0, <1>1 DEF Stay
    <2>1. k \in Nat /\ lineLen[q] # 0 /\ lineAt[q] + k <= Len(content)
      <3>1. lineLen[q] \in Nat /\ lineAt[q] \in Nat
        BY <1>0, <1>1 DEF FileTypeOK
      <3>2. lineLen[q] # 0 /\ k \in Nat
        BY <3>1
      <3>3. lineAt[q] + lineLen[q] <= Len(content)
        BY <1>0, <3>2 DEF Places
      <3> QED
        BY <1>1, <3>1, <3>2, <3>3
    <2> QED
      BY <1>0, <1>12, <2>1 DEF Stay
  <1>14. Owned'
    <2> SUFFICES ASSUME Firm, NEW i \in 1..Len(content'), i > TextLen
                 PROVE  \E q \in FileRuns : \E k \in 1..lineLen[q] : i = lineAt[q] + k /\ Stands(q, k)'
      BY <1>0, <1>1 DEF Owned
    <2>1. i \in 1..Len(content)
      BY <1>1, <1>4
    <2>2. PICK q \in FileRuns : \E k \in 1..lineLen[q] : i = lineAt[q] + k /\ Stands(q, k)
      BY <1>0, <2>1 DEF Owned
    <2>3. PICK k \in 1..lineLen[q] : i = lineAt[q] + k /\ Stands(q, k)
      BY <2>2
    <2>4. k \in Nat /\ BehindText(q, k) /\ lineAt[q] + k <= Len(content)
      BY <1>0, <1>1, <2>1, <2>3 DEF FileTypeOK, BehindText
    <2> QED
      BY <1>12, <2>3, <2>4
  <1>15. Linked'
    BY <1>0 DEF Linked
  <1> QED
    BY <1>6, <1>7, <1>8, <1>9, <1>10, <1>11, <1>13, <1>14, <1>15 DEF FileInv

\* A write of some cells of a last line.
LEMMA PutLastKeeps ==
    ASSUME FileInv, NEW r \in FileRuns, NEW size \in 0..Width, PutLast(r, size),
           fileProg = "text_low" => size # 0,
           fileFaults' \in 0..FileMaxFaults
    PROVE  FileInv'
  <1> DEFINE cells == [k \in 1..size |-> LastCell(r, k)]
             at == LastAt(r)
  <1>0. /\ FileTypeOK /\ FileCalls /\ OneRun /\ Positions /\ Front /\ Places /\ Stay /\ Owned
        /\ filePc[r] = "append" /\ fileProg \in {"text_low", "pos_low", "pos_high"}
        /\ content' = Put(content, at, cells)
        /\ lineAt' = [lineAt EXCEPT ![r] = at]
        /\ lineLen' = [lineLen EXCEPT ![r] = size]
        /\ filePc' = [filePc EXCEPT ![r] = "done"]
        /\ UNCHANGED <<fileProg, wrote, offset, linkedBy, symlinkedBy, known, overlapped, cut>>
    BY DEF FileInv, PutLast, FileGoTo, links, FileCalls
  <1>1. /\ TextLen' = TextLen /\ (Firm' <=> Firm)
        /\ TextLen \in Nat /\ Width \in Nat \ {0} /\ size \in Nat
        /\ Len(content) \in Nat /\ at \in Nat
    <2>1. TextLen' = TextLen /\ (Firm' <=> Firm)
      BY <1>0 DEF TextLen, Firm
    <2>2. TextLen \in Nat /\ Width \in Nat \ {0} /\ size \in Nat
      BY Lengths
    <2>3. Len(content) \in Nat /\ offset[r] \in Nat
      BY <1>0, LenProperties DEF FileTypeOK
    <2> QED
      BY <2>1, <2>2, <2>3 DEF LastAt
  <1>2. /\ fileProg = "text_low" => at = Len(content)
        /\ Firm => at <= Len(content) /\ (~cut => at >= TextLen)
        /\ Firm /\ ~overlapped => at = Len(content)
        /\ lineLen[r] = 0
        /\ Firm /\ overlapped => fileProg # "pos_high"
    <2>1. /\ Firm => at <= Len(content) /\ (~cut => at >= TextLen)
          /\ Firm /\ ~overlapped => at = Len(content)
      BY <1>0 DEF Positions, Position
    <2>2. lineLen[r] = 0
      BY <1>0 DEF Places
    <2>3. Firm /\ overlapped => fileProg # "pos_high"
      BY DEF Firm, LowPrograms
    <2>4. fileProg = "text_low" => at = Len(content)
      BY DEF LastAt
    <2> HIDE DEF at
    <2> QED
      BY <2>1, <2>2, <2>3, <2>4
  <1>3. /\ content' \in Seq(FileCells)
        /\ Len(content') = IF size # 0 /\ at + size > Len(content) THEN at + size ELSE Len(content)
        /\ \A i \in 1..Len(content') :
              content'[i] = IF i - at \in 1..size THEN LastCell(r, i - at)
                            ELSE IF i <= Len(content) THEN content[i] ELSE Gap
    <2>1. cells \in [1..size -> FileCells]
      BY <1>1 DEF LastCell, FileCells
    <2>2. content \in Seq(FileCells)
      BY <1>0 DEF FileTypeOK, FileCells
    <2>3. \A k \in 1..size : cells[k] = LastCell(r, k)
      OBVIOUS
    <2> HIDE DEF cells, at
    <2>4. /\ Put(content, at, cells) \in Seq(FileCells)
          /\ Len(Put(content, at, cells)) =
                IF size # 0 /\ at + size > Len(content) THEN at + size ELSE Len(content)
          /\ \A i \in 1..Len(Put(content, at, cells)) :
                Put(content, at, cells)[i] = IF i - at \in 1..size THEN cells[i - at]
                                          ELSE IF i <= Len(content) THEN content[i] ELSE Gap
      BY <1>1, <2>1, <2>2, PutIs
    <2> QED
      BY <1>0, <2>3, <2>4
  <1> HIDE DEF cells, at
  <1>4. /\ Len(content') \in Nat /\ Len(content') >= Len(content)
        /\ size # 0 => Len(content') >= at + size
        /\ Len(content') <= Len(content) \/ Len(content') <= at + size
    BY <1>1, <1>3
  <1>5. /\ filePc'[r] = "done" /\ lineAt'[r] = at /\ lineLen'[r] = size
        /\ \A q \in FileRuns \ {r} : /\ filePc'[q] = filePc[q] /\ lineAt'[q] = lineAt[q]
                                     /\ lineLen'[q] = lineLen[q]
    BY <1>0 DEF FileTypeOK
  <1>6. ASSUME NEW q \in FileRuns
        PROVE  /\ LastAt(q) = (IF fileProg = "text_low" THEN Len(content) ELSE offset[q])
               /\ LastAt(q)' = (IF fileProg = "text_low" THEN Len(content') ELSE offset[q])
               /\ offset[q] \in Nat /\ LastAt(q) \in Nat /\ LastAt(q)' >= LastAt(q)
    <2>1. /\ LastAt(q) = (IF fileProg = "text_low" THEN Len(content) ELSE offset[q])
          /\ LastAt(q)' = (IF fileProg = "text_low" THEN Len(content') ELSE offset[q])
          /\ offset[q] \in Nat
      BY <1>0 DEF LastAt, FileTypeOK
    <2> QED
      BY <1>1, <1>4, <2>1
  <1>7. FileTypeOK'
    <2>1. content' \in Seq({"text", "last", "gap"} \X Nat \X (FileRuns \union {NoRun}))
      BY <1>3 DEF FileCells
    <2>2. lineAt' \in [FileRuns -> Nat]
      BY <1>0, <1>1 DEF FileTypeOK
    <2>3. lineLen' \in [FileRuns -> 0..Width]
      BY <1>0, <1>1 DEF FileTypeOK
    <2>4. overlapped' \in BOOLEAN /\ cut' \in BOOLEAN
      BY <1>0 DEF FileTypeOK
    <2> QED
      BY <1>0, <2>1, <2>2, <2>3, <2>4 DEF FileTypeOK
  <1>8. FileCalls' /\ OneRun'
    <2>1. FileCalls'
      BY <1>0, <1>5 DEF FileCalls
    <2>2. OneRun'
      BY <1>0, OneRunKept DEF FileActive, FileEnded
    <2> QED
      BY <2>1, <2>2
  <1>9. Positions'
    <2> SUFFICES ASSUME NEW q \in FileRuns, q # r
                 PROVE  Position(q)'
      BY <1>5 DEF Positions, Position
    <2>1. content # <<>> => content' # <<>>
      <3>1. content \in Seq(FileCells)
        BY <1>0 DEF FileTypeOK, FileCells
      <3> QED
        BY <1>1, <1>3, <1>4, <3>1, EmptySeq
    <2>2. filePc[q] = "append" => overlapped
      BY <1>0 DEF OneRun, FileActive, FileEnded
    <2>3. /\ filePc[q] = "start" => wrote[q] = 0 /\ offset[q] = 0
          /\ filePc[q] = "write" =>
                /\ wrote[q] = 0 \/ (fileProg = "pos_low" /\ wrote[q] = Width)
                /\ offset[q] <= wrote[q] /\ (~cut => offset[q] = wrote[q])
                /\ Firm => offset[q] <= Len(content)
          /\ filePc[q] \in {"read", "seek"} /\ Firm /\ ~cut => Len(content) >= TextLen
          /\ filePc[q] \in {"read", "append"} /\ fileProg = "text_low" => content # <<>>
          /\ filePc[q] = "append" /\ Firm => LastAt(q) <= Len(content) /\ (~cut => LastAt(q) >= TextLen)
      BY <1>0 DEF Positions, Position
    <2>4. /\ filePc[q] = "write" /\ Firm => offset[q] <= Len(content')
          /\ filePc[q] \in {"read", "seek"} /\ Firm /\ ~cut => Len(content') >= TextLen
          /\ filePc[q] = "append" /\ Firm => LastAt(q)' <= Len(content') /\ (~cut => LastAt(q)' >= TextLen)
      BY <1>1, <1>4, <1>6, <2>3
    <2> QED
      BY <1>0, <1>1, <1>5, <2>1, <2>2, <2>3, <2>4 DEF Position
  <1>10. Front'
    <2> SUFFICES ASSUME Firm, ~cut, NEW i \in 1..Len(content'), i <= TextLen
                 PROVE  content'[i] = TextCell(i)
      BY <1>0, <1>1 DEF Front, TextCell
    <2>1. i \in Nat /\ i <= Len(content) /\ i - at \notin 1..size
      BY <1>1, <1>2, <1>4
    <2>2. content[i] = TextCell(i)
      BY <1>0, <1>1, <2>1 DEF Front
    <2> QED
      BY <1>3, <2>1, <2>2
  <1>11. Places'
    <2>1. \A q \in FileRuns : filePc[q] = "done" => filePc'[q] = "done"
      BY <1>0, <1>5
    <2>2. ASSUME NEW q \in FileRuns
          PROVE  /\ lineLen'[q] # 0 => filePc'[q] = "done"
                 /\ \A p \in known[q] : filePc'[p] = "done"
                 /\ lineLen'[q] # 0 /\ Firm =>
                       lineAt'[q] + lineLen'[q] <= Len(content') /\ (lineAt'[q] >= TextLen \/ cut)
      <3>1. \A p \in known[q] : filePc'[p] = "done"
        BY <1>0, <2>1 DEF Places, FileTypeOK
      <3>2. CASE q = r
        BY <1>1, <1>2, <1>4, <1>5, <3>1, <3>2
      <3>3. CASE q # r
        <4>1. lineAt[q] \in Nat /\ lineLen[q] \in Nat
          BY <1>0, <1>1 DEF FileTypeOK
        <4>2. /\ lineLen[q] # 0 => filePc[q] = "done"
              /\ lineLen[q] # 0 /\ Firm =>
                   lineAt[q] + lineLen[q] <= Len(content) /\ (lineAt[q] >= TextLen \/ cut)
          BY <1>0 DEF Places
        <4> QED
          BY <1>1, <1>4, <1>5, <3>1, <3>3, <4>1, <4>2
      <3> QED
        BY <3>2, <3>3
    <2>3. ASSUME NEW q \in FileRuns, filePc'[q] = "append", Firm, NEW p \in known[q], lineLen'[p] # 0
          PROVE  lineAt'[p] + lineLen'[p] <= LastAt(q)'
      <3>1. q # r /\ filePc[q] = "append" /\ p \in FileRuns \ {r}
        <4>1. q # r /\ filePc[q] = "append"
          BY <1>5, <2>3
        <4>2. p \in FileRuns /\ filePc[p] = "done"
          BY <1>0 DEF Places, FileTypeOK
        <4> QED
          BY <1>0, <4>1, <4>2
      <3>2. lineAt[p] + lineLen[p] <= LastAt(q)
        BY <1>0, <1>5, <2>3, <3>1 DEF Places
      <3>3. lineAt[p] \in Nat /\ lineLen[p] \in Nat
        BY <1>0, <1>1, <3>1 DEF FileTypeOK
      <3>4. LastAt(q) \in Nat /\ LastAt(q)' \in Nat /\ LastAt(q)' >= LastAt(q)
        BY <1>4, <1>6
      <3> QED
        BY <1>5, <3>1, <3>2, <3>3, <3>4
    <2> QED
      BY <1>0, <1>1, <2>2, <2>3 DEF Places
  <1>12. ASSUME NEW q \in FileRuns \ {r}, NEW k \in Nat
         PROVE  /\ BehindText(q, k)' <=> BehindText(q, k)
                /\ lineAt[q] + k \in 1..Len(content') /\ lineAt[q] + k <= Len(content)
                      /\ (lineAt[q] + k) - at \notin 1..size =>
                        /\ content'[lineAt[q] + k] = content[lineAt[q] + k]
                        /\ Stands(q, k)' <=> Stands(q, k)
    <2>1. BehindText(q, k)' <=> BehindText(q, k)
      BY <1>1, <1>5 DEF BehindText
    <2>2. ASSUME lineAt[q] + k \in 1..Len(content'), lineAt[q] + k <= Len(content),
                 (lineAt[q] + k) - at \notin 1..size
          PROVE  /\ content'[lineAt[q] + k] = content[lineAt[q] + k]
                 /\ Stands(q, k)' <=> Stands(q, k)
      <3>1. PICK i \in 1..Len(content') : i = lineAt[q] + k
        BY <2>2
      <3>2. i - at \notin 1..size /\ i <= Len(content)
        BY <2>2, <3>1
      <3>3. content'[i] = content[i]
        BY <1>3, <3>2
      <3> QED
        BY <1>5, <3>1, <3>3 DEF Stands, LastCell
    <2> QED
      BY <2>1, <2>2
  <1>13. Stay'
    <2> SUFFICES ASSUME Firm, NEW q \in FileRuns, NEW k \in 1..lineLen'[q], BehindText(q, k)'
                 PROVE  \/ Stands(q, k)'
                        \/ /\ fileProg = "pos_low" /\ overlapped
                           /\ \E p \in FileRuns : content'[lineAt'[q] + k][3] = p /\ q \notin known[p]
      BY <1>0, <1>1 DEF Stay
    <2>1. CASE q = r
      <3>1. k \in Nat \ {0} /\ k <= size /\ size # 0
        BY <1>1, <1>5, <2>1
      <3>2. at + k \in 1..Len(content') /\ (at + k) - at = k /\ k \in 1..size
        BY <1>1, <1>4, <3>1
      <3>3. content'[at + k] = LastCell(r, k)
        BY <1>3, <3>2
      <3> QED
        BY <1>5, <2>1, <3>3 DEF Stands, LastCell
    <2>2. CASE q # r
      <3>0. lineLen[q] \in Nat /\ lineAt[q] \in Nat /\ lineLen'[q] = lineLen[q] /\ lineAt'[q] = lineAt[q]
        BY <1>0, <1>1, <1>5, <2>2 DEF FileTypeOK
      <3>1. k \in Nat \ {0} /\ lineLen[q] # 0 /\ k <= lineLen[q]
        BY <3>0
      <3>2. lineAt[q] + lineLen[q] <= Len(content)
        BY <1>0, <3>1 DEF Places
      <3>3. lineAt[q] + k \in 1..Len(content') /\ lineAt[q] + k <= Len(content)
        BY <1>1, <1>4, <3>0, <3>1, <3>2
      <3>4. CASE (lineAt[q] + k) - at \notin 1..size
        <4>1. BehindText(q, k) /\ k \in 1..lineLen[q]
          BY <1>12, <2>2, <3>0, <3>1
        <4>2. \/ Stands(q, k)
              \/ /\ fileProg = "pos_low" /\ overlapped
                 /\ \E p \in FileRuns : content[lineAt[q] + k][3] = p /\ q \notin known[p]
          BY <1>0, <4>1 DEF Stay
        <4> QED
          BY <1>12, <2>2, <3>0, <3>1, <3>3, <3>4, <4>2
      <3>5. CASE (lineAt[q] + k) - at \in 1..size
        <4>1. at < Len(content) /\ lineAt[q] + lineLen[q] > at
          BY <1>1, <3>0, <3>1, <3>2, <3>3, <3>5
        <4>2. overlapped /\ fileProg = "pos_low"
          BY <1>0, <1>1, <1>2, <4>1
        <4>3. q \notin known[r]
          <5>1. \A p \in known[r] : lineLen[p] # 0 => lineAt[p] + lineLen[p] <= at
            BY <1>0 DEF Places, at
          <5> QED
            BY <1>1, <3>0, <3>1, <4>1, <5>1
        <4>4. content'[lineAt[q] + k] = LastCell(r, (lineAt[q] + k) - at)
          <5>1. PICK i \in 1..Len(content') : i = lineAt[q] + k
            BY <3>3
          <5>2. i - at \in 1..size
            BY <3>5, <5>1
          <5>3. content'[i] = LastCell(r, i - at)
            BY <1>3, <5>2
          <5> QED
            BY <5>1, <5>3
        <4>5. content'[lineAt'[q] + k][3] = r
          BY <3>0, <4>4 DEF LastCell
        <4> QED
          BY <4>2, <4>3, <4>5
      <3> QED
        BY <3>4, <3>5
    <2> QED
      BY <2>1, <2>2
  <1>14. Owned'
    <2> SUFFICES ASSUME Firm, NEW i \in 1..Len(content'), i > TextLen
                 PROVE  \E q \in FileRuns : \E k \in 1..lineLen'[q] : i = lineAt'[q] + k /\ Stands(q, k)'
      BY <1>0, <1>1 DEF Owned
    <2>1. CASE i - at \in 1..size
      <3>1. i - at \in 1..lineLen'[r] /\ i = lineAt'[r] + (i - at)
        BY <1>1, <1>4, <1>5, <2>1
      <3>2. content'[i] = LastCell(r, i - at)
        BY <1>3, <2>1
      <3>3. PICK k \in 1..lineLen'[r] : k = i - at
        BY <3>1
      <3>4. content'[lineAt'[r] + k] = <<"last", k, r>>
        BY <3>1, <3>2, <3>3 DEF LastCell
      <3>5. Stands(r, k)'
        BY <3>4 DEF Stands, LastCell
      <3>6. i = lineAt'[r] + k
        BY <3>1, <3>3
      <3> QED
        BY <3>5, <3>6
    <2>2. CASE i - at \notin 1..size
      <3>1. i \in 1..Len(content)
        BY <1>1, <1>2, <1>3, <1>4, <2>2
      <3>2. PICK q \in FileRuns : \E k \in 1..lineLen[q] : i = lineAt[q] + k /\ Stands(q, k)
        BY <1>0, <3>1 DEF Owned
      <3>3. PICK k \in 1..lineLen[q] : i = lineAt[q] + k /\ Stands(q, k)
        BY <3>2
      <3>4. q \in FileRuns \ {r} /\ k \in Nat
        <4>1. lineLen[q] \in Nat
          BY <1>0, <1>1 DEF FileTypeOK
        <4>2. lineLen[q] # 0 /\ k \in Nat
          BY <3>3, <4>1
        <4> QED
          BY <1>2, <4>2
      <3>5. Stands(q, k)' /\ i = lineAt'[q] + k /\ k \in 1..lineLen'[q]
        <4>1. lineAt[q] + k \in 1..Len(content') /\ lineAt[q] + k <= Len(content)
          BY <1>1, <3>1, <3>3
        <4>2. (lineAt[q] + k) - at \notin 1..size
          <5>1. i - at \notin 1..size /\ i = lineAt[q] + k
            BY <2>2, <3>3
          <5> QED
            BY <5>1
        <4> QED
          BY <1>5, <1>12, <3>3, <3>4, <4>1, <4>2
      <3> QED
        BY <3>5
    <2> QED
      BY <2>1, <2>2
  <1>15. Linked'
    BY <1>0 DEF Linked
  <1> QED
    BY <1>7, <1>8, <1>9, <1>10, <1>11, <1>13, <1>14, <1>15 DEF FileInv

LEMMA ReadBackKeeps == ASSUME FileInv, NEW r \in FileRuns, ReadBack(r) PROVE FileInv'
  <1>0. /\ FileTypeOK /\ FileCalls /\ OneRun /\ filePc[r] = "read" /\ fileProg # "link"
        /\ UNCHANGED <<fileProg, content, wrote, offset, linkedBy, symlinkedBy, lineAt, lineLen,
                       known, overlapped, cut, fileFaults>>
    BY DEF FileInv, ReadBack, links, history, FileCalls
  <1>1. PICK step \in {"failed", "done", "append", "seek"} :
          /\ filePc' = [filePc EXCEPT ![r] = step]
          /\ step = "append" => fileProg = "text_low"
          /\ step = "seek" => fileProg \in {"pos_low", "pos_high"}
    <2>1. fileProg \in HighPrograms \union LowPrograms
      BY <1>0, FileAssumption DEF FileTypeOK
    <2> QED
      BY <2>1 DEF ReadBack, FileGoTo, HighPrograms, LowPrograms
  <1>2. /\ filePc'[r] = step /\ \A q \in FileRuns \ {r} : filePc'[q] = filePc[q]
    BY <1>0, <1>1 DEF FileTypeOK
  <1>3. Positions' /\ Front' /\ Places' /\ Stay' /\ Owned'
    BY <1>0, <1>1, FileStands
  <1>4. OneRun'
    BY <1>0, <1>1, OneRunKept DEF FileActive, FileEnded
  <1>5. FileTypeOK' /\ FileCalls' /\ Linked'
    <2>1. overlapped' \in BOOLEAN /\ cut' \in BOOLEAN
      BY <1>0 DEF FileTypeOK
    <2>2. FileTypeOK'
      BY <1>0, <1>1, <2>1 DEF FileTypeOK
    <2>3. FileCalls'
      BY <1>0, <1>1, <1>2 DEF FileCalls
    <2> QED
      BY <1>0, <2>2, <2>3 DEF Linked
  <1> QED
    BY <1>3, <1>4, <1>5 DEF FileInv

\* A run that fails or is killed leaves the file, and the other runs, as they are.
LEMMA FileEndsKeep ==
    ASSUME FileInv, NEW r \in FileRuns, FileFails(r) \/ FileKill(r)
    PROVE  FileInv'
  <1>0. /\ FileTypeOK /\ FileCalls /\ OneRun /\ Linked
        /\ FileActive(r) \/ filePc[r] = "start"
        /\ filePc[r] # "done"
        /\ fileFaults < FileMaxFaults /\ fileFaults' = fileFaults + 1
        /\ UNCHANGED <<fileProg, content, wrote, offset, linkedBy, symlinkedBy, lineAt, lineLen,
                       known, overlapped, cut>>
    BY DEF FileInv, FileFails, FileKill, links, history, FileActive, FileEnded, FileFault
  <1>1. PICK step \in {"failed", "killed"} :
          /\ filePc' = [filePc EXCEPT ![r] = step]
          /\ FileActive(r) \/ step = "failed"
    BY DEF FileFails, FileKill, FileGoTo, FileFault
  <1>2. /\ filePc'[r] = step /\ \A q \in FileRuns \ {r} : filePc'[q] = filePc[q]
    BY <1>0, <1>1 DEF FileTypeOK
  <1>3. Positions' /\ Front' /\ Places' /\ Stay' /\ Owned'
    BY <1>0, <1>1, FileStands
  <1>4. OneRun'
    BY <1>0, <1>1, OneRunKept
  <1>5. FileTypeOK'
    <2>1. overlapped' \in BOOLEAN /\ cut' \in BOOLEAN
      BY <1>0 DEF FileTypeOK
    <2>2. fileFaults' \in 0..FileMaxFaults
      BY <1>0, Lengths DEF FileTypeOK
    <2> QED
      BY <1>0, <1>1, <2>1, <2>2 DEF FileTypeOK
  <1>6. FileCalls'
    BY <1>0, <1>1, <1>2 DEF FileCalls
  <1>7. Linked'
    BY <1>0, <1>1, <1>2 DEF Linked
  <1> QED
    BY <1>3, <1>4, <1>5, <1>6, <1>7 DEF FileInv

\* The lines a run seeks behind are the ones that it knows; it has none of its own.
LEMMA SeekEndKeeps == ASSUME FileInv, NEW r \in FileRuns, SeekEnd(r) PROVE FileInv'
  <1>0. /\ FileTypeOK /\ FileCalls /\ OneRun /\ Positions /\ Front /\ Places /\ Stay /\ Owned
        /\ filePc[r] = "seek" /\ fileProg \in {"pos_low", "pos_high"}
        /\ filePc' = [filePc EXCEPT ![r] = "append"]
        /\ offset' = [offset EXCEPT ![r] = Len(content)]
        /\ known' = [known EXCEPT ![r] = Written]
        /\ UNCHANGED <<fileProg, content, wrote, linkedBy, symlinkedBy, lineAt, lineLen,
                       overlapped, cut, fileFaults>>
    BY DEF FileInv, SeekEnd, FileGoTo, links, FileCalls
  <1>1. /\ TextLen' = TextLen /\ (Firm' <=> Firm) /\ TextLen \in Nat /\ Len(content) \in Nat
        /\ Written \subseteq FileRuns
    <2>1. Len(content) \in Nat
      BY <1>0, LenProperties DEF FileTypeOK
    <2> QED
      BY <1>0, <2>1, Lengths DEF TextLen, Firm, Written
  <1>2. /\ filePc'[r] = "append" /\ offset'[r] = Len(content) /\ known'[r] = Written
        /\ \A q \in FileRuns \ {r} : /\ filePc'[q] = filePc[q] /\ offset'[q] = offset[q]
                                     /\ known'[q] = known[q] /\ LastAt(q)' = LastAt(q)
        /\ LastAt(r)' = Len(content)
    BY <1>0 DEF FileTypeOK, LastAt
  <1>3. FileTypeOK'
    <2>1. overlapped' \in BOOLEAN /\ cut' \in BOOLEAN
      BY <1>0 DEF FileTypeOK
    <2>2. offset' \in [FileRuns -> Nat] /\ known' \in [FileRuns -> SUBSET FileRuns]
      BY <1>0, <1>1 DEF FileTypeOK
    <2> QED
      BY <1>0, <2>1, <2>2 DEF FileTypeOK
  <1>4. FileCalls'
    BY <1>0, <1>2 DEF FileCalls
  <1>5. OneRun'
    BY <1>0, OneRunKept DEF FileActive, FileEnded
  <1>6. Positions'
    <2>1. /\ Firm /\ ~cut => Len(content) >= TextLen
      BY <1>0 DEF Positions, Position
    <2>2. ASSUME NEW q \in FileRuns, q # r
          PROVE  /\ filePc'[q] = filePc[q] /\ LastAt(q)' = LastAt(q) /\ offset'[q] = offset[q]
      BY <1>2, <2>2
    <2> QED
      BY <1>0, <1>1, <1>2, <2>1, <2>2 DEF Positions, Position
  <1>7. Front'
    BY <1>0, <1>1 DEF Front, TextCell
  <1>8. Places'
    <2>1. \A q \in FileRuns : filePc[q] = "done" => filePc'[q] = "done"
      BY <1>0, <1>2
    <2>2. \A q \in Written : filePc[q] = "done"
      BY <1>0 DEF Places, Written
    <2>3. ASSUME NEW q \in FileRuns
          PROVE  /\ lineLen[q] # 0 => filePc'[q] = "done"
                 /\ \A p \in known'[q] : filePc'[p] = "done"
                 /\ lineLen[q] # 0 /\ Firm =>
                      lineAt[q] + lineLen[q] <= Len(content) /\ (lineAt[q] >= TextLen \/ cut)
      <3>1. \A p \in known'[q] : p \in FileRuns /\ filePc[p] = "done"
        BY <1>0, <1>1, <1>2, <2>2 DEF Places, FileTypeOK
      <3> QED
        BY <1>0, <2>1, <3>1 DEF Places
    <2>4. ASSUME NEW q \in FileRuns, filePc'[q] = "append", Firm, NEW p \in known'[q], lineLen[p] # 0
          PROVE  lineAt[p] + lineLen[p] <= LastAt(q)'
      <3>1. p \in FileRuns
        BY <1>0, <1>1, <1>2 DEF FileTypeOK
      <3>2. CASE q = r
        BY <1>0, <1>2, <2>4, <3>1, <3>2 DEF Places
      <3>3. CASE q # r
        BY <1>0, <1>2, <2>4, <3>1, <3>3 DEF Places
      <3> QED
        BY <3>2, <3>3
    <2> QED
      BY <1>0, <1>1, <2>3, <2>4 DEF Places
  <1>9. \A q \in FileRuns, k \in Nat : /\ BehindText(q, k)' <=> BehindText(q, k)
                                       /\ Stands(q, k)' <=> Stands(q, k)
    BY <1>0, <1>1 DEF BehindText, Stands, LastCell
  <1>10. Stay'
    <2> SUFFICES ASSUME Firm, NEW q \in FileRuns, NEW k \in 1..lineLen[q], BehindText(q, k)'
                 PROVE  \/ Stands(q, k)'
                        \/ /\ fileProg = "pos_low" /\ overlapped
                           /\ \E p \in FileRuns : content[lineAt[q] + k][3] = p /\ q \notin known'[p]
      BY <1>0, <1>1 DEF Stay
    <2>0. /\ lineLen[q] \in Nat /\ lineAt[q] \in Nat /\ Width \in Nat
      BY <1>0, Lengths DEF FileTypeOK
    <2>1. k \in Nat /\ lineLen[q] # 0 /\ k <= lineLen[q] /\ k # 0
      BY <2>0
    <2>2. BehindText(q, k) /\ (Stands(q, k)' <=> Stands(q, k))
      BY <1>9, <2>1
    <2>3. CASE Stands(q, k)
      BY <2>2, <2>3
    <2>4. ASSUME ~Stands(q, k)
          PROVE  /\ fileProg = "pos_low" /\ overlapped
                 /\ \E p \in FileRuns : content[lineAt[q] + k][3] = p /\ q \notin known'[p]
      <3>1. fileProg = "pos_low" /\ overlapped
        BY <1>0, <2>2, <2>4 DEF Stay
      <3>2. PICK p \in FileRuns : content[lineAt[q] + k][3] = p /\ q \notin known[p]
        BY <1>0, <2>2, <2>4 DEF Stay
      <3>3. lineAt[q] + lineLen[q] <= Len(content)
        BY <1>0, <2>1 DEF Places
      <3>4. PICK i \in 1..Len(content) : i = lineAt[q] + k
        BY <1>1, <2>0, <2>1, <3>3
      <3>5. i > TextLen
        BY <2>2, <3>4 DEF BehindText
      <3>6. PICK o \in FileRuns : \E j \in 1..lineLen[o] : i = lineAt[o] + j /\ Stands(o, j)
        BY <1>0, <3>5 DEF Owned
      <3>7. PICK j \in 1..lineLen[o] : i = lineAt[o] + j /\ Stands(o, j)
        BY <3>6
      <3>8. content[i] = <<"last", j, o>>
        BY <3>7 DEF Stands, LastCell
      <3>9. o = p
        BY <3>2, <3>4, <3>8
      <3>10. lineLen[o] # 0
        <4>1. lineLen[o] \in Nat
          BY <1>0, Lengths DEF FileTypeOK
        <4> QED
          BY <3>7, <4>1
      <3>11. o # r
        BY <1>0, <3>10 DEF Places
      <3> QED
        BY <1>2, <3>1, <3>2, <3>9, <3>11
    <2> QED
      BY <2>3, <2>4
  <1>11. Owned'
    <2> SUFFICES ASSUME Firm, NEW i \in 1..Len(content), i > TextLen
                 PROVE  \E q \in FileRuns : \E k \in 1..lineLen[q] : i = lineAt[q] + k /\ Stands(q, k)'
      BY <1>0, <1>1 DEF Owned
    <2>1. PICK q \in FileRuns : \E k \in 1..lineLen[q] : i = lineAt[q] + k /\ Stands(q, k)
      BY <1>0 DEF Owned
    <2>2. PICK k \in 1..lineLen[q] : i = lineAt[q] + k /\ Stands(q, k)
      BY <2>1
    <2>3. k \in Nat
      BY <1>0, Lengths DEF FileTypeOK
    <2> QED
      BY <1>9, <2>2, <2>3
  <1>12. Linked'
    BY <1>0 DEF Linked
  <1> QED
    BY <1>3, <1>4, <1>5, <1>6, <1>7, <1>8, <1>10, <1>11, <1>12 DEF FileInv

LEMMA LinksKeep ==
    ASSUME FileInv, NEW r \in FileRuns, Link(r) \/ Symlink(r)
    PROVE  FileInv'
  <1>0. /\ FileTypeOK /\ FileCalls /\ Linked
        /\ fileProg = "link" /\ filePc[r] \in {"start", "symlink"}
        /\ UNCHANGED <<fileProg, content, wrote, offset, lineAt, lineLen, known, overlapped, cut,
                       fileFaults>>
    BY DEF FileInv, Link, Symlink, history, FileCalls
  <1>1. PICK step \in {"symlink", "done", "failed"} :
          /\ filePc' = [filePc EXCEPT ![r] = step]
          /\ step = "done" => filePc[r] = "symlink"
    BY DEF Link, Symlink, FileGoTo
  <1>2. /\ filePc'[r] = step /\ \A q \in FileRuns \ {r} : filePc'[q] = filePc[q]
    BY <1>0, <1>1 DEF FileTypeOK
  <1>3. Positions' /\ Front' /\ Places' /\ Stay' /\ Owned'
    BY <1>0, <1>1, FileStands
  <1>4. FileTypeOK'
    <2>1. overlapped' \in BOOLEAN /\ cut' \in BOOLEAN
      BY <1>0 DEF FileTypeOK
    <2>2. linkedBy' \in FileRuns \union {NoRun} /\ symlinkedBy' \in FileRuns \union {NoRun}
      BY <1>0 DEF FileTypeOK, Link, Symlink
    <2> QED
      BY <1>0, <1>1, <2>1, <2>2 DEF FileTypeOK
  <1>5. FileCalls' /\ OneRun'
    BY <1>0, <1>1, <1>2 DEF FileCalls, OneRun
  <1>6. Linked'
    <2>1. CASE Link(r)
      BY <1>0, <1>2, <2>1, FileAssumption DEF Link, Linked, FileGoTo, FileTypeOK
    <2>2. CASE Symlink(r)
      BY <1>0, <1>2, <2>2, FileAssumption DEF Symlink, Linked, FileGoTo, FileTypeOK
    <2> QED
      BY <2>1, <2>2
  <1> QED
    BY <1>3, <1>4, <1>5, <1>6 DEF FileInv

\* A short write is one of ShortSizes.
LEMMA ShortOnes ==
    ASSUME NEW all \in Nat \ {0}, NEW size \in ShortSizes(all)
    PROVE  size \in 0..all /\ (fileProg = "text_low" => size # 0)
  BY DEF ShortSizes

LEMMA FileInvNext == FileInv /\ [FileNext]_fileVars => FileInv'
  <1> SUFFICES ASSUME FileInv, [FileNext]_fileVars PROVE FileInv'
    OBVIOUS
  <1>0. FileTypeOK
    BY DEF FileInv
  <1>1. /\ FileFault => fileFaults' \in 0..FileMaxFaults
        /\ fileFaults' = fileFaults => fileFaults' \in 0..FileMaxFaults
    BY <1>0, Lengths DEF FileTypeOK, FileFault
  <1>2. ASSUME NEW r \in FileRuns, WriteText(r) PROVE FileInv'
    <2>1. Chunk \in 0..Chunk /\ (fileProg = "text_low" => Chunk # 0)
      BY Lengths
    <2>2. PutText(r, Chunk) /\ NextWrite(r) /\ cut' = cut /\ fileFaults' \in 0..FileMaxFaults
      BY <1>1, <1>2 DEF WriteText
    <2> QED
      BY <2>1, <2>2, PutTextKeeps
  <1>3. ASSUME NEW r \in FileRuns, ShortText(r) PROVE FileInv'
    <2>1. PICK size \in ShortSizes(Chunk) : PutText(r, size)
      BY <1>3 DEF ShortText
    <2>2. size \in 0..Chunk /\ (fileProg = "text_low" => size # 0)
      BY Lengths, ShortOnes
    <2>3. /\ fileFaults' \in 0..FileMaxFaults
          /\ \/ NextWrite(r) /\ fileProg # "binary_low" /\ cut' = TRUE
             \/ FileGoTo(r, "failed") /\ UNCHANGED <<wrote, cut>>
      BY <1>1, <1>3 DEF ShortText
    <2> QED
      BY <2>1, <2>2, <2>3, PutTextKeeps
  <1>4. ASSUME NEW r \in FileRuns, WriteLast(r) PROVE FileInv'
    <2>1. Width \in 0..Width /\ (fileProg = "text_low" => Width # 0)
      BY Lengths
    <2>2. PutLast(r, Width) /\ fileFaults' \in 0..FileMaxFaults
      BY <1>1, <1>4 DEF WriteLast
    <2> QED
      BY <2>1, <2>2, PutLastKeeps
  <1>5. ASSUME NEW r \in FileRuns, ShortLast(r) PROVE FileInv'
    <2>1. PICK size \in ShortSizes(Width) : PutLast(r, size)
      BY <1>5 DEF ShortLast
    <2>2. size \in 0..Width /\ (fileProg = "text_low" => size # 0)
      BY Lengths, ShortOnes
    <2>3. fileFaults' \in 0..FileMaxFaults
      BY <1>1, <1>5 DEF ShortLast
    <2> QED
      BY <2>1, <2>2, <2>3, PutLastKeeps
  <1>6. CASE UNCHANGED fileVars
    <2>1. UNCHANGED <<fileProg, filePc, content, wrote, offset, linkedBy, symlinkedBy, lineAt,
                      lineLen, known, overlapped, cut, fileFaults>>
      BY <1>6 DEF fileVars, links, history
    <2>2. FileTypeOK' /\ FileCalls' /\ OneRun' /\ Positions'
      BY <2>1 DEF FileInv, FileTypeOK, FileCalls, OneRun, FileActive, FileEnded, Positions, Position, Firm,
                  LastAt, TextLen
    <2>3. Front' /\ Places' /\ Linked'
      BY <2>1 DEF FileInv, Front, Firm, TextLen, TextCell, Places, LastAt, Linked
    <2>4. Stay' /\ Owned'
      <3>1. (Firm' <=> Firm) /\ TextLen' = TextLen
        BY <2>1 DEF Firm, TextLen
      <3>2. \A q \in FileRuns, k \in Nat : /\ BehindText(q, k)' <=> BehindText(q, k)
                                           /\ Stands(q, k)' <=> Stands(q, k)
        BY <2>1, <3>1 DEF BehindText, Stands, LastCell
      <3>3. \A q \in FileRuns : \A k \in 1..lineLen[q] : k \in Nat
        BY <1>0, Lengths DEF FileTypeOK
      <3> QED
        BY <2>1, <3>1, <3>2, <3>3 DEF FileInv, Stay, Owned
    <2> QED
      BY <2>2, <2>3, <2>4 DEF FileInv
  <1> QED
    BY <1>2, <1>3, <1>4, <1>5, <1>6, OpenWriteKeeps, ReadBackKeeps, SeekEndKeeps, FileEndsKeep,
       LinksKeep DEF FileNext, FileStep

\* What every reachable state of Files satisfies.
THEOREM FileInvariant == FileSpec => []FileInv
  BY FileInvInit, FileInvNext, PTL DEF FileSpec

\* Every variable of Files keeps its type.
THEOREM FileTypeCorrect == FileSpec => []FileTypeOK
  <1>1. FileInv => FileTypeOK
    BY DEF FileInv
  <1> QED
    BY <1>1, FileInvariant, PTL

\* Of the text in front and the lines behind it, what a short write leaves is where
\* it was written; nobody's line is lost but in 6_file_pos_low.c, and who has made
\* the links is known: for any number of runs, short writes, failing calls and kills.
THEOREM FilesAreRight == FileSpec => []FilesRight
  <1>1. FileInv => FilesRight
    <2> SUFFICES ASSUME FileInv PROVE FilesRight
      OBVIOUS
    <2>0. FileTypeOK /\ FileCalls /\ Positions /\ Front /\ Places /\ Stay /\ Owned /\ Linked
      BY DEF FileInv
    <2>1. TextInFront
      BY <2>0 DEF TextInFront, Front, Positions, Position, FileCalls
    <2>2. ASSUME Firm, NEW r \in FileRuns, NEW k \in 1..lineLen[r]
          PROVE  lineAt[r] + k <= Len(content) /\ (BehindText(r, k) \/ cut)
      <3>1. lineAt[r] \in Nat /\ lineLen[r] \in Nat /\ TextLen \in Nat /\ Len(content) \in Nat
        BY <2>0, Lengths, LenProperties DEF FileTypeOK
      <3>2. lineLen[r] # 0 /\ k \in Nat \ {0} /\ k <= lineLen[r]
        BY <3>1
      <3>3. lineAt[r] + lineLen[r] <= Len(content) /\ (lineAt[r] >= TextLen \/ cut)
        BY <2>0, <2>2, <3>2 DEF Places
      <3>4. lineAt[r] + k <= Len(content)
        BY <3>1, <3>2, <3>3
      <3>5. lineAt[r] >= TextLen => lineAt[r] + k > TextLen
        BY <3>1, <3>2
      <3> QED
        BY <3>3, <3>4, <3>5 DEF BehindText
    <2>3. LinesStay
      BY <2>0, <2>2 DEF LinesStay, Stay, Owned
    <2>4. LinksMade
      BY <2>0 DEF LinksMade, Linked
    <2> QED
      BY <2>1, <2>3, <2>4 DEF FilesRight
  <1> QED
    BY <1>1, FileInvariant, PTL

-------------------------------------------------------------------------------
(***************************************************************************)
(* The composition.  A step of one group leaves the other ones where they  *)
(* are: for them it is a stutter.                                          *)
(***************************************************************************)
LEMMA ProgramsParts ==
    [ProgramsNext]_programs =>
        /\ [MapNext]_mapVars /\ [ThNext]_thVars /\ [TreeNext]_treeVars
        /\ [SigNext]_sigVars /\ [FileNext]_fileVars
  BY DEF ProgramsNext, InMap, InTh, InTree, InSig, InFile, programs

\* The system that is run implements the specification of each of its programs:
\* no step of one is a step of another.
THEOREM ProgramsCompose ==
    ProgramsSpec => MapSpec /\ ThSpec /\ TreeSpec /\ SigSpec /\ FileSpec
  <1>1. ProgramsInit => MapInit /\ ThInit /\ TreeInit /\ SigInit /\ FileInit
    BY DEF ProgramsInit
  <1> QED
    BY <1>1, ProgramsParts, PTL
    DEF ProgramsSpec, MapSpec, ThSpec, TreeSpec, SigSpec, FileSpec

\* Every variable of the five groups keeps its type, whichever is run.
THEOREM ProgramsTypeCorrect == ProgramsSpec => []ProgramsTypeOK
  <1>1. MapTypeOK /\ ThTypeOK /\ TreeTypeOK /\ SigTypeOK /\ FileTypeOK => ProgramsTypeOK
    BY DEF ProgramsTypeOK
  <1>2. ProgramsSpec => []MapTypeOK /\ []ThTypeOK /\ []TreeTypeOK /\ []SigTypeOK /\ []FileTypeOK
    BY ProgramsCompose, MapTypeCorrect, ThTypeCorrect, TreeTypeCorrect, SigTypeCorrect,
       FileTypeCorrect
  <1> QED
    BY <1>1, <1>2, PTL

\* So what is proved of each holds of the system that is run.
THEOREM ProgramsAreRight ==
    ProgramsSpec => [](/\ MappingRight /\ MainLast /\ CounterResult
                       /\ WaitTellsTruth /\ HandledRight /\ FilesRight)
  <1>1. ProgramsSpec => /\ []MappingRight /\ []MainLast /\ []CounterResult
                        /\ []WaitTellsTruth /\ []HandledRight /\ []FilesRight
    BY ProgramsCompose, MappingIsRight, MainIsLast, CounterIsRight, WaitIsRight,
       HandlerIsRight, FilesAreRight
  <1> QED
    BY <1>1, PTL

-------------------------------------------------------------------------------
(***************************************************************************)
(* Who waits for whom.                                                     *)
(***************************************************************************)
\* Nobody keeps the write end of the pipe longer than it writes, and the child is
\* there until its parent waited for it.
WriteEnds ==
    /\ parent \in {"closeR", "write", "closeW", "wait"} => child \notin {"none", "gone"}
    /\ child # "closeW" => "w" \notin ends["child"]
    /\ parent \notin {"closeR", "write", "closeW"} => "w" \notin ends["parent"]

LEMMA WriteEndsStep == ASSUME TreeInv, WriteEnds, [TreeNext]_treeVars PROVE WriteEnds'
  <1>0. TreeTypeOK /\ Calls /\ Reaping
    BY DEF TreeInv
  <1>1. CASE UNCHANGED treeVars
    BY <1>1 DEF treeVars, WriteEnds
  <1>2. CASE Fork \/ ForkFails
    <2>1. CASE Fork /\ treeProg = "pipe"
      BY <1>0, <2>1 DEF Fork, WriteEnds
    <2>2. CASE Fork /\ treeProg # "pipe"
      <3>1. child' \in {"getc", "exec"} /\ ends' = ends /\ parent = "fork"
        BY <2>2 DEF Fork
      <3>2. "w" \notin ends["parent"] /\ "w" \notin ends["child"]
        BY <1>0, <3>1 DEF WriteEnds, Reaping
      <3> QED
        BY <3>1, <3>2 DEF WriteEnds
    <2>3. CASE ForkFails
      BY <1>0, <2>3 DEF ForkFails, WriteEnds
    <2> QED
      BY <1>2, <2>1, <2>2, <2>3
  <1>3. ASSUME NEW how, EndParent(how), how \in {"returned", "failed", "killed"} PROVE WriteEnds'
    BY <1>0, <1>3 DEF EndParent, WriteEnds, TreeTypeOK
  <1>4. ASSUME NEW how, EndChild(how) PROVE WriteEnds'
    BY <1>0, <1>4 DEF EndChild, ParentEnded, WriteEnds, TreeTypeOK
  <1>5. CASE ParentCloses \/ ParentWrites \/ Wait
    BY <1>0, <1>5 DEF ParentCloses, ParentWrites, Wait, CloseEnd, WriteEnds, TreeTypeOK
  <1>6. CASE ChildCloses \/ ChildReads \/ Exec
    BY <1>0, <1>6 DEF ChildCloses, ChildReads, Exec, CloseEnd, WriteEnds, TreeTypeOK
  <1> QED
    BY <1>1, <1>2, <1>3, <1>4, <1>5, <1>6 DEF TreeNext, ParentStep, ChildStep, ParentBrokenPipe,
       ParentReturns, ChildReturns, ExecFails, ImageReturns, KeyPressed, TreeKill

\* What can happen without a key: a child waits in read(), a parent in wait(), and
\* both for a key in getc().
TreeCan ==
    \/ parent \in {"fork", "exec", "image", "closeR", "write", "closeW", "report"}
    \/ parent = "wait" /\ child = "zombie"
    \/ child \in {"closeW", "closeR", "exec", "image"}
    \/ child = "read" /\ (piped \/ ~AnyoneHas("w"))
TreeRest ==
    ~TreeCan => /\ child # "read" /\ parent # "wait"
                /\ child = "zombie" => parent = "getc"

\* When nobody can go on without a key, nobody is left in read() or in wait(), and a
\* child is a zombie only while its parent looks at the terminal: the parent and the
\* child never wait for each other.
THEOREM NobodyLeftWaiting == TreeSpec => []TreeRest
  <1>1. TreeInit => WriteEnds
    BY DEF TreeInit, WriteEnds
  <1>2. TreeInv /\ WriteEnds => TreeRest
    <2> SUFFICES ASSUME TreeInv, WriteEnds, ~TreeCan
                 PROVE  /\ child # "read" /\ parent # "wait"
                        /\ child = "zombie" => parent = "getc"
      BY DEF TreeRest
    <2>0. TreeTypeOK /\ Calls /\ Reaping
      BY DEF TreeInv
    <2>1. child # "read"
      BY <2>0 DEF TreeCan, WriteEnds, AnyoneHas, TreeTypeOK
    <2>2. parent # "wait"
      <3>1. ASSUME parent = "wait" PROVE FALSE
        <4>1. child \in {"closeW", "closeR", "exec", "image", "zombie"}
          BY <2>0, <2>1, <3>1 DEF Calls, WriteEnds, TreeTypeOK
        <4> QED
          BY <3>1, <4>1 DEF TreeCan
      <3> QED
        BY <3>1
    <2>3. child = "zombie" => parent = "getc"
      BY <2>0, <2>2 DEF TreeCan, Reaping, ParentEnded, TreeTypeOK
    <2> QED
      BY <2>1, <2>2, <2>3
  <1> QED
    BY <1>1, <1>2, WriteEndsStep, TreeInvInit, TreeInvNext, PTL DEF TreeSpec

\* A signal that awaits the handler is pending.
Awaited == awaited # {} /\ Alive => pending[Handled] # NoInfo /\ disposition[Handled] = "handler"

LEMMA AwaitedStep == ASSUME SigInv, Awaited, [SigNext]_sigVars PROVE Awaited'
  <1>0. SigTypeOK /\ Settled /\ Handled \in Signals
    BY HandledSignal DEF SigInv
  <1>1. CASE UNCHANGED sigVars
    BY <1>1 DEF sigVars, Awaited, Alive, Handled
  <1>2. CASE SetupStep
    BY <1>0, <1>2 DEF SetupStep, SetHandler, IgnoreInt, IgnoreKill, Awaited, Alive, Handled, SigTypeOK
  <1>3. ASSUME NEW sig \in Signals, Die(sig) \/ Handle(sig) PROVE Awaited'
    BY <1>0, <1>3 DEF Die, Handle, Awaited, Alive
  <1>4. CASE HandlerStep
    BY <1>4 DEF HandlerStep, Report, HandlerReturns, Awaited, Alive, Handled
  <1>5. ASSUME NEW x \in Info, Send(x) PROVE Awaited'
    <2>1. x.sig \in Signals /\ x # NoInfo
      BY InfoFields
    <2> QED
      BY <1>0, <1>5, <2>1 DEF Send, Awaited, Alive, Handled, Settled, SigTypeOK
  <1> QED
    BY <1>1, <1>2, <1>3, <1>4, <1>5 DEF SigNext, KernelStep

\* What happens by itself: a pending signal is delivered, unless it waits for the
\* handler of an earlier one, and a handler goes on.
SigCan ==
    \/ Alive /\ \E sig \in Signals : /\ pending[sig] # NoInfo
                                     /\ \/ disposition[sig] = "default"
                                        \/ disposition[sig] = "handler" /\ handling = NoInfo
    \/ handling # NoInfo
SigRest == ~SigCan => awaited = {} \/ ~Alive

\* No signal is forgotten: while one awaits the handler, the kernel can call it or it
\* is running.
THEOREM NoSignalForgotten == SigSpec => []SigRest
  <1>1. SigInit => Awaited
    BY DEF SigInit, Awaited
  <1>2. SigInv /\ Awaited => SigRest
    BY HandledSignal DEF Awaited, SigRest, SigCan
  <1> QED
    BY <1>1, <1>2, AwaitedStep, SigInvInit, SigInvNext, PTL DEF SigSpec

\* The three groups that wait, in the system that is run.
THEOREM ProgramsRest == ProgramsSpec => [](ThGoesOn /\ TreeRest /\ SigRest)
  <1>1. ProgramsSpec => []ThGoesOn /\ []TreeRest /\ []SigRest
    BY ProgramsCompose, NobodyStuck, NobodyLeftWaiting, NoSignalForgotten
  <1> QED
    BY <1>1, PTL

-------------------------------------------------------------------------------
(***************************************************************************)
(* Nothing goes on for ever: what each process has before it, which its    *)
(* own steps use up and nobody's gives back.                               *)
(***************************************************************************)
\* The rounds of a process of a mapping, and the steps of a round.
MapLeft(p) ==
    4 * (Rounds - n[p]) +
        CASE mapPc[p] = "off"       -> 7
          [] mapPc[p] = "open"      -> 6
          [] mapPc[p] = "ftruncate" -> 5
          [] mapPc[p] = "mmap"      -> 4
          [] mapPc[p] \in {"pid", "read"} -> 3
          [] mapPc[p] = "load"      -> 2
          [] mapPc[p] = "store"     -> 1
          [] mapPc[p] = "munmap"    -> 1
          [] OTHER -> 0
MapUsesUp == /\ \A p \in MapProcs : MapLeft(p)' <= MapLeft(p) /\ MapLeft(p)' \in Nat
             /\ \E p \in MapProcs : MapLeft(p)' < MapLeft(p)

\* What main and the threads have before them, and the seconds somebody waits.
ThreadLeft(t) ==
    2 * (left[t] + MaxTry) +
        CASE thPc[t] = "none" -> 3
          [] thPc[t] = "lock" -> 2
          [] thPc[t] \in {"print", "load", "unlock"} -> 1
          [] OTHER -> 0
MainLeft ==
    CASE mainPc = "create" -> 4
      [] mainPc = "sleep"  -> 1
      [] mainPc = "join"   -> IF 1 \in joined THEN 2 ELSE 3
      [] mainPc = "return" -> 1
      [] OTHER -> 0
Seconds(a) == IF Waits(a) /\ now < due[a] + lag THEN due[a] + lag - now ELSE 0
ThUsesUp ==
    /\ MainLeft' <= MainLeft
    /\ \A t \in Thread : ThreadLeft(t)' <= ThreadLeft(t) /\ ThreadLeft(t)' \in Nat
    /\ \/ MainLeft' < MainLeft
       \/ \E t \in Thread : ThreadLeft(t)' < ThreadLeft(t)
       \/ /\ \A a \in DOMAIN due : Seconds(a)' <= Seconds(a)
          /\ \E a \in DOMAIN due : Seconds(a)' < Seconds(a)

\* The calls of the parent and of the child it may still have.
TreeLeft ==
    (CASE parent = "fork" -> 10
       [] parent = "closeR" -> 5
       [] parent = "write"  -> 4
       [] parent = "closeW" -> 3
       [] parent \in {"wait", "exec"} -> 2
       [] parent \in {"report", "image", "getc"} -> 1
       [] OTHER -> 0)
    + (CASE child = "closeW" -> 4
         [] child \in {"read", "exec"} -> 3
         [] child \in {"closeR", "image", "getc"} -> 2
         [] child = "zombie" -> 1
         [] OTHER -> 0)
TreeUsesUp == TreeLeft' < TreeLeft

\* The calls by which main sets its handler, and the way of each sender's signal.
SetupLeft ==
    CASE sigPc = "handle"     -> 4
      [] sigPc = "ignoreINT"  -> 3
      [] sigPc = "ignoreKILL" -> 2
      [] sigPc = "loop"       -> 1
      [] OTHER -> 0
Unsent(s)    == \A i \in 1..Len(sent) : sent[i].from # s
PendingOf(s) == \E sig \in Signals : pending[sig] # NoInfo /\ pending[sig].from = s
SignalLeft(s) ==
    CASE Unsent(s) -> 4
      [] ~Unsent(s) /\ PendingOf(s) -> 3
      [] ~Unsent(s) /\ ~PendingOf(s) /\ handling # NoInfo /\ handling.from = s ->
             IF spoken THEN 1 ELSE 2
      [] OTHER -> 0
SigUsesUp ==
    /\ SetupLeft' <= SetupLeft
    /\ \A s \in Senders : SignalLeft(s)' <= SignalLeft(s)
    /\ SetupLeft' < SetupLeft \/ \E s \in Senders : SignalLeft(s)' < SignalLeft(s)

FileLeft(r) ==
    CASE filePc[r] = "start"  -> 6
      [] filePc[r] = "write"  -> IF wrote[r] = 0 THEN 5 ELSE 4
      [] filePc[r] = "read"   -> 3
      [] filePc[r] = "seek"   -> 2
      [] filePc[r] \in {"append", "symlink"} -> 1
      [] OTHER -> 0
FileUsesUp == \E r \in FileRuns : /\ FileLeft(r)' < FileLeft(r) /\ FileLeft(r)' \in Nat
                                  /\ \A q \in FileRuns \ {r} : FileLeft(q)' = FileLeft(q)

LEMMA MapUses == ASSUME MapInv, MapInv', [MapNext]_mapVars PROVE [MapUsesUp]_mapVars
  <1>0. /\ MapTypeOK /\ Counted /\ Rounds \in Nat \ {0} /\ Parent # Child
        /\ Parent \in MapProcs /\ Child \in MapProcs
        /\ \A p \in MapProcs : n[p] \in Nat /\ n[p] <= Rounds
        /\ \A p \in MapProcs : n'[p] \in Nat /\ n'[p] <= Rounds
    BY MapAssumption DEF MapInv, MapTypeOK, Counted, Goal, MapProcs
  <1>1. \A p \in MapProcs : MapLeft(p) \in Nat /\ MapLeft(p)' \in Nat
    BY <1>0 DEF MapLeft
  <1>2. CASE MapAnonymous
    <2>1. /\ n' = n /\ mapPc[Parent] = "mmap" /\ mapPc'[Parent] = "read" /\ mapPc'[Child] = "pid"
          /\ \A q \in MapProcs \ {Parent, Child} : mapPc'[q] = mapPc[q]
      BY <1>0, <1>2 DEF MapAnonymous, MapTypeOK
    <2>2. mapPc[Child] = "off"
      BY <1>2, <2>1, MapAssumption DEF MapInv, Roles, MapAnonymous
    <2>3. MapLeft(Parent)' < MapLeft(Parent) /\ MapLeft(Child)' < MapLeft(Child)
      BY <1>0, <2>1, <2>2 DEF MapLeft
    <2>4. \A q \in MapProcs \ {Parent, Child} : MapLeft(q)' = MapLeft(q)
      BY <2>1 DEF MapLeft
    <2> QED
      BY <1>0, <1>1, <2>3, <2>4 DEF MapUsesUp
  <1>3. ASSUME NEW p \in MapProcs, MapStep(p) \/ MapFails(p) \/ MapKill(p), ~MapAnonymous
        PROVE  MapUsesUp
    <2>1. MapLeft(p)' < MapLeft(p)
      <3>1. CASE StoreCounter(p) \/ ReadFields(p)
        BY <1>0, <3>1 DEF StoreCounter, ReadFields, MapGoTo, MapLeft, MapTypeOK
      <3>2. CASE ~(StoreCounter(p) \/ ReadFields(p))
        <4>1. n' = n
          BY <1>3, <3>2 DEF MapStep, WriterStep, ReaderStep, MapFails, MapKill, Create, Ftruncate,
             MmapWrite, StorePid, LoadCounter, OpenReader, MmapRead, SkipLoop, Fault, Munmap
        <4>2. CASE MapFails(p) \/ MapKill(p)
          BY <1>0, <4>1, <4>2 DEF MapFails, MapKill, MapEnded, MapGoTo, MapLeft, MapTypeOK
        <4>3. CASE Create(p) \/ Ftruncate(p) \/ MmapWrite(p) \/ StorePid(p) \/ LoadCounter(p)
          BY <1>0, <4>1, <4>3 DEF Create, Ftruncate, MmapWrite, StorePid, LoadCounter, MapGoTo,
             MapLeft, MapTypeOK
        <4>4. CASE OpenReader(p) \/ MmapRead(p) \/ SkipLoop(p) \/ Fault(p) \/ Munmap(p)
          BY <1>0, <4>1, <4>4 DEF OpenReader, MmapRead, SkipLoop, Fault, Munmap, MapGoTo,
             MapLeft, MapTypeOK
        <4> QED
          BY <1>3, <3>2, <4>2, <4>3, <4>4 DEF MapStep, WriterStep, ReaderStep
      <3> QED
        BY <3>1, <3>2
    <2>2. \A q \in MapProcs \ {p} : mapPc'[q] = mapPc[q] /\ n'[q] = n[q]
      BY <1>0, <1>3 DEF MapStep, WriterStep, ReaderStep, MapFails, MapKill, Create, Ftruncate,
         MmapWrite, StorePid, LoadCounter, StoreCounter, OpenReader, MmapRead, ReadFields,
         SkipLoop, Fault, Munmap, MapGoTo, MapTypeOK
    <2>3. \A q \in MapProcs \ {p} : MapLeft(q)' = MapLeft(q)
      BY <2>2 DEF MapLeft
    <2> QED
      BY <1>1, <1>3, <2>1, <2>3 DEF MapUsesUp
  <1> QED
    BY <1>2, <1>3 DEF MapNext

LEMMA TreeUses == ASSUME TreeTypeOK, [TreeNext]_treeVars PROVE [TreeUsesUp]_treeVars
  <1>1. CASE ParentStep \/ ForkFails
    BY <1>1 DEF ParentStep, Fork, ForkFails, ParentCloses, ParentWrites, ParentBrokenPipe, Wait,
       ParentReturns, EndParent, TreeUsesUp, TreeLeft, TreeTypeOK
  <1>2. CASE ChildStep \/ Exec
    BY <1>2 DEF ChildStep, ChildCloses, ChildReads, ChildReturns, Exec, EndChild,
       TreeUsesUp, TreeLeft, TreeTypeOK
  <1>3. CASE ImageReturns \/ ExecFails
    BY <1>3 DEF ImageReturns, ExecFails, EndParent, EndChild, TreeUsesUp, TreeLeft, TreeTypeOK
  <1>4. CASE KeyPressed \/ TreeKill
    BY <1>4 DEF KeyPressed, TreeKill, EndParent, EndChild, ParentEnded, ChildAlive,
       TreeUsesUp, TreeLeft, TreeTypeOK
  <1> QED
    BY <1>1, <1>2, <1>3, <1>4 DEF TreeNext

LEMMA FileUses == ASSUME FileInv, [FileNext]_fileVars PROVE [FileUsesUp]_fileVars
  <1>0. FileTypeOK /\ FileCalls /\ Positions
    BY DEF FileInv
  <1>1. ASSUME NEW r \in FileRuns,
               FileStep(r) \/ ShortText(r) \/ ShortLast(r) \/ FileFails(r) \/ FileKill(r)
        PROVE  FileUsesUp
    <2>1. FileLeft(r)' < FileLeft(r)
      <3>1. CASE OpenWrite(r) \/ SeekEnd(r) \/ WriteLast(r) \/ ShortLast(r)
        <4>1. \/ filePc[r] = "start" /\ FileGoTo(r, "write") /\ UNCHANGED wrote
              \/ filePc[r] = "seek" /\ FileGoTo(r, "append")
              \/ filePc[r] = "append" /\ FileGoTo(r, "done")
          BY <3>1 DEF OpenWrite, SeekEnd, WriteLast, ShortLast, PutLast
        <4> QED
          BY <1>0, <4>1 DEF FileGoTo, FileLeft, FileTypeOK
      <3>2. CASE ReadBack(r) \/ Link(r) \/ Symlink(r)
        BY <1>0, <3>2 DEF ReadBack, Link, Symlink, FileGoTo, FileLeft, FileTypeOK
      <3>3. CASE filePc[r] = "write" /\ NextWrite(r)
        <4>1. wrote'[r] = wrote[r] + Chunk /\ filePc'[r] \in {"read", "write"}
          BY <1>0, <3>3 DEF NextWrite, FileGoTo, FileTypeOK
        <4>2. filePc'[r] = "write" => wrote[r] + Chunk # TextLen
          BY <1>0, <3>3 DEF NextWrite, FileGoTo, FileTypeOK
        <4>3. wrote[r] = 0 \/ (fileProg = "pos_low" /\ wrote[r] = Width)
          BY <1>0, <3>3 DEF Positions, Position
        <4>4. filePc'[r] = "write" => wrote[r] = 0 /\ wrote'[r] # 0
          BY <4>1, <4>2, <4>3, Lengths
        <4> QED
          BY <3>3, <4>1, <4>4 DEF FileLeft
      <3>4. CASE WriteText(r) \/ ShortText(r)
        <4>1. filePc[r] = "write" /\ (NextWrite(r) \/ FileGoTo(r, "failed"))
          BY <3>4 DEF WriteText, ShortText, PutText
        <4> QED
          BY <1>0, <3>3, <4>1 DEF FileGoTo, FileLeft, FileTypeOK
      <3>5. CASE FileFails(r) \/ FileKill(r)
        BY <1>0, <3>5 DEF FileFails, FileKill, FileActive, FileEnded, FileGoTo, FileLeft,
           FileTypeOK
      <3> QED
        BY <1>1, <3>1, <3>2, <3>4, <3>5 DEF FileStep
    <2>2. FileLeft(r)' \in Nat
      BY DEF FileLeft
    <2>3. \A q \in FileRuns \ {r} : filePc'[q] = filePc[q] /\ wrote'[q] = wrote[q]
      <3>1. CASE WriteText(r) \/ ShortText(r)
        BY <1>0, <3>1 DEF WriteText, ShortText, NextWrite, FileGoTo, FileTypeOK
      <3>2. CASE ~(WriteText(r) \/ ShortText(r))
        BY <1>0, <1>1, <3>2 DEF FileStep, OpenWrite, SeekEnd, WriteLast, ShortLast, PutLast,
           ReadBack, Link, Symlink, FileFails, FileKill, FileGoTo, FileTypeOK
      <3> QED
        BY <3>1, <3>2
    <2> QED
      BY <2>1, <2>2, <2>3 DEF FileUsesUp, FileLeft
  <1> QED
    BY <1>1 DEF FileNext

\* No loop goes on below its last round.
InLoop == \A t \in Thread : left[t] >= -MaxTry

LEMMA InLoopInit == ThInit => InLoop
  BY ThreadAssumption DEF ThInit, InLoop, RoundsOf

LEMMA InLoopStep == ASSUME ThInv, InLoop, [ThNext]_thVars PROVE InLoop'
  <1>0. ThTypeOK /\ Looping /\ Kinds /\ MaxTry \in Nat \ {0}
    BY ThreadAssumption DEF ThInv
  <1>1. ASSUME UNCHANGED left PROVE InLoop'
    BY <1>1 DEF InLoop
  <1>2. ASSUME NEW t \in Thread, PrintRound(t) PROVE InLoop'
    BY <1>0, <1>2 DEF PrintRound, InLoop, ThTypeOK
  <1>3. ASSUME NEW t \in Thread, StoreShared(t) PROVE InLoop'
    <2>1. left[t] > -MaxTry
      <3>1. thPc[t] = "store" /\ thProg \in {"sleep", "join", "unsafe", "safe"}
        BY <1>0, <1>3, ThreadAssumption DEF StoreShared, ThTypeOK
      <3>2. Counting
        BY <1>0, <3>1 DEF Kinds, Counting
      <3> QED
        BY <1>0, <3>1, <3>2 DEF Looping
    <2> QED
      BY <1>0, <1>3, <2>1 DEF StoreShared, InLoop, ThTypeOK
  <1>4. CASE UNCHANGED thVars \/ MainStep \/ CreateFails \/ Tick
    BY <1>1, <1>4 DEF thVars, MainStep, MainReturns, CreateThread, Join, CreateFails, Tick
  <1>5. ASSUME NEW t \in Thread, PrintEnds(t) \/ Lock(t) \/ LoadShared(t) \/ Unlock(t) PROVE InLoop'
    BY <1>1, <1>5 DEF PrintEnds, Lock, LoadShared, Unlock
  <1> QED
    BY <1>2, <1>3, <1>4, <1>5 DEF ThNext, ThreadStep

LEMMA ThUses ==
    ASSUME ThInv, InLoop, ThTypeOK', InLoop', [ThNext]_thVars PROVE [ThUsesUp]_thVars
  <1>0. /\ ThTypeOK /\ Kinds /\ MaxTry \in Nat \ {0} /\ DOMAIN due = Thread \union {MainThread}
        /\ Thread = {1, 2} /\ MainThread = 0
    BY ThreadAssumption DEF ThInv, Thread, MainThread, ThTypeOK
  <1>1. \A t \in Thread : ThreadLeft(t) \in Nat /\ ThreadLeft(t)' \in Nat
    BY <1>0 DEF ThreadLeft, InLoop, ThTypeOK
  <1>2. MainLeft \in Nat /\ MainLeft' \in Nat
    BY DEF MainLeft
  <1>3. ASSUME NEW t \in Thread, ThreadLeft(t)' < ThreadLeft(t),
               \A u \in Thread \ {t} : thPc'[u] = thPc[u] /\ left'[u] = left[u],
               MainLeft' <= MainLeft
        PROVE  ThUsesUp
    <2>1. \A u \in Thread \ {t} : ThreadLeft(u)' = ThreadLeft(u)
      BY <1>3 DEF ThreadLeft
    <2> QED
      BY <1>1, <1>3, <2>1 DEF ThUsesUp
  <1>4. ASSUME UNCHANGED <<thPc, left>>, MainLeft' < MainLeft
        PROVE  ThUsesUp
    <2>1. \A u \in Thread : ThreadLeft(u)' = ThreadLeft(u)
      BY <1>4 DEF ThreadLeft
    <2> QED
      BY <1>1, <1>2, <1>4, <2>1 DEF ThUsesUp
  <1>5. ASSUME NEW t \in Thread, CreateThread(t) PROVE ThUsesUp
    <2>1. /\ thPc[t] = "none" /\ thPc'[t] \in {"lock", "load", "print"} /\ left' = left
          /\ \A u \in Thread \ {t} : thPc'[u] = thPc[u]
      <3>1. t \notin Created
        BY <1>0, <1>5, ThreadsBefore DEF CreateThread
      <3> QED
        BY <1>0, <1>5, <3>1 DEF CreateThread, Created, ThGoTo, ThTypeOK
    <2>2. ThreadLeft(t)' < ThreadLeft(t)
      BY <1>0, <2>1 DEF ThreadLeft, ThTypeOK
    <2>3. MainLeft' <= MainLeft
      BY <1>5 DEF CreateThread, MainLeft
    <2> QED
      BY <1>3, <2>1, <2>2, <2>3
  <1>6. ASSUME NEW t \in Thread, Join(t) PROVE ThUsesUp
    <2>1. MainLeft' < MainLeft
      <3>1. 1..(t - 1) = IF t = 1 THEN {} ELSE {1}
        BY ThreadsBefore
      <3> QED
        BY <1>0, <1>6, <3>1 DEF Join, MainLeft
    <2> QED
      BY <1>4, <1>6, <2>1 DEF Join
  <1>7. CASE MainReturns \/ CreateFails
    <2>1. MainLeft' < MainLeft
      BY <1>7 DEF MainReturns, CreateFails, MainLeft
    <2> QED
      BY <1>4, <1>7, <2>1 DEF MainReturns, CreateFails
  <1>8. CASE Tick
    <2>1. /\ now' = now + 1 /\ lag' = lag /\ due' = due /\ thPc' = thPc /\ left' = left
          /\ mainPc' = mainPc /\ joined' = joined /\ now \in Nat /\ lag \in Nat
          /\ \A a \in DOMAIN due : due[a] \in Nat
      BY <1>0, <1>8 DEF Tick, ThTypeOK
    <2>2. \A a \in DOMAIN due : Waits(a)' = Waits(a)
      BY <2>1 DEF Waits
    <2>3. \A a \in DOMAIN due : Seconds(a)' <= Seconds(a)
      BY <2>1, <2>2 DEF Seconds
    <2>4. PICK a \in DOMAIN due : Waits(a) /\ now < due[a] + lag
      BY <1>8 DEF Tick
    <2>5. Seconds(a)' < Seconds(a)
      BY <2>1, <2>2, <2>4 DEF Seconds
    <2>6. \A u \in Thread : ThreadLeft(u)' = ThreadLeft(u)
      BY <2>1 DEF ThreadLeft
    <2>7. MainLeft' = MainLeft
      BY <2>1 DEF MainLeft
    <2> QED
      BY <1>1, <1>2, <2>1, <2>3, <2>4, <2>5, <2>6, <2>7 DEF ThUsesUp
  <1>9. ASSUME NEW t \in Thread, ThreadStep(t) PROVE ThUsesUp
    <2>1. /\ MainLeft' = MainLeft
          /\ \A u \in Thread \ {t} : thPc'[u] = thPc[u] /\ left'[u] = left[u]
      BY <1>0, <1>9 DEF ThreadStep, PrintRound, PrintEnds, Lock, LoadShared, StoreShared, Unlock,
         ThGoTo, ThTypeOK, MainLeft
    <2>2. ThreadLeft(t)' < ThreadLeft(t)
      <3>1. CASE PrintRound(t)
        BY <1>0, <3>1 DEF PrintRound, ThreadLeft, ThTypeOK
      <3>2. CASE PrintEnds(t) \/ Lock(t) \/ LoadShared(t) \/ Unlock(t)
        BY <1>0, <3>2 DEF PrintEnds, Lock, LoadShared, Unlock, ThGoTo, ThreadLeft, ThTypeOK
      <3>3. CASE StoreShared(t)
        <4>1. left'[t] = left[t] - 1 /\ thPc[t] = "store" /\ thPc'[t] \in {"load", "unlock", "ended"}
          BY <1>0, <3>3 DEF StoreShared, AfterLoops, ThGoTo, ThTypeOK
        <4> QED
          BY <1>0, <4>1 DEF ThreadLeft, ThTypeOK
      <3> QED
        BY <1>9, <3>1, <3>2, <3>3 DEF ThreadStep
    <2> QED
      BY <1>2, <1>3, <2>1, <2>2
  <1> QED
    BY <1>5, <1>6, <1>7, <1>8, <1>9 DEF ThNext, MainStep

\* What is pending under two numbers, or pending and handled, was sent by two.
LEMMA OneWay ==
    ASSUME SigInv
    PROVE  /\ \A x, y \in Signals :
                 /\ pending[x] # NoInfo /\ pending[y] # NoInfo
                 /\ pending[x].from = pending[y].from
                 => x = y
           /\ \A x \in Signals :
                 pending[x] # NoInfo /\ handling # NoInfo => pending[x].from # handling.from
           /\ \A x \in Signals : pending[x] # NoInfo => ~Unsent(pending[x].from)
           /\ handling # NoInfo => ~Unsent(handling.from)
  <1>0. SigTypeOK /\ Traced /\ Ordered /\ Handled \in Signals
    BY HandledSignal DEF SigInv
  <1>1. ASSUME NEW x \in Signals, NEW y \in Signals, pending[x] # NoInfo, pending[y] # NoInfo,
               pending[x].from = pending[y].from
        PROVE  x = y
    <2>1. PICK i \in 1..Len(sent) : sent[i] = pending[x]
      BY <1>0, <1>1 DEF Traced, WasIn
    <2>2. PICK j \in 1..Len(sent) : sent[j] = pending[y]
      BY <1>0, <1>1 DEF Traced, WasIn
    <2>3. i = j
      BY <1>0, <1>1, <2>1, <2>2 DEF Traced
    <2>4. pending[x].sig = x /\ pending[y].sig = y
      BY <1>0, <1>1 DEF SigTypeOK
    <2> QED
      BY <2>1, <2>2, <2>3, <2>4
  <1>2. ASSUME NEW x \in Signals, pending[x] # NoInfo, handling # NoInfo,
               pending[x].from = handling.from
        PROVE  FALSE
    <2>1. PICK i \in 1..Len(sent) : sent[i] = pending[x]
      BY <1>0, <1>2 DEF Traced, WasIn
    <2>2. PICK j \in 1..Len(sent) : sent[j] = handling
      BY <1>0, <1>2 DEF Traced, WasIn
    <2>3. i = j
      BY <1>0, <1>2, <2>1, <2>2 DEF Traced
    <2>4. x = Handled
      BY <1>0, <1>2, <2>1, <2>2, <2>3 DEF SigTypeOK, Traced
    <2>5. PICK k, l \in 1..Len(sent) : k < l /\ sent[k].from = handling.from
                                             /\ sent[l].from = pending[Handled].from
      BY <1>0, <1>2, <2>4 DEF Ordered, Before
    <2>6. k = l
      BY <1>0, <1>2, <2>4, <2>5 DEF Traced
    <2> QED
      BY <2>5, <2>6
  <1>3. ASSUME NEW x \in Signals, pending[x] # NoInfo PROVE ~Unsent(pending[x].from)
    BY <1>0, <1>3 DEF Traced, WasIn, Unsent
  <1>4. ASSUME handling # NoInfo PROVE ~Unsent(handling.from)
    BY <1>0, <1>4 DEF Traced, WasIn, Unsent
  <1> QED
    BY <1>1, <1>2, <1>3, <1>4

LEMMA SigUses == ASSUME SigInv, [SigNext]_sigVars PROVE [SigUsesUp]_sigVars
  <1>0. SigTypeOK /\ Settled /\ Handled \in Signals /\ "INT" \in Signals
    BY HandledSignal DEF SigInv, Signals
  <1>1. \A s \in Senders : SignalLeft(s) \in Nat /\ SignalLeft(s)' \in Nat
    BY DEF SignalLeft
  <1>2. SetupLeft \in Nat /\ SetupLeft' \in Nat
    BY DEF SetupLeft
  <1>3. ASSUME SetupLeft' < SetupLeft, sent' = sent,
               \A s \in Senders : PendingOf(s)' => PendingOf(s),
               handling' = NoInfo \/ (handling' = handling /\ spoken' = spoken)
        PROVE  SigUsesUp
    <2>1. \A s \in Senders : SignalLeft(s)' <= SignalLeft(s)
      BY <1>3 DEF SignalLeft, Unsent
    <2> QED
      BY <1>2, <1>3, <2>1 DEF SigUsesUp
  <1>4. ASSUME NEW s \in Senders, SignalLeft(s)' < SignalLeft(s), sigPc' = sigPc,
               \A r \in Senders \ {s} : SignalLeft(r)' = SignalLeft(r)
        PROVE  SigUsesUp
    <2>1. SetupLeft' = SetupLeft
      BY <1>4 DEF SetupLeft
    <2> QED
      BY <1>1, <1>2, <1>4, <2>1 DEF SigUsesUp
  <1>5. CASE SetupStep
    <2>1. SetupLeft' < SetupLeft
      BY <1>5 DEF SetupStep, SetHandler, IgnoreInt, IgnoreKill, SetupLeft
    <2>2. \A sig \in Signals : pending'[sig] # NoInfo => pending'[sig] = pending[sig]
      BY <1>0, <1>5 DEF SetupStep, SetHandler, IgnoreInt, IgnoreKill, SigTypeOK
    <2>3. \A s \in Senders : PendingOf(s)' => PendingOf(s)
      BY <2>2 DEF PendingOf
    <2> QED
      BY <1>3, <1>5, <2>1, <2>3 DEF SetupStep, SetHandler, IgnoreInt, IgnoreKill
  <1>6. ASSUME NEW sig \in Signals, Die(sig) PROVE SigUsesUp
    <2>1. SetupLeft' < SetupLeft
      BY <1>0, <1>6 DEF Die, Alive, SetupLeft, SigTypeOK
    <2>2. \A s \in Senders : ~PendingOf(s)'
      BY <1>6 DEF Die, PendingOf
    <2> QED
      BY <1>3, <1>6, <2>1, <2>2 DEF Die
  <1>7. ASSUME NEW sig \in Signals, Handle(sig) PROVE SigUsesUp
    <2>0. pending[sig] # NoInfo /\ pending[sig].from \in Senders
      BY <1>0, <1>7, InfoFields DEF Handle, SigTypeOK
    <2> PICK s \in Senders : s = pending[sig].from
      BY <2>0
    <2>1. /\ handling = NoInfo /\ handling' = pending[sig] /\ handling' # NoInfo /\ ~spoken'
          /\ sent' = sent /\ sigPc' = sigPc /\ pending'[sig] = NoInfo /\ pending[sig] # NoInfo
          /\ \A other \in Signals \ {sig} : pending'[other] = pending[other]
      BY <1>0, <1>7 DEF Handle, SigTypeOK
    <2>2. s \in Senders /\ PendingOf(s) /\ ~Unsent(s)
      BY <1>0, <2>1, OneWay, InfoFields DEF PendingOf, SigTypeOK
    <2>3. ~PendingOf(s)'
      BY <2>1, OneWay DEF PendingOf
    <2>4. \A r \in Senders \ {s} : PendingOf(r)' <=> PendingOf(r)
      BY <2>1 DEF PendingOf
    <2>5. SignalLeft(s) = 3 /\ SignalLeft(s)' = 2
      BY <2>1, <2>2, <2>3 DEF SignalLeft, Unsent
    <2>6. \A r \in Senders \ {s} : SignalLeft(r)' = SignalLeft(r)
      BY <2>1, <2>4 DEF SignalLeft, Unsent
    <2> QED
      BY <1>4, <2>1, <2>2, <2>5, <2>6
  <1>8. CASE HandlerStep
    <2>0. handling # NoInfo /\ handling.from \in Senders
      BY <1>0, <1>8, InfoFields DEF HandlerStep, Report, HandlerReturns, SigTypeOK
    <2> PICK s \in Senders : s = handling.from
      BY <2>0
    <2>1. /\ handling # NoInfo /\ UNCHANGED <<sent, sigPc, pending>>
          /\ \/ ~spoken /\ spoken' /\ handling' = handling
             \/ spoken /\ handling' = NoInfo
      BY <1>8 DEF HandlerStep, Report, HandlerReturns
    <2>2. s \in Senders /\ ~PendingOf(s) /\ ~Unsent(s)
      BY <1>0, <2>1, OneWay, InfoFields DEF PendingOf, SigTypeOK
    <2>3. \A r \in Senders : (PendingOf(r)' <=> PendingOf(r)) /\ (Unsent(r)' <=> Unsent(r))
      BY <2>1 DEF PendingOf, Unsent
    <2>4. SignalLeft(s)' < SignalLeft(s)
      BY <2>1, <2>2, <2>3 DEF SignalLeft
    <2>5. \A r \in Senders \ {s} : SignalLeft(r)' = SignalLeft(r)
      BY <2>1, <2>3 DEF SignalLeft
    <2> QED
      BY <1>4, <2>1, <2>2, <2>4, <2>5
  <1>9. ASSUME NEW x \in Info, Send(x) PROVE SigUsesUp
    <2> DEFINE s == x.from
    <2>1. /\ s \in Senders /\ Unsent(s) /\ x.sig \in Signals
          /\ UNCHANGED <<sigPc, handling, spoken>>
          /\ sent' = Append(sent, x) /\ sent \in Seq(Info)
          /\ pending' = pending \/ pending' = [pending EXCEPT ![x.sig] = x]
          /\ pending' # pending => pending[x.sig] = NoInfo
      BY <1>0, <1>9, InfoFields DEF Send, Unsent, SigTypeOK
    <2>2. /\ Len(sent') = Len(sent) + 1 /\ sent'[Len(sent) + 1] = x /\ Len(sent) \in Nat
          /\ \A i \in 1..Len(sent) : sent'[i] = sent[i]
      BY <2>1, AppendProperties
    <2>3. ~Unsent(s)' /\ \A r \in Senders \ {s} : Unsent(r)' <=> Unsent(r)
      BY <2>2 DEF Unsent
    <2>4. \A r \in Senders \ {s} : PendingOf(r)' <=> PendingOf(r)
      <3>1. CASE pending' = pending
        BY <3>1 DEF PendingOf
      <3>2. CASE pending' # pending
        <4>1. /\ pending'[x.sig] = x /\ pending[x.sig] = NoInfo
              /\ \A sig \in Signals \ {x.sig} : pending'[sig] = pending[sig]
          BY <1>0, <2>1, <3>2 DEF SigTypeOK
        <4> QED
          BY <4>1, <2>1 DEF PendingOf
      <3> QED
        BY <3>1, <3>2
    <2>5. SignalLeft(s) = 4 /\ SignalLeft(s)' < 4
      BY <2>1, <2>3 DEF SignalLeft
    <2>6. \A r \in Senders \ {s} : SignalLeft(r)' = SignalLeft(r)
      BY <2>1, <2>3, <2>4 DEF SignalLeft
    <2> QED
      BY <1>4, <2>1, <2>5, <2>6
  <1> QED
    BY <1>5, <1>6, <1>7, <1>8, <1>9 DEF SigNext, KernelStep

\* In each program a step takes a call, a round or a second from somebody and gives
\* nobody one: with ProgramsRest, what can be waited for comes in a bounded number
\* of steps of those who can go on.
THEOREM ProgramsRunOut ==
    ProgramsSpec => /\ [][MapUsesUp]_mapVars
                    /\ [][ThUsesUp]_thVars
                    /\ [][TreeUsesUp]_treeVars
                    /\ [][SigUsesUp]_sigVars
                    /\ [][FileUsesUp]_fileVars
  <1>1. ProgramsSpec => [][MapUsesUp]_mapVars
    BY ProgramsCompose, MapInvariant, MapUses, PTL DEF MapSpec
  <1>2. ThSpec => []InLoop
    BY InLoopInit, InLoopStep, ThInvariant, PTL DEF ThSpec
  <1>3. ThInv => ThTypeOK
    BY DEF ThInv
  <1>4. ProgramsSpec => [][ThUsesUp]_thVars
    BY <1>2, <1>3, ProgramsCompose, ThInvariant, ThUses, PTL DEF ThSpec
  <1>5. TreeInv => TreeTypeOK
    BY DEF TreeInv
  <1>6. ProgramsSpec => [][TreeUsesUp]_treeVars
    BY <1>5, ProgramsCompose, TreeInvariant, TreeUses, PTL DEF TreeSpec
  <1>7. ProgramsSpec => [][SigUsesUp]_sigVars
    BY ProgramsCompose, SigInvariant, SigUses, PTL DEF SigSpec
  <1>8. ProgramsSpec => [][FileUsesUp]_fileVars
    BY ProgramsCompose, FileInvariant, FileUses, PTL DEF FileSpec
  <1> QED
    BY <1>1, <1>4, <1>6, <1>7, <1>8
===============================================================================
