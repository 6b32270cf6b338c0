-------------------------------- MODULE Signals --------------------------------
(***************************************************************************)
(* A process that handles a signal, and the programs that send it some:    *)
(*   20_signal.c       handles SIGTERM and ignores SIGINT         "signal" *)
(*   23_signal_recv.c  handles SIGUSR1                         "sigaction" *)
(*   21_kill.c         sends a signal with kill()                          *)
(*   22_signal_send.c  sends SIGUSR1 and a payload with sigqueue()         *)
(* Each sender is one run of 21_kill.c or 22_signal_send.c; the payload is *)
(* the sender.  These are standard signals: at most one of each is         *)
(* pending, and while the handler runs its signal is blocked.              *)
(***************************************************************************)
EXTENDS Integers, Sequences

CONSTANTS
    SigPrograms,    \* a subset of {"signal", "sigaction"}
    Senders,
    NoInfo

ASSUME SigAssumption == SigPrograms \subseteq {"signal", "sigaction"}

Signals == {"TERM", "INT", "KILL", "USR1"}

\* The siginfo_t of a signal, and what a handler tells of it.
Info == [sig : Signals, how : {"kill"}, from : Senders]
        \union [sig : {"USR1"}, how : {"sigqueue"}, from : Senders]

ASSUME NoInfoAssumption == NoInfo \notin Info \union Signals

VARIABLES
    sigProg,        \* the program of the process
    sigPc,          \* the call it is about to make, its loop, or "dead"
    disposition,    \* what each signal does
    pending,        \* the pending signal of each number
    handling,       \* the signal the handler was called for
    spoken,         \* the handler has printed
    reported,       \* history: what the handler reported
    sent,           \* history: the signals in the order they were sent
    early,          \* history: the numbers sent before the handler was set
    awaited,        \* history: senders to a handler that was not called since
    diedOf          \* the signal that ended the process

sigVars == <<sigProg, sigPc, disposition, pending, handling, spoken, reported, sent, early,
             awaited, diedOf>>

Handled == IF sigProg = "signal" THEN "TERM" ELSE "USR1"

SigInit ==
    /\ sigProg \in SigPrograms
    /\ sigPc = "handle"
    /\ disposition = [sig \in Signals |-> "default"]
    /\ pending = [sig \in Signals |-> NoInfo]
    /\ handling = NoInfo /\ spoken = FALSE
    /\ reported = <<>> /\ sent = <<>> /\ early = {} /\ awaited = {}
    /\ diedOf = NoInfo

Alive == sigPc # "dead"

\* signal(SIGTERM, signal_handler), sigaction(SIGUSR1, &act, NULL): one call that
\* does not end; a signal that is already pending meets the handler.
SetHandler ==
    /\ sigPc = "handle"
    /\ disposition' = [disposition EXCEPT ![Handled] = "handler"]
    /\ sigPc' = IF sigProg = "signal" THEN "ignoreINT" ELSE "loop"
    /\ UNCHANGED <<sigProg, pending, handling, spoken, reported, sent, early, awaited, diedOf>>

\* signal(SIGINT, SIG_IGN) also discards a pending SIGINT.
IgnoreInt ==
    /\ sigPc = "ignoreINT"
    /\ disposition' = [disposition EXCEPT !["INT"] = "ignore"]
    /\ pending' = [pending EXCEPT !["INT"] = NoInfo]
    /\ sigPc' = "ignoreKILL"
    /\ UNCHANGED <<sigProg, handling, spoken, reported, sent, early, awaited, diedOf>>

\* signal(SIGKILL, SIG_IGN) fails with EINVAL, which is not looked at.
IgnoreKill ==
    /\ sigPc = "ignoreKILL"
    /\ sigPc' = "loop"
    /\ UNCHANGED <<sigProg, disposition, pending, handling, spoken, reported, sent, early,
                   awaited, diedOf>>

\* Mutant: a signal that arrives while its handler runs is dropped.
SendDropped(x) ==
    /\ \A i \in 1..Len(sent) : sent[i].from # x.from
    /\ sent' = Append(sent, x)
    /\ early' = IF sigPc = "handle" THEN early \union {x.sig} ELSE early
    /\ awaited' = IF Alive /\ disposition[x.sig] = "handler" THEN awaited \union {x.from}
                                                             ELSE awaited
    /\ pending' = IF Alive /\ disposition[x.sig] # "ignore" /\ pending[x.sig] = NoInfo
                                                            /\ handling = NoInfo
                  THEN [pending EXCEPT ![x.sig] = x] ELSE pending
    /\ UNCHANGED <<sigProg, sigPc, disposition, handling, spoken, reported, diedOf>>

\* kill(pid, signum), sigqueue(pid, SIGUSR1, value), whose results are not looked
\* at: nothing happens when the process is gone or ignores the signal, or when the
\* number is pending: the payload of the second sigqueue() is lost.
Send(x) ==
    /\ \A i \in 1..Len(sent) : sent[i].from # x.from
    /\ sent' = Append(sent, x)
    /\ early' = IF sigPc = "handle" THEN early \union {x.sig} ELSE early
    /\ awaited' = IF Alive /\ disposition[x.sig] = "handler" THEN awaited \union {x.from}
                                                             ELSE awaited
    /\ pending' = IF Alive /\ disposition[x.sig] # "ignore" /\ pending[x.sig] = NoInfo
                  THEN [pending EXCEPT ![x.sig] = x] ELSE pending
    /\ UNCHANGED <<sigProg, sigPc, disposition, handling, spoken, reported, diedOf>>

\* The default action of these four signals ends the process, also in a handler.
Die(sig) ==
    /\ Alive /\ pending[sig] # NoInfo /\ disposition[sig] = "default"
    /\ sigPc' = "dead" /\ diedOf' = sig
    /\ pending' = [other \in Signals |-> NoInfo]
    /\ handling' = NoInfo /\ spoken' = FALSE
    /\ UNCHANGED <<sigProg, disposition, reported, sent, early, awaited>>

\* Mutant: the handler is set with SA_RESETHAND, as signal() of System V does.
HandleOnce(sig) ==
    /\ Alive /\ pending[sig] # NoInfo /\ disposition[sig] = "handler"
    /\ handling = NoInfo
    /\ handling' = pending[sig] /\ spoken' = FALSE
    /\ pending' = [pending EXCEPT ![sig] = NoInfo]
    /\ disposition' = [disposition EXCEPT ![sig] = "default"]
    /\ awaited' = {}
    /\ UNCHANGED <<sigProg, sigPc, reported, sent, early, diedOf>>

\* The handler is called, with the signal blocked, wherever the loop is; sleep()
\* returns early.
Handle(sig) ==
    /\ Alive /\ pending[sig] # NoInfo /\ disposition[sig] = "handler"
    /\ handling = NoInfo
    /\ handling' = pending[sig] /\ spoken' = FALSE
    /\ pending' = [pending EXCEPT ![sig] = NoInfo]
    /\ awaited' = {}
    /\ UNCHANGED <<sigProg, sigPc, disposition, reported, sent, early, diedOf>>

\* si_code is SI_USER = 0 or SI_QUEUE = -1, so that si_code & SI_QUEUE is si_code.
SiCode(x) == IF x.how = "sigqueue" THEN -1 ELSE 0

\* The body of the handler: 20_signal.c has only the number.
Report ==
    /\ handling # NoInfo /\ ~spoken
    /\ spoken' = TRUE
    /\ reported' = Append(reported,
         [from |-> handling.from,
          as   |-> IF sigProg = "signal" THEN "number"
                   ELSE IF SiCode(handling) # 0 THEN "sigqueue" ELSE "kill"])
    /\ UNCHANGED <<sigProg, sigPc, disposition, pending, handling, sent, early, awaited, diedOf>>

HandlerReturns ==
    /\ handling # NoInfo /\ spoken
    /\ handling' = NoInfo /\ spoken' = FALSE
    /\ UNCHANGED <<sigProg, sigPc, disposition, pending, reported, sent, early, awaited, diedOf>>

SetupStep == SetHandler \/ IgnoreInt \/ IgnoreKill
KernelStep == \E sig \in Signals : Die(sig) \/ Handle(sig)
HandlerStep == Report \/ HandlerReturns

SigNext == SetupStep \/ KernelStep \/ HandlerStep \/ \E x \in Info : Send(x)

SigSpec == SigInit /\ [][SigNext]_sigVars

-------------------------------------------------------------------------------
SigTypeOK ==
    /\ sigProg \in SigPrograms
    /\ sigPc \in {"handle", "ignoreINT", "ignoreKILL", "loop", "dead"}
    /\ disposition \in [Signals -> {"default", "handler", "ignore"}]
    /\ pending \in [Signals -> Info \union {NoInfo}]
    /\ \A sig \in Signals : pending[sig] # NoInfo => pending[sig].sig = sig
    /\ handling \in Info \union {NoInfo}
    /\ spoken \in BOOLEAN
    /\ reported \in Seq([from : Senders, as : {"number", "kill", "sigqueue"}])
    /\ sent \in Seq(Info)
    /\ early \subseteq Signals /\ awaited \subseteq Senders
    /\ diedOf \in Signals \union {NoInfo}

SentAt(s) == CHOOSE i \in 1..Len(sent) : sent[i].from = s

\* The handler reports signals in the order they were sent, no signal twice, and
\* tells a sigqueue() from a kill(); and the signal it is for ends the process only
\* when it was sent before the handler was set.  (the order of the calls in main,
\* siguser1_handler, a handler that stays set)
HandledRight ==
    /\ \A i, j \in 1..Len(reported) : i < j => SentAt(reported[i].from) < SentAt(reported[j].from)
    /\ \A i \in 1..Len(reported) :
          LET x == sent[SentAt(reported[i].from)] IN
          x.sig = Handled /\ reported[i].as \in {"number", x.how}
    /\ diedOf = Handled => Handled \in early
    /\ diedOf # NoInfo => diedOf \in {sent[i].sig : i \in 1..Len(sent)}

\* A signal that is sent to a process whose handler is set is followed by a call of
\* the handler, also when the handler is running or the signal was merged with a
\* pending one, unless the process ends.
SignalsHandled == awaited # {} ~> awaited = {} \/ ~Alive
===============================================================================
