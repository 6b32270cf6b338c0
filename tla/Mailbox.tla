-------------------------------- MODULE Mailbox --------------------------------
(***************************************************************************)
(* What a message queue promises to processes that each send or receive    *)
(* one message: a message is taken by at most one receiver, only after it  *)
(* was put there, and stays until it is taken or the queue is removed.     *)
(***************************************************************************)
CONSTANTS
    Senders,    \* a message is named by the process that sends it
    Receivers,
    Nothing     \* what a receiver has before it took a message

VARIABLES
    pending,    \* messages put and not taken
    got         \* the message each receiver took

Init == pending = {} /\ got = [r \in Receivers |-> Nothing]

Put(s) ==
    /\ s \notin pending
    /\ \A r \in Receivers : got[r] # s
    /\ pending' = pending \union {s}
    /\ UNCHANGED got

Take(r, s) ==
    /\ got[r] = Nothing
    /\ s \in pending
    /\ got' = [got EXCEPT ![r] = s]
    /\ pending' = pending \ {s}

\* The queue is removed with what is in it.
Drop == pending' \subseteq pending /\ UNCHANGED got

Next ==
    \/ \E s \in Senders : Put(s)
    \/ \E r \in Receivers, s \in Senders : Take(r, s)
    \/ Drop

Spec == Init /\ [][Next]_<<pending, got>>
================================================================================
