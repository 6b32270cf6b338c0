---------------------------- MODULE GuardedCounter ----------------------------
(***************************************************************************)
(* What a lock around a shared counter promises: an update is atomic, and  *)
(* only the worker that owns the counter updates it.                       *)
(***************************************************************************)
EXTENDS Integers

CONSTANTS
    Workers,    \* who may update the counter
    Amounts(_), \* what each of them may add
    Nobody      \* the owner of a free counter

VARIABLES value, owner

Init == value = 0 /\ owner = Nobody

Acquire(w) == owner = Nobody /\ owner' = w /\ value' = value

Update(w) ==
    owner = w /\ (\E d \in Amounts(w) : value' = value + d) /\ UNCHANGED owner

\* The owner gives the counter up, or stops in the middle of its updates.
Release == owner' = Nobody /\ value' = value

\* The memory behind a counter that nobody owns is given back, zeroed.
Reset == owner = Nobody /\ value' = 0 /\ UNCHANGED owner

Next == \/ \E w \in Workers : Acquire(w) \/ Update(w)
        \/ Release
        \/ Reset

Spec == Init /\ [][Next]_<<value, owner>>
===============================================================================
