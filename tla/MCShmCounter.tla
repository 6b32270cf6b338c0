----------------------------- MODULE MCShmCounter -----------------------------
(***************************************************************************)
(* Instances of ShmCounter: which program each run executes.               *)
(***************************************************************************)
EXTENDS ShmCounter

\* Run "a" is the two-process program, run "b" the threaded one.
SafeAndThread == [a |-> "safe", b |-> "thread"]
TwoSafe       == [a |-> "safe", b |-> "safe"]
OneUnsafe     == [a |-> "unsafe"]
===============================================================================
