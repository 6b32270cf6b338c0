------------------------------- MODULE MCPosixMq -------------------------------
(***************************************************************************)
(* Instances of PosixMq: the priorities on the senders' command lines.     *)
(* UIntMod is 8 and PrioMax 4, so that 9 and 10 stand for the priorities 1 *)
(* and 2 and 5 is refused.                                                 *)
(***************************************************************************)
EXTENDS PosixMq

ThreeArgs == [s0 |-> 1, s1 |-> 9, s2 |-> 2]
OneRefused == [s0 |-> 0, s1 |-> 10, s2 |-> 5]
===============================================================================
