----------------------------- MODULE MCSysclock -----------------------------
(***************************************************************************)
(* Instances of Sysclock for TLC.  A 3-bit word and a period of 3 make the *)
(* clock overflow every third tick, at another value each time: as in the  *)
(* code, the period does not divide the word.                              *)
(***************************************************************************)
EXTENDS Sysclock, TLC

CONSTANTS c1, c2

SleepOps == {"sleep", "cancel"}
ClientSymmetry == Permutations(Clients)
AsyncOps == {"set", "cancel", "time", "waitcancel"}
=============================================================================
