------------------------------ MODULE MCProcess -----------------------------
(* Instances of Process for TLC.                                           *)
EXTENDS Process

\* Untypeds of 1, 2 and 1 units: a process that needs 2 takes one or two.
SizesOfThree == [u \in 0 .. 2 |-> IF u = 1 THEN 1 ELSE 0]
SizesOfTwo == [u \in 0 .. 1 |-> 1]
=============================================================================
