------------------------------ MODULE MCSerial ------------------------------
(* Instances of Serial for TLC.                                            *)
EXTENDS Serial, TLC

CONSTANTS p1, p2, t1, t2, t3, u1, u2, x, y

\* Two threads of one process, and one of another.
Owners == (t1 :> p1) @@ (t2 :> p1) @@ (t3 :> p2)
TwoOwners == (t1 :> p1) @@ (t2 :> p2)
TwoPayloads == {<<x, y>>, <<y>>}
OnePayload == {<<x, y>>}
=============================================================================
