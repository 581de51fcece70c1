------------------------------ MODULE MCUdpRecv -----------------------------
(* An instance of UdpRecv for TLC.                                         *)
EXTENDS UdpRecv, TLC

CONSTANTS s1, t1, t2

\* Two threads that receive on one socket.
OneSocket == (t1 :> s1) @@ (t2 :> s1)
=============================================================================
