------------------------------ MODULE MCUdpSend -----------------------------
(* An instance of UdpSend for TLC.                                         *)
EXTENDS UdpSend

CONSTANTS s1, s2, t1, t2, t3
=============================================================================
