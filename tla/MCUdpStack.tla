----------------------------- MODULE MCUdpStack -----------------------------
\* Instance of UdpStack for TLC: two threads of one process, one of another;
\* sockets are made on any address and on one that only a second interface has.
EXTENDS UdpStack, TLC

CONSTANTS t1, t2, t3, a1, a2

Owners == (t1 :> 1) @@ (t2 :> 1) @@ (t3 :> 2)
Requests == {a2, AnyAddr}
=============================================================================
