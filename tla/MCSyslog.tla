------------------------------ MODULE MCSyslog ------------------------------
\* Instance of Syslog for TLC: a thread of the root task beside the servers,
\* a client of another process, and two UARTs.
EXTENDS Syslog

CONSTANTS r1, u1, clock, serial
=============================================================================
