------------------------------ MODULE MCThread ------------------------------
\* Instance of Thread for TLC.
EXTENDS Thread

CONSTANTS c1, c2
=============================================================================
