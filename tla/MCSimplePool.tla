---------------------------- MODULE MCSimplePool ----------------------------
(* An instance of SimplePool, and of PoolSpec through it, for TLC.         *)
EXTENDS SimplePool
=============================================================================
