----------------------------- MODULE MCThreads -----------------------------
(* Small instances of Threads for TLC.                                     *)
EXTENDS Threads

CONSTANTS t1, t2
=============================================================================
