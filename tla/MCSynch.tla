------------------------------ MODULE MCSynch ------------------------------
(* Small instances of Synch for TLC.                                       *)
EXTENDS Synch, TLC

CONSTANTS t1, t2, t3, s1, l1, c1

MCCondLock == [c \in Condition |-> l1]
MCInitValue == [s \in Semaphore |-> 0]

Symmetry == Permutations(Thread \ {main})
=============================================================================
