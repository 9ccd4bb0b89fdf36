--------------------------- MODULE MCFileSyscalls ---------------------------
(* Small instances of FileSyscalls for TLC.                                *)
EXTENDS FileSyscalls, TLC

CONSTANTS a

MCIds == {1, 2, 3, MaxFileOpen}

(* What the next step depends on: the record of the last call and its      *)
(* result only serve the properties of a single step.                      *)
Kept == << openf, dir, data, fds, state >>

=============================================================================
