---------------------------- MODULE MCDiskFiles ----------------------------
(* Small instances of DiskFiles for TLC.                                   *)
EXTENDS DiskFiles, TLC

CONSTANTS a, fileA, fileB, fileC

(* stdin and stdout apart, one name is like another. *)
NamesAlike == Permutations({fileA, fileB, fileC})
=============================================================================
