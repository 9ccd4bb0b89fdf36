---------------------------- MODULE MCSynchDisk ----------------------------
(* Two threads on a disk of a few sectors. *)
EXTENDS SynchDisk
=============================================================================
