---------------------------- MODULE MCInterrupts ----------------------------
(* A disk and a keyboard. *)
EXTENDS Interrupts

Latencies == [d \in {"disk", "keyboard"} |-> IF d = "disk" THEN {2, 5} ELSE {3}]
=============================================================================
