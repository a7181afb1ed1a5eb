---------------------------- MODULE MCWorkstation ----------------------------
(* A read, a packing, two Office workers and the pipeline. *)
EXTENDS Workstation, TLC

CONSTANTS r1, k1, o1, o2, pipe
=============================================================================
