---------------------------- MODULE MCRunControl ----------------------------
(* Three runs in a row, two stop commands and a status command beside them. *)
EXTENDS RunControl, TLC

CONSTANTS s1, s2, p1
CommandSymmetry == Permutations({s1, s2})
=============================================================================
