---------------------------- MODULE MCConversion ----------------------------
(* Two outputs whose bytes differ from one conversion to the next. *)
EXTENDS Conversion, TLC

CONSTANTS o1, o2, x, y
Symmetry == Permutations({o1, o2}) \cup Permutations({x, y})
=============================================================================
