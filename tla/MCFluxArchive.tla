---------------------------- MODULE MCFluxArchive ----------------------------
(* Two captures for the queue; an operator packing beside the worker, a      *)
(* decoder and more damage while only the first of them is in use.           *)
EXTENDS FluxArchive, TLC

CONSTANTS c1, c2, w, op, rd

Unused(c) ==
  /\ raw[c] = "good" /\ zip[c] = "none" /\ meta[c] = "none"
  /\ c \notin tasks \cup entrusted /\ c # given
  /\ \A p \in Packers : target[p] # c
  /\ \A r \in Readers : source[r] # c
Alone ==
  /\ \A p \in Operators : step[p] = "idle"
  /\ \A r \in Readers : reading[r] = "idle"
  /\ damage = 0
EnvironmentBound == Unused(c2) \/ Alone
=============================================================================
