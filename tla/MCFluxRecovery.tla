---------------------------- MODULE MCFluxRecovery ----------------------------
(* Three passes over two regions, of which the first is alike on both        *)
(* floppies; a budget of two ticks, and two runs that end early.             *)
EXTENDS FluxRecovery

CONSTANTS fA, fB
\* The floppies have no names of their own: fA is the one that was read first.
FirstIsA ==
  \A a \in Slots : cap[a].floppy = fB => \E b \in Slots : b < a /\ cap[b].floppy = fA
=============================================================================
