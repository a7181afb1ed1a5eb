---------------------------- MODULE MCProcessing ----------------------------
(* Three tasks: one in the batch, one saved while the worker looks, one left *)
(* by an earlier session.                                                    *)
EXTENDS Processing, TLC

CONSTANTS t1, t2, t3
MCTasks == {t1, t2, t3}
TaskSymmetry == Permutations(MCTasks)
=============================================================================
