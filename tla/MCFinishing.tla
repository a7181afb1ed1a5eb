----------------------------- MODULE MCFinishing -----------------------------
(* Two labels: nothing decodes, all is well, or both need attention. *)
EXTENDS Finishing

CONSTANTS p1, p2
Batches == {<<"raw", "raw">>, <<"full", "full">>, <<"raw", "partial">>}
=============================================================================
